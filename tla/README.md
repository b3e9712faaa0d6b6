# A TLA+ development for headofcontext

headofcontext decides, for an AI agent that acts for a human, what it may read,
which tools it may call and what it may remember, and keeps a journal that can
prove it afterwards. This directory holds TLA+ models of the parts of that
decision path in which several calls, several stores or several instants of time
interact, TLC runs that check them on small instances, and TLAPS proofs of the
results that matter most. Paths below are relative to `src/headofcontext/` of the
repository. `PROJECT.json` is the machine-readable index: definitions to source
lines, runs, mutants, hazards, findings, theorems.

## 1. Inventory

### The components, their state and their operations

| Component | State | Operations that change it | Modelled in |
|---|---|---|---|
| ACT gate and approvals (`actions/gate.py`, `actions/approvals.py`) | `approval_requests` rows: status, expiry, binding to chain, tool and argument hash | `gate`, `resolve_request` (API and CLI), `redeem`, `expire_overdue` | `ActionGate` |
| Decision path (`core/decider.py`), policies (`actions/policies.py`) | none | `decide`, `decide_all`, `decide_each` | `Decider` (operators) |
| Scopes (`core/scope.py`, `core/chain.py`, `tokens/biscuit/datalog.py`) | none | capability inclusion, narrowing | `Scope` (operators) |
| Tokens (`tokens/biscuit/service.py`) | signed blocks, `revoked_tokens` | `issue`, `attenuate`, `verify`, `revoke` | `Tokens` |
| Mandates (`tokens/mandates.py`) | `mandates` rows | `create`, `issue`, `revoke`, lazy `_fresh`, `expire_overdue` | `Tokens` |
| Connector reconciliation (`read/connectors/base.py`) | `connector_state_v2`, tuples in OpenFGA | `reconcile`, freshness guard | `ConnectorSync` |
| OpenFGA engine (`engines/openfga/engine.py`) | none of its own | `check`, `batch_check`, `list_objects`, `write` with retries | `ConnectorSync`, `ReadFilter`, `Memory` |
| Read filter (`read/filter.py`) | locals of a call | `filter_items`, three strategies | `ReadFilter` |
| Provenance memory (`memory/service.py`) | OpenFGA tuples, backend content, ledger row | `remember` with rollback, `recall`, `forget` | `Memory` |
| Audit journal (`audit/postgres.py`, `audit/chain.py`) | `audit_events`, hash chained | `record`, export, verify; the retention runbook's prune | `Journal` |
| Agent session, guard, MCP proxy (`integrations/`) | none: the token is verified on every call | `authorize`, `redeem`, tool listing, forwarding upstream | `McpProxy`, `ToolNames` |
| Rate limiter (`api/ratelimit.py`) | token buckets, by address, by bearer and by address for new bearers | `acquire_request` with refill and eviction at `MAX_BUCKETS` | `RateLimiter` |
| Identity (`identity/oidc.py`, `callers.py`, `api/deps.py`) | discovery document, cached key set and its age, time of the last forced refresh | `verify_user_token`, `caller_from_identity`, `require_user`, `require_agent` | `OidcProvider`, `Callers` |
| Migrations (`db/migrations.py`), readiness (`readiness.py`) | `schema_migrations`, the advisory lock, the check in flight | `migrate`, `assert_current`, `ReadinessProbe.run` | `Startup` |
| Connectors (`read/connectors/{files,nextcloud,pipeshub}.py`, `identity/groups.py`) | locals of a snapshot | the reads of a snapshot, page by page, and its mapping to tuples | `Connectors` |
| Signing keys, notification transports, telemetry, request translation, CLI parsing, settings, wiring | - | I/O, formats, cryptography, construction | not modelled (section 7) |

### How they interact

A request passes the rate limiter, then the verification of its bearer, whose claims say
which caller it stands for and so which routes it may enter. The MCP proxy takes calls of
agents for named upstreams, and verifies the agent's token for each. The API and the MCP
proxy call `gate`; `gate` and `redeem` call `Decider.decide`,
which consults the scope of the verified token, the policies and the engine, and
journals. Humans resolve through the API or the CLI, which ask the engine for
authority. `hoc sync` runs in a loop: it reconciles the connectors and sweeps overdue
approvals and mandates; a reconcile begins with the snapshot that `Connectors` models read
by read. The read filter and memory call the decider in batches. The
engine answers from the tuples reconciliation wrote, behind a freshness guard. Every
process appends to one `audit_events` table, and every process that starts looks at one
migration ledger. State is shared through PostgreSQL and
OpenFGA only, and there is no transaction across the two; the buckets, the key cache and
the readiness check are private to a process and shared by the coroutines in it.

### What is hard

Every `await` is a place where another call runs, where the call may raise and where
the process may die. The recurring hazards (40 of them, each at its line, are in
`PROJECT.json`) are: a check and the write it guards are separate steps; one of the
expiries is not a compare-and-set; three stores are written without a transaction;
a value of the clock is used after an await; a reply is lost after the write took
effect; a baseline is saved that does not describe what OpenFGA holds; `or` treats a
zero duration as absent; a sequence number is given before its row is visible; two replies
land in the other order; a source is read in several requests and changes between them; a
table at its cap has to forget somebody; a replica boots while an older one serves.

### What makes each component correct

* **Approvals**: used at most once, by the call they were asked for; granted by
  somebody with authority; never reopened; never pending for ever; visible in the
  journal before a caller acts on them.
* **Tokens and mandates**: nothing that begins after a revocation verifies or is
  issued; delegation only narrows; nobody revokes an ancestor; no mandate stays
  active past its date.
* **Reconciliation**: what a check allows was granted recently enough; a known
  removal is applied before the state advances; runs that do not stop half way
  converge.
* **Read filter**: what is kept was allowed; the strategies agree; a batch that fails, or
  a reply that is missing, costs only the documents it is about.
* **Memory**: recall returns nothing written from a document the subject cannot view,
  nothing private of somebody else, nothing forgotten.
* **Journal**: the chain never forks; exports verify; no acknowledged event is lost.
* **MCP proxy**: what reaches an upstream was allowed as what it is, once, with the
  arguments that were approved; nothing after a revocation; a listed name leads to the
  tool it was listed for.
* **Rate limiter**: nobody gets more than the budget while their bucket is kept; an
  eviction spares those who have used theirs up.
* **Identity**: a withdrawn key dies within a bounded time, a rotation is picked up, and
  a token enters as the caller it was issued to.
* **Start**: every migration once and in order, whoever dies; ready means every
  dependency was good.
* **Connectors**: a snapshot grants nothing that the source did not grant during the read.

## 2. Modules

| Module | Role |
|---|---|
| `Decider` | decisions as operators: policies with raising predicates, `Evaluate`, `EvaluateAll`, `EvaluateEach` |
| `ActionGate` | the gate with concurrent calls |
| `ApprovalContract` | abstract specification: a request is asked, granted or closed, and serves one caller at most |
| `Scope` | capabilities and their inclusion, over sequences of characters |
| `Tokens` | mandates, tokens, delegation, revocation; uses `Scope` |
| `ConnectorSync` | reconcile, state, guard, check |
| `ReadFilter` | one `filter_items` call; uses `Decider` |
| `Memory` | remember, recall, forget over three stores; uses `Decider` |
| `Journal` | record, export, verify, prune |
| `ToolNames` | names of upstream tools, over sequences of characters |
| `McpProxy` | calls, redemptions and listings through the proxy; uses `Decider`, `ToolNames`, and `ApprovalContract` for the approvals behind the gate |
| `Timing` | the clock of a process, shared by the next two |
| `RateLimiter` | the buckets |
| `Callers` | who a token stands for, as operators |
| `OidcProvider` | verifications with the key cache; uses `Callers` |
| `Startup` | replicas that migrate and are probed |
| `Connectors` | snapshots of four kinds of source, read by read |
| `MCSurfaces` | `ReadFilter` and the modules from `ToolNames` to `Connectors` in one instance |
| `MCProxyNames` | the proxy with an upstream whose name ends in an underscore |
| other `MC*` | constants for TLC |
| `ActionGateProofs`, `TokensProofs`, `ConnectorSyncProofs`, `MemoryProofs`, `JournalProofs`, `McpProxyProofs` | what is proved of the module each is named after (section 5) |
| `ServerProofs` | what is proved of `OidcProvider`, of `RateLimiter` and of `Startup` |
| `ReadProofs` | what is proved of `ReadFilter` and of `Connectors` |

An inductive invariant that is more than the properties themselves stands at the end of the
module it is about or at the head of its proofs; TLC has found each to hold on the instances of
the runs before it was proved.

### Conventions

* A call is a record with a `pc`. A step is the code between two awaits: what runs
  without an await is atomic on one event loop, and a single SQL statement is atomic in
  PostgreSQL (READ COMMITTED). Other processes run between any two steps.
* Each call id is used once, but for the verifications of `OidcProvider`. A process that dies leaves its call where it is: no
  fairness is assumed of a call, so every prefix of a call is a behaviour, and a crash
  needs no action of its own. Where an exception takes another path than a death (a
  rollback, a `raised` answer), that path is an action.
* A request is named after the gate call that creates it, a memory after its remember
  call: the ids of the code are fresh uuids.
* Values are abstracted to what is compared. An argument hash is a value of a constant
  operator `Fingerprint`; a journal hash is the sequence of events it covers, so equal
  hashes mean equal histories (SHA-256 without collisions).
* The clock is a number all processes read. Ties, which the code's `<` and `>`
  tests tell apart, happen because a step need not advance it.

### Correspondence with the code

`ActionGate`: `rows` is the table; `gate`, `resolve`, `redeem` hold the locals of the
calls. `GateCreate` is `store.create`, `ResolveExpire` the unconditional
`store.update` of `resolve_request`, `ResolveSettle` and `RedeemClaim` the
compare-and-set `store.transition`, `Sweep` the statement of `expire_overdue`.
`Raise*` is any exception of an await. `journal` is the set of events written.

`Tokens`: a token is its sequence of blocks. A block of a delegation declares a scope, from
which `load` rebuilds the chain, and carries a signed check of its own; the two are separate
fields. A holder may also append blocks that only check something, with any biscuit library
(`AppendOpaque`): they restrict and leave the chain as it is. `TokenService.verify` checks
every block's check against the request (`Permits`, `Authorizes`) and every block's id
against the revocation list. `_fresh` and `_revoke` write back the row they read.
Signatures cannot be forged: only issued and attenuated tokens exist.

`ConnectorSync`: `run` is the one reconcile call in progress; a write of a chunk may be
refused, lost before or after it took effect and be repeated by `_call`; `clean` is a
history variable that says no run stopped between its first write and its save.

`ReadFilter`: `call` holds the arguments and locals of one call; batch replies are a
function of correlation ids, with replies missing or in error. The loop that keeps items
(`Select`) and the event about the references found among them again (`KeptRefs`, `Finish`)
are two steps. `viewable`, `always` and `unanswered` are history variables: what could be
viewed at some moment of the call, what at every moment, and what no answer came for.

`Memory`: `tuples`, `content` and `ledger` are the three stores. A recall follows one
search hit, which may stand for several memories (`memory/zep.py`).

`Journal`: the table is a set of rows with their `seq`; `Insert` takes a `seq`, `Commit`
makes the row visible, and may report a failure although it took effect. `export` is a
run of `hoc journal export` that reads in batches. `emptied` is a history variable: a
prune left no row.

`McpProxy`: `proxy` holds the calls from `_call_tool` and `_redeem` to `_forward`. A chain is
a holder (its subject and actor), a depth and a scope, of which `_mismatch` compares the first
two (`Identity`): a redemption may come with a token of another scope, and is then judged by
that scope again. A listing begins with whatever the upstreams offer, which may be nothing, and
then nothing is verified or journaled. The approvals are not those of `ActionGate` but of the abstract `ApprovalContract`, by
INSTANCE: the `gate` run checks that the one implements the other (`KeepsContract`), and
what the proxy promises is shown from the contract alone. `ran` is the history of what was
sent upstream. A name is gated by `Resource` and routed by `Partition`, two computations
that have to agree.

`RateLimiter`: one request is one step, since nothing in it awaits. Where buckets tie,
`Evicted` is a set of tables. `drawn` and `lost` are history variables.

`OidcProvider`: `verify` holds calls that wait for the discovery document or for the key
set; a reply carries the key it was served with and lands later, in any order, or is lost.
`withdrawn` is the provider's history of rotations. `Callers` is the decision table of
`caller_from_identity`.

`Startup`: `applied` is the migration ledger, `boot` the replicas, each of a release with
a `Latest` of its own. A death gives the advisory lock back. The readiness check is one
step per dependency; `seen` is the history of what was good since the last answer.

`Connectors`: `read` is a snapshot call with what it has read so far; `source` may go to
any other of its worlds between two requests. `ever` collects what the source granted at
each instant of the read.

`MCSurfaces` puts these parts in one instance. They share no state, so its variable `focus`
picks at the start the one part that moves: every behaviour is one of one part, and the
run explores the sum of the parts and not their product.

## 3. Runs

| Run | Result | What it shows |
|---|---|---|
| `gate` | pass | One request and any three of two resolvers and two redeems: at most one resolution wins (`OneResolution`), every standing or used approval has authority behind it (`ApprovalHasAuthority`), consumed and expired are final (`NeverReopened`), one ALLOW at most (`SingleUse`), and the gate implements `ApprovalContract` (`KeepsContract`). |
| `gate_lifecycle` | pass | Self-approval on and every near miss of a call: ALLOW only for the call asked for (`AllowIsBound`), nothing answered that is not journaled (`AnswersAreJournaled`), nothing pending for ever (`OverdueCloses`). |
| `gate_rejection` | violation | A rejection is overwritten by a late expiry (section 6). |
| `tokens` | pass | Revocation against issue, delegation, verification and expiry: `RevokedStaysDead`, `NoTokenAfterRevoke`, `VerifiedWithinScope`, `RevokedByOwner`, `MandateCloses`. |
| `tokens_expiry` | violation | A token outlives its mandate (section 6). |
| `sync` | pass | `AllowWasTrue`, `CleanRunsInLine`, `RemovalsBeforeSave`, `Converges`. |
| `sync_orphans` | violation | A tuple nobody will ever delete (section 6). |
| `memory` | pass | `RecallRespectsSources`, `PrivateHitsStayPrivate`, `ForgottenIsGone`, `WrittenIsWhole`. |
| `memory_merged` | violation | A private memory shows in a merged hit (section 6). |
| `journal` | pass | `LiveVerifies`, `ExportsVerify`, `NothingLost`, `EveryRecordEnds`. |
| `surfaces` | pass | The proxy (`RanWasAuthorized`, `RevokedReachesNothing`, `AnswersMatchJournal`), the limiter (`WithinBudget`, `SparesExhausted`), identity (`WithdrawnKeyExpires`, `RotationIsPickedUp`, `ServedIsHolder`), the start (`SchemaInStep`, `ReadyWasSeen`), the connectors (`SnapshotFaithful`), the read filter (`KeptWasAllowed`, `StrategiesAgree`, `AnsweredAreKept`). |
| `proxy_names` | violation | A listed tool leads to another upstream (section 6). |

The type invariant of `ActionGate` is checked in `gate` and proved; those of `Journal`,
`Tokens`, `ConnectorSync`, `Memory`, `McpProxy`, `OidcProvider` and `RateLimiter` are parts of
their proved invariants, and so are `FilterTypeOK` of `ReadFilter` and the shape of a read of
`Connectors` (`ReadShape`). Every property has a mutant in `PROJECT.json`: a plausible slip in the code (a dropped guard, a
compare-and-set made a plain write, a forgotten rollback) under which TLC finds it
violated.

### Bounds, and why they are enough

The proofs of section 5 remove the bounds for the safety properties of every part: they hold
for any number of calls, any constants that satisfy the named assumptions, and any length of
a behaviour. The runs are what shows that the
properties are about something, through their mutants, and all there is for liveness.

* **Gate.** One request, since requests share nothing but the clock; two calls of each
  racing kind and three at most at work (`ThreeCalls`), since every race in the code is
  between a reader and a writer of one row, and a third can have written in between. About
  1.2 million states. `TTL = 1` and `MaxClock = 2` give the instants before, at and after the expiry.
* **Tokens.** One mandate, one issue, one delegation, one verification, one revocation,
  scopes nested by a pattern, and blocks of the holder's own. A second delegation multiplies
  the states beyond what a run can visit; `NothingBeyondScope` is proved for any number.
  `MaxLife = 1`, `DefaultTTL = 2`, `MaxClock = 2`: a token
  that falls back to the default outlives the mandate.
* **Sync.** Two tuples in chunks of one, so that a run has a middle; one retry; two
  changes at the source, so that a tuple can be granted and withdrawn around a run;
  `MaxStaleness = 1` of two ticks.
* **Memory.** Two memories, so that a hit may stand for both; two users and one
  document; one change of rights; one recall and one forget.
* **Journal.** Three writers and one row per query: rows are committed before,
  between and after the queries of an export.
* **Proxy.** One call and two redemptions of it, eleven requests: the call itself, other
  arguments, a deeper chain, another holder, the same chain with a token of a narrower scope
  and with one that lacks the tool, the name with `tool:` in front, another exposed name gated
  as the same resource by the tool map, a tool whose name contains the separator, a name that
  routes nowhere and one that cannot be a resource. A listing is offered any subset of the
  tools.
* **Filter.** Three documents, batches of two, threshold two: a last batch that is not
  full, and a number of candidates on either side of the threshold. One change of
  rights during the call.
* **Limiter.** A table of three buckets for one address and two bearers, which have four
  keys between them: every new bearer meets a full table. A bucket holds two tokens and
  half a token flows in per tick, so that a level can be neither empty nor a whole token.
* **Identity.** Two verifications and two keys: the two fetches whose replies can swap.
  Cache age and refresh window of two ticks, replies of one, a clock of four: a key can
  be withdrawn, put back by a late reply and expire.
* **Start.** Releases with one and three migrations, a third replica that does not
  migrate, two deaths.
* **Connectors.** Two to four worlds per kind, each pair differing by the change that the
  reads could tear: a share withdrawn, two files swapped, a list that moves up a page, a
  group renamed. Pages of one entry.

Symmetry is used only in runs without liveness properties, over call ids, memories and
users, which nothing in the models orders.

### Deadlock

`CHECK_DEADLOCK FALSE` is set everywhere: each call id is used once and each bounded
counter ends, so an instance stops when its calls have ended. Where everybody could
wait for everybody (the journal's lock) the question is asked as a liveness property,
`EveryRecordEnds`.

## 4. Fairness

* `ActionGate`, `Tokens`: weak fairness of `Sweep` and of the clock. `hoc sync` sweeps in
  its loop and the chart runs it from a CronJob. Nothing is assumed of the calls.
* `ConnectorSync`: weak fairness of the step that takes a run forward, for the same
  reason. A run may still fail at each step; `Converges` therefore speaks of sources
  that have settled and of runs that are not cut short.
* `Journal`: weak fairness of the holder of the lock between two statements of one
  transaction, strong fairness of taking the lock (PostgreSQL queues waiters for an
  advisory lock). Nothing is assumed to make a waiting call give up.
* The parts of `surfaces` have no fairness: their properties are safety properties.

## 5. Proofs

Eight modules are checked by TLAPS, for every value of the constants that satisfies the
named assumptions: any number of calls, writers, replicas and clients, any TTL, batch, chunk
or cache age. `PROJECT.json` lists the theorems; each says which property of a run it states.
In every module the argument has one shape: the property is not inductive, because it speaks
of what a call was told and leaves out what the call relied on while it was under way. The
invariant says, for each point a call can have reached, what is known there, and in terms
that no other call can undo.

**The gate** (`ActionGateProofs`). `TypeCorrect`, `ApprovalsAreSingleUse` (`SingleUse`) and
`RequestsNeverReopen` (`NeverReopened`). Single use looks as if it followed from
`transition` being a compare-and-set, but the expiry in `resolve_request` is a plain
write and could turn a consumed request into an expired one. Why it does not takes the
clock: the resolver read the row as pending when its instant was already past the
expiry; whoever approves it later does so at a clock past the expiry, so every redeem
that finds it approved also finds it expired and none reaches its claim. This is
`LateWrite`, and it is inductive with `StampsArePast` (an instant held by a call is in
the past), `SeenIsPast` (what a redeem has read bounds what the row can be now),
`RowsCreated` and `ClaimsHold` (a claimed row is consumed and has one claimant). The
argument rests on one assumption that TLC cannot test either: all processes read one
clock that does not go back.

On top of it, `CallsInvariant` proves `CallsInv`: a resolver past its authorisation had the
authority (`Vetted`), an approved or consumed row names the call that approved it
(`RowsApproved`), a redeem past the mismatch test presents what was asked for (`Checked`), and
what a call is about to say is in the journal (`GateWrote`, `RedeemWrote`). From it follow
`ResolutionIsUnique` (`OneResolution`), `ApprovalsHaveAuthority`, `AllowsAreBound` and
`AnswersJournaled`. `GateKeepsContract` is the refinement: under the mapping of
`ActionGate`, which reads the life of a request off its row, every step is a step of
`ApprovalContract` or changes nothing there. This is what lets `McpProxy` be proved from the
contract alone.

**Tokens** (`TokensProofs`). `RevokedTokensStayDead` (`RevokedStaysDead`),
`NothingIssuedAfterRevoke` (`NoTokenAfterRevoke`), `NothingBeyondScope`
(`VerifiedWithinScope`), `OnlyOwnersRevoke` (`RevokedByOwner`). The invariant rests on what
only grows: mandates once stored, tokens once handed out, ids once revoked. An issue past its
check holds a mandate that names the agent and covers the scope (`Backs`), every scope
a token declares and every check it carries permits what the last block permits (`TokenKnows`,
`Enforced`: an opaque block appended later only takes away), and a call's snapshot of the revocation
list is part of the list now. That a verified request is within the mandate then needs
inclusion of scopes to be transitive and `Permits` to grow with the scope; both are lemmas
about the operators of `Scope`, for patterns and exact names alike.

**Reconciliation** (`ConnectorSyncProofs`). `CleanRunsBringInLine` (`CleanRunsInLine`),
`AllowsWereTrue` (`AllowWasTrue`) and the action property `RemovedBeforeSaved`
(`RemovalsBeforeSave`). A write whose reply is lost leaves it open whether it took effect, so
the invariant (`LineKnows`) says: as long as no run has stopped half way, OpenFGA holds for
each connector its saved snapshot, or, in the middle of its run, what is written so far, with
or without the chunk under way. `RunKnows` says that what has left the list of removals has
left OpenFGA, and that snapshots are dated in the order they are saved; `CheckKnows` that no
snapshot OpenFGA may still show to a check is older than the guard let through. The proof
covers any number of connectors and tuples, chunks and retries, with one run at a time.

**Memory** (`MemoryProofs`). `RecallsRespectSources`, `PrivateHitsArePrivate`,
`ForgottenStaysGone`, `WrittenStaysWhole`. Once a remember can add nothing more (`Settled`)
the three stores only lose what they hold of the memory; a forget works on settled memories
only, since it needs the ledger row, and so what it has deleted stays deleted
(`ForgetKnows`). A recall has asked for the sources of every row but those still to do
(`RecallKnows`), and sources of a memory never change.

**The journal** (`JournalProofs`). `ChainNeverForks` (`LiveVerifies`),
`AcknowledgedEventsStay` (`NothingLost`), `ExportsAreWhole` (`ExportsVerify`). The
invariant says that whoever has read the last hash holds the lock (`LockHeld`), that
hash is still the last one (`PrevFresh`), sequence numbers in hand are above all rows
(`SeqBounds`), a table has a last row and no two rows one number (`Ordered`), an export
has everything up to where it has read (`Covered`), and the archive ends where the table
starts, or inside it (`ArchiveHead`, `EmptyStart`). Without `SeqBounds`, a row
committed behind an export could be pruned without having been archived: the advisory
lock, taken before the number is drawn, is what excludes it.

**The proxy** (`McpProxyProofs`). `SentCallsAuthorized` (`RanWasAuthorized`),
`NothingSentAfterRevoke` (`RevokedReachesNothing`), `AnswersInJournal`
(`AnswersMatchJournal`). The approvals are those of `ApprovalContract`; the invariant adds
that a call that asked goes no further itself (`AskersWait`), that a redemption that goes on
has used up an approval of the same call and is alone in that (`CallKnows`, `OneHolder`), and
that what was sent is what the call was allowed for (`RanIsSent`). The redeemer's scope is not the
asker's: that the resource is in both is known from the two verifications, not from the
comparison of the chains. A refusal is journaled exactly when the name can be a resource, and a
listing exactly when something was offered; both are part of what is known of a call. That a name is sent where
it was gated, and that a listed name leads back to the tool it was listed for unless the upstream's name
ends in an underscore, are lemmas about names of any length over any set of characters with an
underscore: `Partition` splits at the first separator, and the name of an upstream holds none.

**Identity and the limiter** (`ServerProofs`). `WithdrawnKeysExpire`, `RotationsArePickedUp`
and `ServedAreHolders` follow from `ProviderInv`: every key set, cached or under way, is dated
no later than the withdrawal of its key plus the time it may have been under way (`Dated`),
and a reply that lands is no older than the token it was fetched for. `LimiterInv` is a
balance: what a key has drawn and what it may still draw (`Balance`, a full bucket if it has
none) is at most a full bucket and what has flowed in. Dropping a full bucket keeps the
balance, dropping another one puts its key in `lost`. `BudgetIsKept` (`WithinBudget`) follows,
and `ExhaustedAreSpared` (`SparesExhausted`), whose second half needs a cap of three: a new
bearer may cause two evictions in one request, and with a cap of two the second could drop
the one old bucket that the first had kept.

**The start** (`ServerProofs`). `ReplicasMigrateInStep` (`SchemaInStep`). That no migration
is applied twice is not inductive: a plan is a number read from the ledger some steps before
it is used. The invariant adds that a replica between taking and giving back the lock is its
only holder (`HoldsLock`) and that a plan is current for as long as it is carried out
(`PlanIsCurrent`), which holds because only the holder writes the ledger and a death takes
plan and lock away together. The proof rests on PostgreSQL giving a session's lock back
only when the session ends. `ReadyIsSeen` (`ReadyWasSeen`): a check that has passed a
dependency has seen it good since the last answer (`ProbeKnows`).

**The read filter** (`ReadProofs`). `KeptAreAllowed` (`KeptWasAllowed`), `BothStrategiesAgree`
(`StrategiesAgree`) and `AnswersAreKept` (`AnsweredAreKept`), for any documents, any list
of items with duplicates, any batch limit and threshold. `FilterInv` says what is known of the
documents at each step: what is allowed was viewable, in scope and not refused
(`AllowedHolds`), and what is viewable all along and answered for is allowed or still to be
asked about (`NothingLost`), so that no boundary between batches, no failure of another batch
and neither strategy can drop it. A document of a batch is related or missing in whatever order
the replies come (`RelatedOrMissing`). Where nothing was disturbed, `always` and `viewable` are
the rights themselves, and the two sides of `StrategiesAgree` meet. `Sorted`
and `Selected` are defined by what they return, so two lemmas show that what they choose
exists: a finite set of numbers can be sorted (`CanBeSorted`, by the least size of one that
cannot), and the selection keeps the order and every item chosen (`SelectedInOrder`,
`ChosenAreSelected`).

**The connectors** (`ReadProofs`). `SnapshotsAreFaithful` (`SnapshotFaithful`), for all four
kinds of source, any worlds they may be in, paths and groups of any depth, pages of any size,
and a source that changes any number of times during the read. Half of it is about what tuples
mean: `NextcloudSound` and `NextcloudComplete` show that a share gives no more than it covers
and, but for deeper folders, no less; `FilesExact` that the tuples of a manifest give exactly
what the manifest says, which rests on the loop of `_nearest_folder` stopping at the deepest
folder with an entry (`NearestIsDeepest`: the recursion is unfolded once `PopEnds` has shown, by
a least counterexample, that it ends). The other half is `ConnectorsInv`: what a read has
collected was granted at some instant (`WasGiven`, `WereMembers`), a group that stays in place
has the path it was listed with (`InPlace`), and, while the source stays as it was, everything
up to the position of the next page is read (`GroupsSoFar`, `ChildrenSoFar`, `MembersSoFar`).
`PageIsNext` is the lemma about pages: one after the other leaves nothing out, and a page that
is empty, or not full, is the last.

**Assumptions.** The `ASSUME`s say what the constants are (numbers, finite choices, sets that
do not overlap), and four say more. `WorldsAssumption`: at every instant a source is
consistent; a path is one file or folder and the folders it is in are there, every record is
listed, every group has a list of members, the folders of a manifest are below its root. `ProxyAssumption`: the names of upstreams pass the
code's own test. `LimiterAssumption`: at least three buckets (the code has ten thousand).
`IssuerAssumption` is what the identity provider is trusted with: a client's token carries the
marker and names that client or nobody, or is its service account's; a human's token carries
no marker and bears no user name of the service account of the client the human logs in
through. TLC evaluates all of them on the instances of the runs.

**Only model-checked.** All liveness properties (`OverdueCloses`, `MandateCloses`,
`Converges`, `EveryRecordEnds`), since the prover reaches neither fairness nor `ENABLED`.
That `Flatten` reaches the subgroups of subgroups is the community modules' definition of a
closure, which the runs exercise: the proofs use only that it yields groups that are there.

## 6. Where the documents and the code disagree

1. `gate_rejection`. ADR 0017 says of `transition` that "resolutions, expiries and
   consumptions all go through it" and "A rejection is never overwritten". One expiry
   (`actions/approvals.py:368`) is `store.update`: two resolvers around the expiry
   suffice to turn REJECTED, or APPROVED, into EXPIRED and to clear who resolved it.
   The proofs above show that it goes no further than that.
2. `tokens_expiry`. `MandateService.issue` promises "never wider, never longer". The
   time left is computed before the token is signed with a later reading of the clock,
   and a time left of exactly zero is falsy and becomes the default TTL. Verification
   does not ask the mandate for its date, so the token stays good after it.
3. `sync_orphans`. `reconcile` says it brings "OpenFGA in line with the connector's
   snapshot". It diffs against the snapshot of the last completed run: what a run wrote
   before it stopped is in no saved snapshot, and if the source drops it before the
   next run, that run completes, the connector reads as fresh and the tuple stays.
4. `memory_merged`. ADR 0007 says a memory without sources "is readable by
   `written_for` only". The rule is applied to the union of the sources of all the
   memories behind one hit, so one memory with a source lifts it for the others.
   `PrivateHitsStayPrivate` says what does hold: a hit made of memories without sources
   only.
5. `proxy_names`. The comment at `integrations/mcp.py:46` and ADR 0030 promise a split that
   is unambiguous whatever the upstream tool is called. The name of an upstream may end in an
   underscore: tool `x` of `a_` is exposed as `a___x`, and the first separator in it is the
   one after `a`. It is gated as `tool:a/_x` and sent to `a`. `AnswersMatchJournal` claims the
   way back for the other names, and its theorem proves it for all of those.

## 7. Limits, and what is not modelled

* A redeem may consume a request a moment after its expiry: check and claim are two
  steps. No property says otherwise.
* A resolution is stored before it is journaled, and `remember` writes its row before it
  journals: a death in between leaves an effect without an event. `AnswersAreJournaled`
  speaks of what callers were told.
* A prune of the whole table makes the next row start at GENESIS, and verification from
  the archived head then fails. `LiveVerifies` and `ExportsVerify` exclude it
  (`emptied`); the row itself cannot tell.
* One reconcile run at a time, as the chart's CronJob has it. OpenFGA's own cap on the
  results of ListObjects is not modelled.
* A tool name that cannot be a resource is refused before the token is looked at, and that
  refusal is not journaled (`integrations/session.py:104`); nor is a listing to which the
  upstreams offer nothing (`integrations/catalog.py:42`). `AnswersMatchJournal` says exactly
  this.
* Of a failed read filter call the caller gets nothing, whatever was decided; of one that
  returns, `AnsweredAreKept` counts the documents of a failed batch, and every candidate when
  ListObjects fails, as not answered for.
* A forget needs the ledger row, which goes before the provenance tuples: one that stops
  between the two has removed the content and cannot be repeated, and leaves tuples of a memory
  that nothing else knows. No property says that it can be repeated.
* An eviction that finds no full bucket drops the fuller half of the table, which may hold
  buckets in use; the client starts afresh. `docs/threat-model.md` (T18) says that eviction
  never clears established buckets; `SparesExhausted` states what the code does, and
  `WithinBudget` excludes the keys it happened to (`lost`). Rounding of floating point
  levels is left out.
* Verification takes the HTTP client's timeout as a bound on the age of a reply. What
  `service-account-<azp>` rests on, that no human has the user name of the service account
  of the client they log in through, is not checked by the code; `IssuerAssumption` states it.
* An upstream may list a tool with an empty name. It is shown as `<server>__` and a call of it
  is refused as unroutable: `AnswersMatchJournal` asks that a listed name lead to its tool
  unless that tool has no name.
* A connector that reads files and shares in two requests can attach a grant to the wrong
  file if two files change places in between, and a group can be renamed in mid-read
  (`SnapshotFaithful` speaks of layouts that stayed: `moved`); the next sync puts it right.
  Two files with one stem share an id under the stem strategy, PipesHub users are known by
  the local part of their address, and groups below a fetched child are not asked for
  (`identity/groups.py:105`): these are the code's stated or visible limits and part of the
  model (`LeftOut`, `Names`).
* Signing keys, notification transports, telemetry, settings, wiring, argument parsing and
  printing have no state the properties above depend on. The `hoc_*` tools of the MCP server,
  the framework adapters, `delegate` and the routes that only translate a request lead to
  calls modelled elsewhere; `exchange` is one form POST; the connection pool is psycopg's.
  The answers 401 and 429 leave no state behind. Datalog evaluation and signatures are
  external and modelled by how they are used.

## 8. Plan

Done, in this order: gate and decider, tokens with scopes, reconciliation, memory, read
filter, journal; proxy with session, guard and tool names, rate limiter, identity, start and
readiness, connectors. Proofs of all safety properties of the gate with its refinement,
tokens, reconciliation, memory, journal, proxy, identity, limiter, start, read filter and
connectors.

Next:

1. Two reconcile runs at once, which needs a second `run` in `ConnectorSync`.
2. OpenFGA's own cap on the results of ListObjects in `ReadFilter`.
