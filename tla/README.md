# A formal model of fastapi-viewsets

TLA+ modules, TLC runs and TLAPS proofs about this repository: DRF-style viewsets for FastAPI, with an
idempotency middleware, topic-based events, Celery-backed viewsets, a muxws transport and a TypeScript
client. Every definition is translated from the source; `PROJECT.json` maps each of them to the lines it
stands for, lists the hazards of the code with the properties that cover them, and names the runs, the
mutants and the theorems.

Twelve runs check forty-four properties, four of them statements of the documentation that the code does not keep,
and eight proof modules prove nearly all that the others say of safety, for every value of the constants.

1. [The system](#the-system): components, state, interactions, what makes them hard
2. [The models](#the-models): one section per component, its correspondence with the code and its limits
3. [The runs](#the-runs): what each shows, its bounds, the fairness it assumes
4. [The proofs](#the-proofs): what is proved, from what, and along which argument
5. [Where code and documentation disagree](#where-code-and-documentation-disagree)
6. [What is not modelled](#what-is-not-modelled) and the [plan](#the-plan)

To check a run: `tlc -config Idempotency.cfg MCIdempotency.tla`. To check the proofs:
`tlapm Idempotency_proofs.tla`. The run `server` takes about two and a half minutes; the others take less.
`EventSync_proofs` and `Requests_proofs` take ten minutes each from nothing, the other proof modules less.

## The system

An application declares viewsets; the library turns them into HTTP routes and muxws commands, runs each
call through a chain of middlewares, executes it in the web process or in a Celery worker, and publishes
events that a TypeScript client follows. Paths below are relative to `src/fastapi_viewsets` and `src/vue`.

| component | state | operations | correct when |
|---|---|---|---|
| Idempotency (`middleware/idempotency.py`) | a record, a mark and a channel per key in Redis; the runs of each process | claim, attach, wait, finish, release, renew | one run per key, one outcome, every repeat answered with it and none left waiting |
| Event store (`events/store.py`, `redis.py`) | a counter and a log per topic | append, since, revs, drop | an answer skips no event; revs grow |
| Event delivery (`events/delivery.py`) | `_by_topic`, `_by_peer`, reauthorizations, close handlers | subscribe, unsubscribe, deliver, reauthorize, drop | an event reaches a peer's current subscription only, with its gate's consent; a closed peer leaves nothing |
| Events viewset (`events/viewset.py`) | none of its own | subscribe, unsubscribe, poll | what it answers can be trusted as a cursor |
| Event client (`vue/events/client.ts`, `poll.ts`) | per topic a rev, held pushes, calls in flight; one poll ladder | subscribe, refresh, poll, apply, resync | no event skipped silently, none applied twice, always caught up in the end |
| Celery calls (`decorators/celery_viewset/`) | pending futures, a reader task, a result list in Redis, the worker's executions | dispatch, read, resolve, push, report | every caller gets one outcome, the first one, and is not left waiting |
| Change events, record watching (`events/changes.py`, `vue/events/changes.ts`) | queued changes, fetches | publish after a write, apply or fetch | a watched list converges to the backend's; an event goes to the topic of the viewset that wrote it |
| Routing (`decorators/route_viewset.py`, `sub_viewsets.py`, `routing.py`) | the route table, made at import | route, mount, gate, serve a path on a transport | no action runs ahead of a check above it |
| Authorization (`middleware/auth/`, `events/authorizers.py`, `events/scopes.py`) | the gate run's verdict, kept per request | admit a call, admit a follower, resolve a scope | who follows a topic may list it; one user per request |
| Action pipeline (`decorators/lifecycle_runner.py`, `middleware/__init__.py`, `save_state/`) | saved state per lifecycle, the current call | load, run the chains, dispatch, save | saved once per call, also when it fails |
| muxws commands (`mux_ws/`) | streams, detached requests | run, detach | a cancelled stream does not stop the call |
| Context (`context/`) | lazy values | resolve once, share, copy for a worker | one answer for all awaiters and copies |
| Rate limiter (`middleware/rate_limiter.py`) | windows per key, in memory or in Redis | count, prune | no more than the limit per window, and no refusal before it |
| Lists and cursors (`cursor.py`, `list_query.py`, `mixins.py`, `filters/`) | none | filter, sort, page by offset and by cursor, look up | each page is exact; a walk misses no row |
| Backends (`collection_viewset.py`, `backends/django_orm.py`) | the records, row locks | create, update, destroy, in bulk | one moment per write, no reverted field, no deadlock |
| Worker process (`decorators/celery_viewset/server.py`) | event loops, reports, transitions | execute, interrupt, unwind, report, drain | an execution has its loop to itself; an interruption is told |
| Client calls (`vue/call.ts`, `muxws-proxy.ts`, `rest-proxy.ts`) | pending calls, attempts | run, repeat, wait for the peer | a repeat carries its key; a call ends once |
| Schemas, cookies, declarations, demo | fixed at import, or none | | |

How they interact:

- A call passes the middlewares of `middleware/` in order; the idempotency middleware may answer it from
  Redis, or from the run of a concurrent one. The client (`call.ts`) repeats an attempt under its key; a
  muxws command goes on detached when its stream is cancelled, so two requests of one key do overlap.
- A Celery-backed action is sent to a broker; its wrapper awaits a future that a reader task of the same
  process resolves from a Redis list the worker (and its supervisor) pushes to.
- A write publishes an event: `append` to the store, then a Redis channel, then `deliver` in every process,
  then a push to each subscribed peer. A client that missed a push sees it by `prev`, and polls.
- The event client talks to the viewset by muxws calls and pushes, or by HTTP polls; either may be answered
  late, in any order, or not at all.

What makes the system hard: everything runs in event loops, so each await is a point where another task, a
close of the socket or a cancellation gets in; Redis is reached by several commands that are not one
transaction; locks and logs expire; workers and processes die; and every message of the event protocol may
be lost or overtaken. The full list, each at its line, is `hazards` in `PROJECT.json`.

## The models

An action is what runs between two awaits: a command Redis executes, or the code that runs when its answer
is in. Names are the source's where TLA+ allows it. Formatting, logging, parsing of bodies and configuration
errors are left out everywhere.

### Idempotency: `Idempotency`

The middleware with `redis_client`: calls that carry one `Idempotency-Key` reach the middlewares of several
processes. Keys share nothing, so one key is the whole story.

| state | code |
|---|---|
| `record`, `mark` | the key and `<key>:attached` in Redis |
| `subs`, `msgs` | pubsub subscriptions to the key's channel and their unread message |
| `runs`, `attached`, `future` | `_runs`, `_Run.attached`, `_Run.future` |
| `pc`, `fin`, `waitsOn`, `asleep` | where a call stands, the arguments of `_finish`, the run it attached to, what it took its timeout from |
| `performed`, `lost`, `muted` | history: ended actions, records gone from Redis, completions never published |

`Claim`, `Lookup`, `Judge`, `Attach`, `WaitLocal`, `PttlLocal`, `AttachMark`, `Subscribe`, `Reread`,
`PttlRemote` and `Wake` are the waiting half of `__call__`; `StartRun`, `Complete`, `FinishScript`,
`Publish` and `Resolve` the running one. `FinishEffect` is the Lua script. Faults, each enabled per run:
`lapse` (a lock expires under a live call), `ttl` (an outcome expires), `crash` (a process dies), `abandon`
(a call is cancelled), `script` and `publish` (the command fails).

Abstracted: time is the order of events. A lock is renewed in thirds of its TTL, so it expires under a live
call only by `lapse`. The fingerprint is a model value; an outcome is named by the run that produced it, so
that an answer can be compared with the request it answers.

### The event store: `EventStore`

One topic of the store and the `poll` that reads it. Processes with clocks of their own `Append` (the Lua
script of `redis.py` takes the caller's time, bounded by MAX_REV); a poll reads the revs, the rev and the log
in three commands (`ReadRevs`, `ReadRev`, `ReadLog`), and anything may happen in between: appends that trim
the log, `Expire`, `Drop`. `Since` is LRANGE and the loop over it that collects entries up to the one whose
`prev` is the cursor. A `MemoryEventStore` answers the last two at once, which is one of the interleavings.
`shown` abstracts the delivery filters.

`CalmDrops` names an assumption the code makes silently: when a counter is lost, every clock is past its last
rev. Without it (a burst of events faster than milliseconds, then a lost counter, then an append; or a process
with a clock behind) revs do go back; `RevsGrow` and its proof hold under it.

### Delivery: `EventDelivery`

The subscription tables of one process with the `subscribe` and `unsubscribe` of the viewset that fill them.

| state | code |
|---|---|
| `byPeer`, `byTopic` | `_by_peer`, `_by_topic`; a Subscription object is the number it was made as, 0 is none |
| `installed`, `handler` | `_close_installed`, and the handlers `peer.on_close` really has |
| `task` | `_reauth_tasks`, from the question to the callback that forgets the task |
| `call` | a `subscribe` whose gate has answered |
| `push` | the tasks `deliver` makes, one per captured subscription |
| `aged` | the objects whose `authorized_at` is too old; objects are numbered in order, so this is one number |
| `sought` | history: the last subscribe of the socket |

A peer is what `id(peer)` tells apart, so `Reuse` is a new socket at the address of a collected one. A push
may end at any await (`EndPush`: a filter, the timeout), while the reauthorization it started goes on.

### The client against the server: `EventClient`, `EventSync`

`EventClient` holds the handlers of `client.ts` for one topic as operators from the client's record to its
next one, run to their first await. `EventSync` composes it with the viewset as the client sees it: one socket
at a time, calls answered in any order, pushes reordered or lost, a socket that closes and comes back, headers
that change the scope key, subscriptions the server drops. The server's log is trimmed to `LogSize`.

Abstracted, with the reason: a poll is answered in one step (`EventStore!NothingSkipped` is what justifies
it); a subscribe is two steps, recorded and then read; delays are left out, so a timer that is set may fire at
any time; the events of an answer are a set, taken in the order of their revs (`Walk`); one topic with one
subscription, whose handlers do not call the client back; the closing of the peer and the client's `onClose`
are one step; a late answer on a closed socket, and a second gap poll of an older subscription of the topic, are
dropped. The history fields `applied`, `base` and `uncovered` say which events the application was given, or
covered by reading its state.

### Celery calls: `CeleryCall`

Calls of a `celery_viewset` action over one prefix and one FastAPI process, with the prefork pool.

| state | code |
|---|---|
| `pc`, `answer`, `thread` | the wrapper's await, its future and what the caller got, the thread running `send_task` |
| `pending` | `_pending_futures` |
| `registered`, `task`, `cancelled`, `stops` | `_reader_tasks[queue_key]`, the reader tasks ever made, those being cancelled, those awaited by a stop |
| `popped`, `queue` | the payload in a reader's hands, the Redis list |
| `work`, `reported` | the execution in the worker, `_reported` of the child and of the supervisor |
| `first`, `dropped` | history: the first payload pushed, the calls with a payload lost |

`Cancel`, `GivesUp` and the supervisor's `Interrupt` are cuts; a failing Redis or broker, a stopped reader, an
expired list and a restart of the process are faults. Both are bounded and never assumed to happen. A restart
begins with an empty registry and a list of its own.

### Records and their watchers: `Records`, `RecordTable`

The write actions of a viewset on either backend, the event `ChangeEvents` publishes after each, and a frontend
that keeps a copy of the rows with `watch()`.

| state | code |
|---|---|
| `rows`, `lock` | the table, and the rows locked by `select_for_update` |
| `call` | a write call: its request, `records` read and merged so far (`got`), the keys of its event |
| `log` | the events published, in the order of the store |
| `watch` | `queue` and the step under way in `watchRecords`, the rows the application shows |
| `used`, `excused` | history: keys that have had a row; keys written without an event, or given to a second row after the first was deleted |

`BeginWrite`, `LockRow` (one row of `_update_locked`), `Save`, `FindRow`, `DeleteRow` (one row of
`perform_bulk_destroy`), `Create`, `WriteContainer` (the in-memory backend, whose writes do not suspend) and
`Publish` are the server; `OnEvent`, `TakeEvent`, `Retrieve`, `Complete` and `Unsubscribe` the client.
`RecordTable` is the abstract specification: a table on which each successful write takes effect at one moment
and an update changes what it states. `WritesAreAtomic` says that `Records` implements it, with `rows` as the
table.

Abstracted: how events travel from the log to the watcher is `EventSync`'s subject, so `OnEvent` takes them in
order; a resync reads all rows at once. `Create` is `create` and `bulk_create`: each record states its key or leaves it
open (`NewKeys`). The database refuses a key it has, with nothing written (`Clash`); the in-memory backend gives an open
key the container's greatest and one, so a deleted greatest key may go to a second row, which an event `created` does not
tell from the first. A stated key replaces the row that has it, as in a mapping; a list that is given a key twice, and
holds two items of it, is not modelled.

### Lists and cursors: `Lists`, `Cursor`

`Cursor` has the comparison and predicate of `cursor.py` and the SQL condition the Django backend compiles them
to, as operators. `Lists` is the list endpoint: `apply_filter`, `apply_sort` and `apply_pagination` push what
they can to SQL and leave the rest to memory, and a client walks the pages while `Edit` inserts, moves and
deletes rows. `site` is the viewset: its backend, where NULLs sort, which columns are nullable. `walk` is
history: what was read, which rows were touched, and the span of the ordering the pages have covered, from the row
`lo` to the row `hi` (`Open` where nothing bounds it). `ComesBefore` is the order a query asks for, stated without
the comparison and the conditions of the code, which are checked and proved against it; `Beyond` is the rows a page
from a cursor is of. The constants are the rows the table may hold (`TableRows`), the fields that are columns of the
model (`Concrete`: a sort or a filter by another is left to memory) and those that may be NULL (`Nullable`). A cursor
is what it decodes to; `Fingerprint` is the query it was made for. Values are JSON-native, as
docs/guide/list-pipeline.md asks.

### Routes and requests: `Routes`, `RouteTable`, `Requests`

`Routes` has the configuration of the middlewares, the transports of a route and what starlette makes of a path
(`PathMatches`). `RouteTable` places viewsets as `route_viewset` does. It recurses over mounts; here a place is the
viewset at the end of a chain of mounts (`Chains`), with the checks of every viewset along the chain, and the table
of an application is the sequence of its places in the order the recursion routes them (`Precedes`: what is mounted
under a viewset before its own routes). A class mounted under itself is refused (`Mountable`), so no chain is longer
than there are classes. `Served`, `RouteAt`, `Unserved` and `MatchViewset` are the router's choice among the places.
`Requests` runs calls over the table of any application that starts.

| state | code |
|---|---|
| `app` | the viewsets routed, and their table, made when the application starts (`Apps`) |
| `sessions` | the callers whose session is alive |
| `stored`, `shared` | the saved state of a class in Redis, the state of its singleton in each process |
| `calls` | a request, or the execution of a deferred action in a worker: where it stands, its context's user, its parents, the topic and scope key it carries |

`Arrive`, `PassGate`, `RunDepends`, `LoadState`, `EnterChain`, `Execute`, `HandOver` (to a worker),
`HandOn`, `Dispatch` (an action calls another), `Ask`, `AskGate` and `Follow` (a subscribe or a poll asks the gates of a listing),
`ResolveHome`, `Finish`, `SaveState` and `StreamEnds` are the steps between two awaits; `SessionEnds` may fall
between any two. The history fields `passed`, `checked`, `seen`, `published` and `alone` say which checks
admitted the call and what user they saw, what its action saw, and whether another call overlapped it.

Topics are asked for one after the other: one by `subscribe`, as many as the limit allows by `poll`. `Ask` finds the
topic's place, `AskGate` is the check of one viewset above it, each with the user it reads then, and `Follow` that of
the topic's own viewset and its scope. For a class with a scope `Decided` keeps the verdict for the request under
`VerdictKey` (class, action, route and path parameters, scopes.py:182-197), and a later topic of the same key is
answered by it, admitted or refused, without asking again.

A deferred call is two calls of the model: the one in the web process that passed the checks, and one in the worker
(`by` names the first, `relayed` says that it executes the same action). `Travels` is what the worker is given of the
user: what it was resolved to, or for the callers of Django (`DjangoCallers`) the session's key alone, to be read again
(context/auth/django.py:50-54, docs/guide/authentication.md:117-119). `OneUserPerRequest` compares the users across the
two: every user that the worker's call reads is one that the call it comes from has read, and so back to the checks; a
Django user read again after its session has ended is nobody, which is the exception it states. `Executed`, in
`ChecksBeforeAction`, counts what a worker executed for the request as executed.

### Context, rate limiter: `Contexts`, `RateLimiter`

`Contexts` is one lazy value of a context: the future tasks share (`EnsureFuture`), its cancellation, and the
copies `clone_for_command` and `serialize_context` make of it, for the three kinds of value there are: one that
travels once resolved, one of which only the recipe does, and a deferred one, which is awaited before it
travels. What resolving answers changes at any time. `RateLimiter` is both counters, with a clock: the dictionary
with its pruning, per process, and the script in Redis, where a key may have been written before.

### The worker's process: `Executor`

One process of any pool: event loops with their set-up (`EnsureStarted`, under `_started_lock`), the execution
on each (`runs`), interruptions by a time limit or a termination at any point (`CutInside`, `CutSuspended`,
`CutAgain`), `Unwind`, `Translate`, the payloads pushed, the transitions reported (`Signal`, `Report`, `Serve`)
and the drain at exit. `CeleryCall` has the same executions as the caller sees them.

The module `MCServer` runs these six components, which share no state, each on its own from all of its initial
states while the others rest.

## The runs

A run that must find a violation is one of the disagreements below. Deadlock is checked in the idempotency
runs, which stutter only when every call has ended. The others are quiescent in states the system really rests
in (all calls answered, nothing under way, the bounds reached), so their configurations do not check it; what
must go on is stated as liveness instead, and `NoLockCycle` says that locks never stop everybody.

| run | shows | bounds |
|---|---|---|
| `idempotency` | one owner, one outcome, nobody left behind, an awaited outcome is kept, what must not be shared is not | 3 calls, each GET or POST and one a GET, two at one process and one at another, every fault; up to symmetry |
| `idempotency_live` | every call ends | 3 GETs, two at one process; outcomes expire, processes die, publishes fail |
| `event_server` | the store: complete, current answers, revs that grow; delivery: close handlers, withdrawal of its own only, authorized pushes | 2 drifting clocks up to 4, log of 2, MAX_REV 6, one drop, one poller that polls again and again; one address, 2 topics, a scoped and a plain store topic, limit 1, 3 objects, 1 event |
| `event_sync` | no silent loss but the known one, one ladder, the held rev never goes back | unscoped, 2 events which the delivery filters may hide, log of 1, 1 fault, 2 moves of the application; starts with the socket open |
| `event_sync_scoped` | held pushes are awaited and the server pushes the held scope | 2 scope keys, 1 visible event in each, 3 moves, no fault; starts with the socket open or not |
| `event_sync_live` | the client catches up | 1 event, 1 fault, 2 moves |
| `celery` | one reader, the first payload wins, no silent end, every call is answered | 2 calls, 2 reader tasks, 1 cut and no fault; or 1 call, 2 faults, 2 cuts |
| `server` | the parts of a request: `PageIsExact`, `WalkMissesNothing`; `NoLockCycle`, `WritesAreAtomic`, `WatchConverges`, `NoCallbackAfterUnsubscribe`; `ChecksBeforeAction`, `OneUserPerRequest`, `AloneNothingIsLost`, `FollowersMayList`, `EventsGoHome`; `LimitIsKept`; `OneValue`; `LoopIsItsOwn`, `InterruptionIsSeen`, `ReportedOnce`, `DrainedBeforeExit` | below |
| `idempotency_mismatch`, `event_sync_first_poll`, `event_sync_ended`, `lists_handmade` | violations, see below | no fault at all; the lists with one edit |

Why the bounds are enough to meet the cases: three calls are an owner, a repeat attached to it, and a call
that takes the key over between the two; with two processes there are a local and a remote repeat at once, and a
third would only make one more of them remote. A log of
one or two entries is trimmed by every append, so each poll can fall out of it at each of its reads; a longer
log only delays that. A delivery limit of one with two topics meets the limit, and three objects are a
subscription, its renewal or replacement, and one more after that; one event is enough, because a push keeps
nothing beyond its object and its task, and two objects may be captured by it. A second peer shares nothing
with the first except its address, which `Reuse` covers. In `EventSync` two events
are what it takes for a gap, and a fault may be put at every step.

In `server`: three rows, pages of one, eight queries (ties, NULLs first and last, descending, filters for SQL, for
memory and by hand, each shape of list) and one edit, which is what a walk of an anchor, its neighbour and a
row beyond takes, either way. Three keys, two writers, updates that name two rows in opposite orders and set two
columns that break a rule together, a deletion of both, creations with open keys and with a stated one that may be taken, and one failure: two calls that lock,
overtake each other's publish, and a fetch between them. Five classes with mounts two deep, a gate whose
configuration varies by action, a mount published on one transport only, singleton and keyed state, two deferred
actions, one dispatching the other, an events viewset; a viewset routed both below a gate and on its own under a path
parameter; eight requests of three callers (one of them Django's) and of nobody, three topics, polls of two; two
requests, three calls, one trouble. Two limits, a
window of 2 over 4 ticks, 3 hits: a window that ends, one that follows, and a prune out of step with both. Two
tasks, one copy, one change of what is resolved. Every pool, two loops, two messages, two cuts, one report
remembered.

`PROJECT.json` has, for every property of a passing run, a mutated definition that a plausible bug would be (for four
properties that have two sides, two), under which the same run is violated: so the case each property is about does happen within the bounds.

Invariants that are proved for every value of the constants and add nothing a run would tell are not in the
configurations: the type invariants but one, `TablesAgree`, `LastSubscribeHolds`, `RegistryIsTheUnresolved`,
`MismatchNeedsALostRecord`, `MarkHasItsRecord`, `RemoteWaiterIsCounted`, `NoMissedWakeup`,
`OnlyTheOwnerEndsARecord`, `StoredRowsAreAcceptable`.

Fairness. `Idempotency`: each task of a live process goes on (an event loop runs its tasks, an action ends),
and Redis drops a key whose TTL is over; no fault is fair. `EventSync`: timers that are set fire, calls are
served and answered or fail, ladders poll; neither the arrival of a push nor the return of the socket is
assumed, which is why the ladder and the check poll are needed. `CeleryCall`: the wrapper, the sending thread,
the reader and the worker go on, and a lost child is reported by its supervisor; no timeout is assumed, because
`result_timeout` may be None. All of it is weak fairness: each of these steps, once possible, stays possible
until it is taken. The run `server` states no fairness and no liveness: what it checks of its parts is safety, and
that a watcher has caught up is stated of the states in which it has nothing left to do.

## The proofs

Eight modules prove safety for every value of the constants: any number of calls, processes, sockets, topics,
readers, keys, writers, copies, windows, viewsets, routes, loops and tasks, any log size, any bound. Each proof
of an invariant shows `Init => Inv` and `Inv /\ [Next]_vars => Inv'` for an inductive one, a lemma or a step per
action, and derives the properties from it.

| module | proves about |
|---|---|
| `Idempotency_proofs` | `Idempotency` |
| `EventServer_proofs` | `EventStore` and `EventDelivery` |
| `EventSync_proofs` | `EventClient` and `EventSync` |
| `CeleryCall_proofs` | `CeleryCall` |
| `Backend_proofs` | `Records` |
| `Lists_proofs` | `Cursor` and `Lists` |
| `Process_proofs` | `RateLimiter`, `Contexts` and `Executor` |
| `Requests_proofs` | `Routes`, `RouteTable` and `Requests` |

The only assumptions are those named in the modules (`IdempotencyAssumption` and so on): constants have their
types and the model values are not members of the sets they are told apart from. Some say more.
`RoutesAssumption` and `RequestsAssumption` have each mount and dispatch name a viewset there is, classes and
middlewares be finitely many, paths, routes and mounts be sequences, and a viewset's lifecycle be a `LifecycleType`
(lifecycle_runner.py:25): nothing is assumed of which mounts, routes or configurations there are. `ListsAssumption`
has finitely many primary keys, and queries with a limit: nothing is assumed of the rows, the orderings, the filters or
the size of a page. `CalmDrops` is about the store's clocks (a counter is lost only while every clock is past its rev),
and is a hypothesis of the store's theorems.

**Idempotency.** `TypeCorrect`, `MutualExclusion` (OneRunAtATime), `AtMostOnce` (ExactlyOnce),
`MismatchIsExplained`, `FuturesHaveATask` (NobodyWaitsInVain), `MarkIsExact` (MarkHasItsRecord,
RemoteWaiterIsCounted), `NoWakeupIsMissed`, `UnsharedIsNotAnswered` (NothingToShareIsNotShared), and the action
properties `OwnerEndsRecord` and `AwaitedIsKept`. The heart of the invariant is `Owned`: a call that was given the claim owns the record until Redis loses it.
Two owners of one record are then impossible, which gives exclusion and, with `performed`, at-most-once. The
rest keeps the roles of the calls apart: who holds the record or is waited for has claimed (`HolderClaimed`,
`WaitedForClaimed`); a call about to attach has read a record of its own fingerprint that is still there or
lost (`ReadItsOwn`); a local waiter is at home (`WaitsAtHome`); a future is resolved only at the end
(`PendingTillEnd`). An outcome that must not be shared (it sets a cookie, or ends a call that was cancelled or
never delivered) is in no record, in no future, and answers no call but its own.

**The store.** Under `CalmDrops`, `StoreTypeCorrect` (revs stay below MAX_REV), `NothingIsSkipped`, `RevsOnlyGrow`
and `AnswersAreCurrent`: an answer covers every event appended before its poll was sent, or the
counter was lost meanwhile. `NothingSkipped` speaks of one answer, but its reason is the log: `Chained` says that the log
holds the newest events without a hole between an entry and its `prev`, `Fresh` that whatever a counter
restarts from is past every rev issued, `PollsKnow` that what a poll has read so far was issued.

**Delivery.** `DeliveryTypeCorrect` with the subscription limit, `TablesAlwaysAgree`, `HeldIsAlwaysWatched`,
`LastSubscribeAlwaysHolds`, and the action properties `OnlyItsOwnIsWithdrawn` and `PushIsAlwaysAuthorized`.
Every action does one of three things to the tables, and there is a lemma for each (`TablesStay`,
`TablesShrink`, `TablesGrow`), over `RemoveEffect` and `PutEffect`, which say what `_remove` and the two
assignments of `subscribe` leave in both tables. `HeldIsItsOwn` (an object is held by the peer and topic it
was made for) is what makes removing an object by identity safe; `MarkedIsWatched` and `HeldIsMarked` are the
two halves of the close handler's story, which hold although `_close_installed` and `peer.on_close` are
changed at different places.

**The client and the server.** `SyncIsInvariant`, and from it `LadderIsNeverStranded` (OneLadder),
`PushesAreHeldForAnAnswer` (HeldPushesAreAwaited), `OnlyFirstPollsLose` (LossIsOfFirstPolls),
`ServerServesSubscribed` (SubscribedIsServed) and, for topics without scopes, `UnscopedRevNeverGoesBack`
(HeldRevGrows). The handlers call each other several deep, so the invariant is stated of a client record and a
log, as operators, and each handler has a lemma that it keeps the parts of it and says how far it moves the
record. The parts: `Queued` (the socket calls of the followed topic are the end of the queue, and its head is
what is in flight: why a topic that is taken for subscribed has nothing but its own calls waiting), `TopicTidy`,
`OneRung` and `Laddered` (who polls, or whose answer will see to it), `Settled`, `Covered`. The last carries
the loss of events: what the topic holds is covered by the log and what the application knows, as is the cursor of
each call in flight of this topic, and an answer on its way says of its cursor what the log says
(`AnswerSound`), which stays true while the log grows (`GoodGrows`); a push names as its `prev` a rev that no
visible event lies behind (`ChainedIn`). Covering is monotone in the application's knowledge, so answers may be
applied in any order. The folds over held pushes and over an answer's events are followed by an induction over
finite sets of their own (`SubsetInduction`, `FoldExists`, from the least number of a set of naturals).
`ServedInv` follows a subscribe from its record at the server to its answer.

**Requests.** `RequestsTypeCorrect`, `ActionsAreChecked` (ChecksBeforeAction), `FollowersPassTheChecks`
(FollowersMayList), `RequestsHaveOneUser` (OneUserPerRequest), `AloneIsSaved` (AloneNothingIsLost) and
`WritesPublishHome` (EventsGoHome), for any classes, mounts, routes and applications. The lemmas about the table carry
the first two: a place is its root and its chain (`PlaceSound`, `ChainSound`), the mounts of a viewset differ in their
segment and none is a parameter (`MountsApart`), so a path leads along one chain from a root (`LeadsAlong`) and the
place that serves a request is not above another of that chain that serves it as well (`NoneServesDeeper`). The checks a
call has passed then name the way along its own path (`PassedOnTheWay`). A topic found by `match_viewset` is that of a
place as well (`MatchFinds`), and `RoutedBasePath` undoes the composition of base and route. `RequestsInv` says of each call's record what its own step has
left in it (`Sound`: the user that was checked is the one the action sees; `Gated`: the gates passed and the gates to
come are those of the place that serves the call; `Homed`: its event names a place of its own viewset, or the caller's
key, and what it follows, keeps and is asking for was admitted at the place of its key: `AdmittedAt`, `UnderWay`), of a
dispatched call what its caller is (`ByInv`) and that the two share one user, or that of Django whose session is gone
(`LinkInv`, with `NobodyIsGone`: nobody is read only of a caller without a session, and a session does not come back),
and that a relayed one was admitted by the checks of the request it comes from (`Admitted`), of
two calls under way that neither is alone unless one is the relay of the other (`ApartInv`), and of a call
that is alone that its change is in the state it will save, and once saved in that of whoever has loaded
it since (`SavedInv`).

**Celery.** `TypeCorrect`, `RegistryIsExact`, `AtMostOneReader`, `FirstIsAnswered` and `EndIsNeverSilent`.
`FirstPayloadWins` is about a caller that has ended; the invariant follows the first payload there:
`FirstIsUnderWay` (on the list, or in the hands of a reader that is not cancelled), `FirstIsNext` (and nothing
of the same call comes before it), `AnswerIsTheFirst`. `EndIsTold` says that whatever ends an execution has
pushed, which with the former gives `OutcomeIsOnItsWay`.

**Records.** `RecordsTypeCorrect`, `RowsAreAcceptable`, `NoCircleOfLocks`, `WritesImplementTheTable` (the
refinement), `TheCopyConverges`, `NothingAfterUnsubscribe`. `RecordsInv` says of a transaction under way that it
holds the rows it has read, that these are the least keys of its call, and that each is, but for its own fields,
still what it read. No circle: take, of the calls that lock, the one whose next key is the greatest; whoever
holds that key has it behind it, so its own next key would be greater. The refinement: only `Save` changes
the rows of an update, and the rows it merges are the rows of that moment; every other step of the calls stutters.
`WatchInv` carries the convergence: every key in which the copy differs from the table is ahead of the watcher
(written by a call that has not published, in an event not yet taken, in the queue, or to be read by the fetch
under way) or excused.

**Lists and cursors.** `SegmentsAreTheComparison`, `SqlIsTheComparison`, `ListsTypeCorrect`, `PagesAreExact`
(PageIsExact) and `WalksMissNothing` (WalkMissesNothing), for any rows, keys, directions, NULLs and their placement,
filters, limits and edits. The argument has four layers.

- The order. `KeysAreAnOrder`: `ComesBefore` is asymmetric, leaves only rows equal in every key unordered, and is
  negatively transitive. With the primary key among the keys, which `CursorKeys` sees to, two rows of a table are never
  unordered (`KeysTellApart`).
- What the code compares by. The comparison of the in-memory sort, ORDER BY with its placement of NULLs, the in-memory
  predicate, the OR of segments and the row value are this order, forwards and backwards (`SortListIsTheOrder`,
  `OrderByIsTheOrder`, `MatchesIsBeyond`, `ReversedIsReversed`). No induction: the first key that differs is the least
  of a set of naturals (`FirstDifference`).
- What a page holds. The first rows of a sorted list come before the rest (`PageTaken`, `PagesAreSorted`); turned round,
  a page read backwards is in the order asked for; the extra row read says whether more lie there (`CursorPages`). A sort
  is here any arrangement of the rows that the comparison allows, so ties fall either way.
- What a walk has covered. A page covers its own span (`PageCoversItsSpan`), and a page from a row within the span of the
  walk joins it with nothing left between (`SpansJoin`, `WalkedOn`). Both directions are one lemma: a span read backwards
  is a span of the reversed keys (`WithinEitherWay`).

`WalkMissesNothing` is not inductive: the next page may be asked for from any anchor of the last. `AnchorsTyped` adds
that each of these is at a row which was read and lies in the span, and was made for the client's query (`Usable` has
its position a row of the site's, also when that row has since moved or gone); `CountTyped`, that a count still to be
used is that of the rows as they are, unless a row was written.

**Context.** `ContextsTypeCorrect`, `ContextsHaveOneValue`. `ContextsInv`
follows each copy (`Settled`, `Inherited`, `OneSource`: a copy of a deferred value carries what the request's own
resolved) and each task (`Attached`), and says of a cancelled future that one of its own tasks was cancelled
(`CancelledFor`).

**Rate limiter.** `RateTypeCorrect`, `LimitIsAlwaysKept`, and `OldWindowsAreForgotten` (what a process holds when it
has just counted is less than two windows old, `WindowsAreForgotten`). `RateInv` relates what is stored to the
history: the windows of a key do not overlap and count no request twice (`Apart`), every count below that of a
request is another request or was in Redis before (`Slot`), and what is stored is the last window, or nothing once
that is over (`Current`). An interval as long as a window then meets at most two windows, of at most `limit`
requests each, and the counts up to the limit are as many requests before a refused one. The history is a parameter
of these formulas, so that a step is a lemma about a sequence and the same sequence with one request more.

**The worker's process.** `ExecutorIsTyped`, `LoopsAreTheirOwn` (LoopIsItsOwn), `InterruptionsAreSeen`
(InterruptionIsSeen), `ReportsAreOnce` (ReportedOnce) and `ExitIsDrained` (DrainedBeforeExit). `ExecutorInv` has a
part per concern: what the record of a run says at each place (`Sound`), the set-ups of this process and the lock
(`SetUpInv`: the child's own set-ups precede its runs, also after a fork), what callers were told (`AnswersInv`: a task
reported as not run is never executed), that the reports remembered are the last transitions (`ReportsInv`), and that a
shutdown waits for what was submitted (`DrainInv`).

Model-checked only:

- all liveness (`EveryCallEnds`, `EventuallyCaughtUp`, `EveryCallIsAnswered`): fairness and ENABLED are out of the
  prover's reach;
- `ServerTypeOK` as it stands: it joins the types of the six components of the run `server`, and each is proved of its
  component (`ListsTypeCorrect`, `RecordsTypeCorrect`, `RequestsTypeCorrect`, `RateTypeCorrect`, `ContextsTypeCorrect`,
  `ExecutorIsTyped`);
- `HeldRevGrows` does not hold of a scoped topic (see below), so it is proved with the hypothesis `~Scoped`.

The induction theorems of the library take an operator as a parameter, which no installed prover can instantiate.
Where a proof needs induction over a finite set it goes through the well-foundedness of the naturals instead, as in
`EventSync_proofs`, `Backend_proofs`, `Lists_proofs` and `Requests_proofs`.

## Where code and documentation disagree

Four runs are expected to find a violation; `findings` in `PROJECT.json` quotes the lines.

- `idempotency_mismatch`. `_attach` takes the run `_runs` holds for the storage key without comparing it with
  the record that was read. When that run's record is already deleted and its publish still under way, another
  request may own the key; its repeat attaches to the old run and is answered with the outcome of a different
  request, where the guide promises a 422 or its own outcome. `MismatchNeedsALostRecord`, proved, says that
  this is the only way.
- `event_sync_first_poll`. A poll sent before the topic holds a rev is answered with a rev and no events. If
  the answer of `subscribe` comes first, the poll's rev raises the held one, and an event published between
  the two is never given to the application; its push is ignored as old. `LossIsOfFirstPolls` says that no
  other course of events loses one.
- `event_sync_ended`. A topic refreshed before its first answer and unsubscribed in its `ready` sends no
  `unsubscribe`: the server keeps the subscription until the socket closes.
- `lists_handmade`. With a filter model written by hand, the Django backend compiles the cursor's predicate
  alone and marks the filter as applied: every page after the first is unfiltered. `PageIsExact` excepts that case.

Further observations, not stated as runs:

- `run_with_state` (lifecycle_runner.py:149) brackets a deferred action in the web process too: when the worker
  has saved what its action changed, the web process saves the state it had loaded before. docs/guide/lifecycle.md:36-41
  has `save_state` persist the state once the handler has run. `DeferredStateIsKept` of `Requests` states it, and does not hold;
  `AloneNothingIsLost` is the part that does.
- `event_scope` (scopes.py:92): a subclass of a class that holds a name, which declares the same name itself, is
  not recorded as one that shares it, so what is mounted under it is refused the name that docs/api/events.md:120
  grants.
- A second signal of Celery while an interrupted coroutine unwinds is suppressed (server.py:232-246) and leaves
  the coroutine on the loop; `NothingRunsOn` excepts it.
- `subscribe` and `poll` answer rev 0 for a topic without a counter, so a client does hold a cursor 0. After a
  counter is lost, 0 matches the `prev` of the new chain's first entry, and the answer can leave out
  events of the old chain. `NothingSkipped` excepts that case.
- `events: null` answered under one scope is compared by rev with the rev held in another: in
  `event_sync_scoped` the held rev of one scope may go back, so `HeldRevGrows` is checked unscoped.
- `send_task` may raise over a message the broker has. The caller is then told that the action did not run
  (docs/guide/command-middleware.md), and it may run.
- On Python 3.10 and 3.11 `asyncio.wait_for` runs a push in a task of its own, so a push captured before a
  renewal can start after it and have its gate's refusal remove nothing.
- `RedisEventStore.start` (redis.py:171) checks `reader_running` and then awaits: two starts at once make two
  readers.
- A stop of the Celery result reader fails every pending call, those a new reader was just started for
  included.
- A mount published on fewer transports than its parent lets the parent's `{pk}` route serve the request on the
  others, with the parent's checks. `GatesPassed` has the exact condition: an action runs behind the checks above it,
  and none of the viewsets mounted further down its path would have served the request.
- `routed_base_path` (changes.py:63) takes off the path what the first path of the action has (`paths.setdefault`,
  route_viewset.py:454). An action with paths of several lengths publishes to a topic of no viewset when it is called
  by another one. `EventsGoHome` excepts such an action (`HasOnePath`).
- A bulk write that raises half way over rows already written (deletions of the Django backend, updates of the
  in-memory one) publishes no event for them; `WatchConverges` excepts their keys.
- `has_more` of a page read backwards says that the page had a cursor, and an empty page carries no cursors.

## What is not modelled

| component | why |
|---|---|
| Client calls and repeats (`vue/call.ts`, proxies) | timers and reconnects around one promise; what a repeat means for the server is `Idempotency`'s subject, and its composition with it is planned |
| Idempotency without Redis, the timing of the lock renewal; start and stop of the store's reader, several topics in one poll; delays of the ladder; handlers of the event client that call it back | parts of modelled components, planned or without a protocol of their own |
| Action code that swallows the interruption of its execution | what runs on is then the application's |
| The `topic` option of `ChangeEvents`; a scope class shared by inheritance; relations, routers and annotations of querysets; operators on text and dates; payload and state codecs; tokens; headers and status codes | data no property tells apart, or declarations |
| Pydantic schemas, OpenAPI, cookies, client declarations | fixed at import, or the text of an answer |
| Demo, scripts, documentation | not part of the library |
| Redis, the broker, Celery's pools, asyncio, the database, muxws, starlette, the browser | external: modelled by what the code sees of them |

## The plan

Done, in this order, most important behaviour first: `Idempotency`, `EventStore`, `EventDelivery`,
`EventClient` with `EventSync` (the composition of client and server), `CeleryCall`; then `Records` with the
abstract `RecordTable` and its refinement, `Lists` over `Cursor`, `Requests` over `Routes`, `Contexts`,
`RateLimiter`, `Executor`, and their composition in `MCServer`; the proofs of all of them.

Next:

1. `CallRepeat` over `Idempotency` and `CeleryCall`: `call.ts` runs an attempt, abandons it, repeats it under its
   key over a peer that closes and reconnects, while a muxws command goes on detached and `send_task` may raise
   over a message the broker has. The mode without Redis is to implement the same abstract `OncePerKey`.
2. `EventReplica`, the client as a monotone view of the log, which `EventSync` implements and `Records` rests on.
3. Start and stop of the store's reader and of the lifespan hooks; duplicated delivery.

To prove more: the scoped half of `HeldRevGrows` (the held rev of a scope goes back only by a null answer).
