# go-multi-warp: TLA+ verification project

go-multi-warp runs several Cloudflare WARP clients side by side, each a SOCKS5
proxy on a local port, and balances the connections of its own SOCKS5 and HTTP
proxies over them. This directory models the parts of it that decide
something: which backend a connection gets, when a backend is taken out and
let back in, who is admitted, what a handler owes when it returns, when a tunnel
ends, how the process starts and stops, and how the WARP instances behind it are
registered, restarted and recovered over crashes.
TLC checks the models on small instances, and TLAPS proves all but six of the
properties that hold, liveness properties among them, for every value of
the constants.

Paths below are relative to `src/`.

## 1. Inventory

| Component | State | Operations | Interacts with |
|---|---|---|---|
| Backend, `internal/pool/backend.go` | state, admission phase, failure count, two timestamps (under `inner.mu`); `inflight` (atomic) | IsSelectable (which also half-opens), TryAcquire, Release, MarkSuccess, MarkFailure, MarkProbeOK/Fail, ForceState, SetAdmit | everything below |
| Pool, `internal/pool/pool.go` | backends, `rr`, `sticky` | Select with three strategies, Admit, Park, SetWarming, HealthyCount | called by handlers, prober, control plane, admin |
| Dial loop, `internal/proxy/tunnel.go` | locals of the handler | DialViaSocks: three attempts | Pool, Backend |
| ConnLimiter, `internal/pool/pool.go` | global counter, map of per-IP states (counter, token bucket) | Acquire, Release | every handler of both servers |
| Tunnel, `internal/proxy/tunnel.go` | two sockets, four deadlines, the cap's timer | CopyBidirectional, idleConn Read/Write | handlers; its return releases the leases |
| SOCKS5 and HTTP servers, `internal/proxy/socks5.go`, `http_proxy.go` | listener, `activeConns` | Serve, drain, handle | limiter, dial loop, tunnel, main |
| Lifecycle, `main.go` | context, signal channel | start, listener failure, signal, exit | all servers |
| Health prober, `internal/health/health.go` | none of its own | probeAll every interval | Pool |
| Uniqueness engine, `internal/control/uniqueness.go` | first-admit flag, retry times, budgets, semaphore | tick, recheckInPool, tryReregister | Pool, WARP controller |
| Supervisor, `internal/control/supervisor.go` | none of its own | Bootstrap, tick: restart unhealthy backends | Pool, WARP controller |
| WARP controller, `internal/control/warpctl_linux.go` | processes, registration files | StartOne, Restart, Reregister | warp-svc, warp-cli |
| Admin API, `internal/admin/admin.go` | none | health and metrics reads, reconnect | Pool |
| Config, `internal/config/config.go` | none after start | Load, applyEnv, Validate | everyone |
| Auth, `internal/proxy/state.go` | none | Check | handlers |

What is hard here: handlers race on a lock-free counter and on snapshots of the
pool; a *query* (IsSelectable) changes state; prober, control plane and admin
change the same backends meanwhile; dials that began before a circuit opened
fail after it; the limiter counts first and undoes later; the two copiers of a
tunnel share deadlines; shutdown is a race of four kinds of goroutine. Nothing
in the data path is persisted; only the WARP controller has state that survives
a crash.

What makes each correct:

* Backend/Pool: leases conserved, capacity hard, an open circuit always able to
  close, no spurious `ErrNoHealthyBackend`, affinity honoured, Select finishes.
* Limiter: counters conserved, limits hard, rate bounded over every window,
  paced peers never refused.
* Tunnel: ends when its traffic does and at its cap; one direction's end does
  not end the other.
* Servers and lifecycle: every path of a handler gives back its leases and
  sockets and answers its client once; nobody unauthenticated reaches a backend;
  a successful drain is true; shutdown is bounded.
* Uniqueness: rechecks never empty the pool and take out only duplicates,
  budgets bound the re-registrations, no backend is left warming.
* Config: a setting comes from the strongest source that has a usable value.
* Supervisor, controller: a registration is not given up without a reason, and a
  lost one is tried for again; a backend whose link is back becomes healthy, one
  whose link is gone does not stay selectable.

`PROJECT.json` lists the hazards with their lines.

## 2. Modules

| Module | Models |
|---|---|
| `Backend` | operators on one backend's record, one per method of backend.go |
| `Pool` (extends Backend) | Select and its pickers, TryAcquire, DialViaSocks, the prober and the other callers; instantiates `Admission` |
| `SelectHistory` (extends Pool) | Pool with two recording variables, for promises about a whole Select |
| `Admission` | abstract: what an admission limiter promises |
| `ConnLimiter` | Acquire/Release; instantiates `Admission` |
| `RateHistory` (extends ConnLimiter) | the limiter with the log of its grants |
| `Tunnel` | CopyBidirectional and idleConn |
| `Lifecycle` | main, the Serve/drain loops, admin Serve |
| `Proxy` (extends Lifecycle) | the handlers of both servers, inside that process |
| `Uniqueness` | the uniqueness engine: tick, tryReregister, recheckInPool |
| `Config` | loading and validating the configuration, as operators |
| `WarpController` (extends Config) | StartOne, Restart, Reconnect, Reregister of one instance and its files, with a specification of its own |
| `Supervisor` (extends WarpController, Backend) | start, crash, bootstrap, reconnect loop, prober, traffic, pool reads and engine around that instance; implements `WarpController` |
| `MCPool`, `MCSelect`, `MCLimiter`, `MCProxy`, `MCRegistration`, `MCControl` | values of structured constants and symmetry for TLC |
| `PoolProofs`, `SelectProofs`, `ConnLimiterProofs`, `RateProofs`, `TunnelProofs`, `ProxyProofs`, `UniquenessProofs`, `SupervisorProofs` | theorems |

### Backend and Pool

A backend is the record `innerState`; each method that runs under `inner.mu` is
one operator from record to record. Time enters the code only as "has this
timeout elapsed", so `lastChange` and `openedAt` are `fresh` or `elapsed` (or
`nil`); `Elapse` turns one into the other. `fails` saturates at `FailCap`, which
is at least every threshold it is compared with.

`Pool` has one action per access to shared state. `IsSelectable` is a step (and
may half-open the backend); the load of `inflight`, the compare-and-swap, the
two separate reads in `pickLeastConn`, and the sticky map's load and store are
each steps of their own, because that is where handlers interleave. What a
handler computes from its locals is folded into the access before it. The
locals are the record `loc[c]`: `todo` is the list of candidates still to look
at, `via` says for which purpose (`entry`, `hash`, `rr`, `best`, `fallback`), and
`Miss` is what the code does when `TryAcquire` says no. `KeyOf` and `KeyHalf`
keep the 64-bit sticky key's two's-complement conversion (`ToInt`) and Go's
truncating remainder (`GoMod`). The variable `strategy` is chosen at the start from
`Strategies`, so one run covers all three.

`EnvOps` selects the pool's other callers: `probe` (health.go; the read of
`Fails()` and the `ForceState` after it are two steps), `admit` and `rereg` (what
the uniqueness engine does to the pool), `admin` (reconnect, and the health reads
that half-open backends). They are given no schedule: any of them may happen at
any time in a state in which the engine could issue it.

### ConnLimiter

Every atomic operation of Acquire and Release is an action. An `ipState` is
named by the handler that allocated it, so two handlers that race to create the
state of one IP have two objects to disagree about. The clock has a finite
resolution (`TicksPerSec`) and starts at an `Epoch` at least a second after 0,
because the code's first refill is computed from Unix time 0 and fills the
bucket. The clock is monotonic.

`Admission` has only the set of leases: a grant needs room under both limits.
Refusing is always allowed, because a handler that is about to undo its count
makes the real limiter refuse early. The pool promises the same of its slots: in
`Pool` the leases are `SlotOf`, a backend is what a peer is to the limiter, and its
limit is MaxInflight (`ImplementsSlots`).

### Tunnel

`a` is the client, `b` the upstream, direction `down` copies `a` to `b`. Deadlines
are ticks left; a tick passes only while both goroutines wait, and a deadline
that has passed is acted on before more bytes move. `heard` records how
long a side has been silent. Each direction has a read deadline of its own, so a
one-way transfer loses its silent direction after `idle`; what is checked is that the
busy one survives (`HalfCloseKeepsOther`). The variable `call` holds the
arguments of CopyBidirectional: those of the SOCKS5 or of the CONNECT handler,
whose connections are both TCP sockets.

### Lifecycle

The two servers' Serve and drain are the same code with different names and
share one set of actions, indexed by server. `Exit` ends every goroutine.

### Proxy

`Proxy` puts the handlers into that process: where `Lifecycle` lets a handler return
at any time, here it returns when its code does. There is one action per blocking
call of `handle`, `handleConnect` and `handlePlain`, and each may succeed, fail or
block for ever, since the code sets no deadline outside the tunnel. `defers` is
Go's stack of deferred calls, and its last entry is run first, so the order in
which the code defers matters. The limiter appears as its abstract specification
promises it (a lease below the limit, or a refusal at any time), the pool as the
number of slots that `ImplementsSlots` leaves of it, the three attempts of DialViaSocks as one, and the tunnel as a
call that returns. Messages are reduced to what the handler tells apart:
offered methods, right or wrong credentials, a good or bad host. The one string
that is kept is the target of a plain request, as a sequence of pieces, because
handlePlain rewrites it: `Escape` is what net/url does to a piece of a decoded path,
for the three kinds of pieces a target of the model has.
`said`, `cred`, `told`, `asked` and `sent` record what the client did and got.

### Uniqueness

The engine is one goroutine that visits the backends one by one; `pc`, `pass` and
`cur` say where it is, and nothing else changes a backend's admission. Health,
the answers of the egress probes, warp-cli and the clock surround it. Each of the
code's timers is one question: may backend i be retried (`gate`, for `nextRetry`
with its backoff), is the stagger gap over (`staggered`), is a recheck due
(`recent`). A tick reads the clock once, so no gate opens while one is under way.
The timers are independent of each other, which allows more schedules than the
code has. An address may change at any probe. ForceState and SetWarming after a
registration are two steps. The semaphore `regSem` is never contended, since its
only user holds `e.mu`, and has no variable. Effort, managed mode and strictness
are chosen at the start (`cfg`), so one run covers every setting. `regs` counts the
registrations per backend, which the code counts in total (ReregAttempts). A
member that a recheck re-registered may, in strict mode, end up parked, since its
attempts are never reset; what is checked is `NeverDropsWholePool`.

In `Pool` the same engine appears only through its calls (`Admit`, `Park`,
`SetWarming`, the reset), at any time, next to the data path; `Uniqueness` says when
it makes them.

### Config, WarpController and Supervisor

`Config` is Load as operators: the table `Rows` lists the overrides of applyEnv in the
order of the code, each with its field and with the kind that says which values
are accepted and how they are parsed; `applyEnv` is a recursive function over it,
one `Override` per row. `Decodes` is what of yaml.Unmarshal's errors matters here.

`WarpController` has one instance and the three goroutines that call it with no lock
between them: bootstrap, supervisor and engine, each at a point `pc[a]` of its call.
A spawn, a warp-cli call and each system call on a file is a step of its own
(warp-cli calls that come one after the other with nothing but errors between
them are one), and may fail or hang. `reg` and `applied` are the two files that
survive a crash. Writing the key file is two steps, as `os.WriteFile` is: the open
that empties it (`Emptied`) and the write; a write that fails or is cut off by a crash
leaves it `Torn`. Reading it, removing reg.json and `registration delete` are steps as
well, so that a caller acts on what it has read (`prev`) while others write. In
`ControllerSpec` the callers call whenever they are not in a call; `assigned` records
the keys a controller was ever given.

`Supervisor` is the process around it. `Start` picks the flag, environment and files
that Load finds, `Boot` or `Refuse` is what main does with them, and `Crash` ends the
process between any two steps of anyone, possibly leaving an orphaned warp-svc.
The reconnect loop, the prober, the proxied dials, the engine's calls and the
admin API share the backend's record, with the operators of `Backend`. One
instance is enough: the loops over instances share nothing but time, and the
model allows any delay between a snapshot and the call made on it.

IsSelectable is a step with its side effect, whoever asks: a read of the pool or a
Select that takes another backend (`Query`), and the Select that takes this one
(`Select`), which alone lets a dial begin. The pace of probes, reads and timeouts is
left open. The interval, FailTimeout and OpenAfter are settings, and a round of
probes waits for the slowest backend: with the defaults (5 s between rounds, up
to 8 s for a probe, OpenAfter 10 s) a circuit may or may not be stamped again
before it can half-open.

## 3. Runs

Deadlock checking is on in every run.

| Run | Instance | Properties |
|---|---|---|
| `select` | 2 handlers, 2 backends of 1 slot, one shared key, every strategy, 1 attempt, MaxFails 1 | `NoSpuriousFailure`, `StickyHonoured`, `ImplementsSlots` |
| `breaker` | 2 handlers, 1 backend, 2 attempts, all other callers, fair | `TypeOK`, `InflightConserved`, `CapacityRespected`, `CircuitHasClock`, `CircuitHalfOpens`, `SelectLockFree` |
| `sticky_panic` | 1 handler with a key whose top bit is set | `NoIndexPanic` (violated) |
| `limiter` | 3 handlers, 1 peer and keyless ones, limits 2 and 1, 2 per second, 5 ticks per second, 8 ticks | `TypeOK`, `GlobalConserved`, `PerIPConserved`, `LimitsRespected`, `RateWindow`, `ImplementsAdmission`, `PacedPeerPasses` |
| `proxy` | a SOCKS5 and an HTTP connection, 1 slot, authentication on or off, fair | `PTypeOK`, `DrainReleasesAll`, `LeaseCoversSocket`, `AuthBeforeDial`, `OneAnswer`, `ServersReturn`, `StuckOnlyOnPeers` |
| `plain_target` | 1 HTTP connection, three targets | `TargetPreserved` (violated) |
| `shutdown_drain` | the two servers, without authentication | `DrainNotAbandoned` (violated) |
| `tunnel` | a SOCKS5 tunnel, idle of 2 ticks, or a stream, idle extended to 5, cap of 2; fair | `TypeOK`, `HalfCloseKeepsOther`, `TunnelEnds`, `CapEndsStream` |
| `uniqueness` | 2 backends, 2 addresses, 1 attempt, 1 recheck each, every setting, fair | `TypeOK`, `NeverDropsWholePool`, `BudgetsHold`, `OnlyDuplicatesLeave`, `Settles` |
| `registration` | three callers, two keys, none, forced, an organization, no controller; any number of crashes | `ControllerTypeOK`, `RegistrationKept` |
| `key_file_race` | three callers, one key | `DropsOnlyOnChange` (violated) |
| `control` | instance 1 of 2, MaxFails 2, thresholds 2 and 3, 78 ways to start, any number of crashes, fair | `TypeOK`, `LoadPrecedence`, `RegistrationRetried`, `Recovers`, `Quarantined` |

Why these sizes: capacity, conservation and affinity are broken by two handlers
on one slot; a spurious failure needs a second backend, so that the free one and
the tried one differ. The sticky strategy falls through the entry, the hash,
least-conn and its fallback. In `breaker`, `FailCap` is the prober's threshold of 3,
above MaxFails 2, so both comparisons with `fails` are exercised on either side; two
attempts per dial exercise both the retry and the last failure, and the theorems
cover any number. Three handlers are what it takes for one to be refused while
two count; a resolution of 5 ticks with 2 tokens per second makes the refill
truncate (1 token per 2.5 ticks). In `proxy`, two connections for one backend slot
make one wait for, or fail on, what the other holds, and there is one of each
protocol, so every path of the handlers is taken next to every other. An idle of
two ticks lets one direction go silent while the other is renewed in between. Two
backends and two addresses are enough for every verdict of the engine: unique,
duplicate, collision after admission; a budget of one is spent, and then exceeded
by the next duplicate. `NeverDropsWholePool` is at its tightest with two members.

`registration` has all three callers, each in any of its calls, and two keys, so that
a key can change, change back and be read between the two steps of a write;
`RegistrationKept` is about the caller that acts and what that one read, so more
keys or starts add nothing. In `control`, the starts combine six deployments
(managed plain, forced, with an organization, with a list of backends that names
an instance which is not started; attached plain, and with keys given through
both aliases) with thirteen stray settings that are redundant, unusable or make
Load refuse, and three starts with the file elsewhere or malformed. Managed
instances have no keys there: what a key does is `registration`'s question.
Failures saturate at 3, the highest threshold.

Handlers that share a key or a peer are interchangeable, so `select` and `limiter` use
symmetry; runs with liveness properties do not (`PacedPeerPasses` and the two
refinements are about steps).

### What the violated properties show

* **`NoIndexPanic`** (`internal/pool/pool.go:237`). `int(key) % len(healthy)` is
  negative for keys with the top bit set (unless the length divides the key),
  and the slice index panics. No handler recovers, so the process ends.
* **`DrainNotAbandoned`** (`main.go:122`). main returns 500 ms after `cancel()`,
  whatever the drain loops are doing, although a drain timeout of 30 s is
  documented.
* **`TargetPreserved`** (`internal/proxy/http_proxy.go:160`). handlePlain stores the text
  of path and query as the decoded path, and writing the request escapes it once
  more: a "?" goes out as "%3F", an escape's "%" as "%25". A plain request with a
  query asks the upstream for another resource.
* **`DropsOnlyOnChange`** (`internal/control/warpctl_linux.go:129`). Between the open and
  the write of `os.WriteFile` the key file is empty. A Restart by the supervisor that
  reads it then, while the bootstrap is still in its call, takes the license for
  changed and removes a good reg.json, although configureProxyMode says it drops
  one "if forced or if assigned license changed". One key, no crash and no failed
  write are needed. What does hold is `RegistrationKept`: there is no other way to
  lose a registration than the reasons it names, this one among them.

## 4. Fairness

* Pool: a goroutine inside Select runs; releasing, storing the sticky entry and
  replying happen; a TCP connect ends within `DialTimeout`; a clock that is not
  restarted again and again (`Restarts`) runs out. The
  handshake after the connect has *no* fairness, because `connectSOCKS5` sets no
  deadline on it; neither have peers, probes or operators. `CircuitHalfOpens`
  excepts a prober that fails for ever: it restarts the clock of an open circuit
  at each round, and the circuit may then never half-open.
* Lifecycle: goroutines run and timers fire. Strong fairness for the drain's
  timeout branch, its enabling condition `Expired` written out: Go's `select` chooses at random among ready channels, so a
  deadline that is ready again and again is taken. Handlers may hang for ever.
* Proxy: in addition, a handler that waits for nobody runs, and a TCP connect ends
  within `DialTimeout`. Reads, writes, the handshake, the tunnel and the closing of a
  response body that is still being sent owe nothing: `StuckOnlyOnPeers` says these
  are the only places where a handler can stay.
* WarpController: none; its properties are about single steps.
* Supervisor: the prober's and the supervisor's tickers fire and a prober's
  goroutine runs. One goroutine supervises all instances: that it comes round
  supposes that its calls for the *other* instances return. warp-cli, warp-svc, the
  network, the engine, the traffic, reads of the pool and the two timeouts owe
  nothing. `RegistrationRetried` excepts a warp-cli that hangs in a call of the
  supervisor for this instance, a warp-svc that cannot be spawned, a process that
  keeps crashing, and a circuit that half-opens again and again. The last exception
  is needed: the half-open (`backend.go:165`) zeroes `fails`, which the supervisor also
  counts towards its hard restart, so when failed dials open the circuit, OpenAfter
  runs out before the next probe, and a health or metrics read comes in between,
  the count starts anew and HardRestartFails need never be reached. `Recovers` and `Quarantined` are about a link that stays as it is.
* Weak fairness of a step A is "again and again A is not enabled, or A is taken".
  Lifecycle, Proxy and Supervisor write that out, with the enabling condition as a
  state predicate (`ProbeDue` for the prober), since the prover has no ENABLED; where
  a step always leaves the states it is enabled in, `[]<>~(enabled)` says the same.
* Tunnel: goroutines and timers run; `TimePasses` says that time goes on for as
  long as the tunnel does. The far ends owe nothing.
* Uniqueness: `EngineRuns` says the goroutine, its tickers and its probes (which
  have timeouts) go on, except inside Reregister, because warp-cli is run
  without a timeout; `BackoffEnds` says a backoff passes unless a tick never ends.
  Both are written on the state, as weak fairness of the engine's steps and
  strong fairness of the gates would say. `Settles` excepts a cancelled engine, a
  hung warp-cli and a backend that keeps going down or failing its probes.

## 5. Proofs

`ConnLimiterProofs` proves, for any finite set of handlers, any peers and any
limits (`LimiterAssumption`):

* `LimiterInvariant`: `LimiterInv` is invariant. The counters' equations are not
  inductive alone: a decrement must hit the counter that was incremented, so
  `RefInv` says a counting handler's `ipState` is the one in the map, `UnusedInv`
  that an `ipState` that lost the race to be stored was never counted on. The
  limits need `RoomInv`: the handlers that have *passed* a check, rather than
  those that hold a lease, are at most the limit, because the value each one
  checked already counted all of them.
* `LimiterTypes`, `LimiterConserves` and `LimiterConservesPerIP` (the two counters),
  `LimiterLimits` follow from it, and
  `LimiterRefines` shows that each step is a grant, a return or a stutter of
  `Admission`.

`PoolProofs` proves, for any number of backends and handlers, any strategy,
limits, keys and other callers (`BackendAssumption`, `PoolAssumption`):

* `PoolInvariant`: `PoolInv` is invariant. What makes it inductive is `LocalsInv`:
  candidate lists are not empty while they are looked at, a lease in the making
  names its backend, and the value about to be swapped in is below MaxInflight;
  a compare-and-swap that succeeds then keeps the cap although the check is
  older than the swap. `CircuitHasClock` needs its second half (an open circuit's
  failures are at least MaxFails): otherwise a further failure could leave the
  circuit open without stamping it. The proof sorts actions by what they do to
  the leases (`MoveStep`, `AcquireStep`, `ReleaseStep`, `OtherStep`) and to the
  backends (`BackendOps`).
* `PoolTypes`, `LeasesConserved`, `CapacityIsHard`, `CircuitClock` follow from it.
* `PoolRefines` (`ImplementsSlots`) is a refinement. A step moves at most one handler,
  and that one does not hold a lease before it, or not after it, or keeps its
  backend (`LeaseMoves`); a grant finds room because the capacity still holds after
  it. That all leases together stay below the sum of the slots is an induction
  over the backends: the first k of them have at most k times MaxInflight
  (`SlotsInAll`).

`UniquenessProofs` proves, for any number of backends, any addresses, budgets and
settings (`UniquenessAssumption`):

* `EngineInvariant`: `EngineInv` is invariant. That the pool is never emptied is
  not inductive alone: what is needed is that every collider of a recheck has an
  owner of its address that is another member of the pool (`OwnersInv`), that only
  colliders are re-registered by a recheck and only warming backends by a tick
  (`PlaceInv`). The owners stay valid during the pass because it visits backends
  in ID order: the tag it refreshes belongs to neither an owner nor a collider so
  far. `BudgetInv` charges each registration to an attempt or to the recheck budget,
  the one under way included, and bounds the attempts of a warming backend more
  tightly than those of an admitted one, since a recheck is what turns one into
  the other.
* `EngineTypes`, `PoolNeverEmptied`, `BudgetsAreHard` follow from it; `DuplicatesOnly`
  is an action property, proved from it step by step.

`SelectProofs` proves, under the assumptions of `PoolProofs`, what a selection may
do while other handlers take and return slots:

* `SelectInvariant`: `SelectInv` is `PoolInv` and, for each handler, two facts about
  where its walk has got to. `Prospect`: a backend that stayed acquirable since
  the call began is in the snapshot Healthy() took, or is still to be looked at.
  A walk that may end in an error (round-robin, and the fallback behind every
  picker) has it ahead; the other walks scan again before they give up.
  `Loyal`: while the sticky entry's backend is acquirable, the handler is trying
  that backend or has it.
* `FailuresAreReal` (`NoSpuriousFailure`) is the first fact at the end of the walk,
  `AffinityKept` (`StickyHonoured`) the second.

`RateProofs` proves, for any rate, any peers and any length of run
(`LimiterAssumption`):

* `RateBounded` (`RateWindow`): a bound on the grants of each window is not
  inductive, because the next grant depends on the tokens left. `RateInv` says
  more: were the tokens left in the bucket all granted together with the last
  grant (`WindowLeft`), every window would still keep its bound. A bucket without grants
  is as it was allocated (`Fresh`), and `lastAt` is the time of the last grant.
* `PacedNeverRefused` (`PacedPeerPasses`) is the action property on the same
  bucket: a peer that waited long enough for a token is not refused.

`TunnelProofs` proves, for any timeouts, the disabled ones included
(`TunnelAssumption`):

* `TunnelInvariant`: `TunnelInv` relates the deadline of a blocked read or write to
  the time since that connection was last heard of (`ReadClock`, `WriteClock`): a
  deadline passes only on a peer that was silent for the idle timeout. The
  write's half excepts the moment between the other direction's read and its
  touch, in which no time passes. `CloseInv`: only the cap closes the connections
  under the copies.
* `TunnelTypes`, and `DirectionsIndependent` (`HalfCloseKeepsOther`).

`ProxyProofs` proves, for any number of connections on both servers and any
limits (`LifecycleAssumption`, `ProxyAssumption`):

* `ProxyInvariant`: the inductive invariant is the stack of deferred calls. What a
  handler holds (lease, slot, sockets) is determined by where it is, and is what
  it still has to give back (`Stacked`); the shared counters, activeConns among
  them, are the numbers of handlers that hold. `LifeInv` adds that a drain
  begins after its listener closed, and that a server has at most one accepted
  connection that no handler has.
* `DrainsLeaveNothing`, `LeasesCoverSockets`, `NobodyDialsUnknown` and `AnswersOnce` follow
  from it, with `ProxyTypes`.
* `HandlersFitLifecycle` is a refinement: the handlers' specification implements
  `Lifecycle`, in which a handler may return at any time and its other steps are
  stutters. What `Lifecycle` says of the process therefore holds with the real
  handlers inside.
* `HandlersWaitForPeers` (`StuckOnlyOnPeers`) is liveness. `Come` numbers how far a
  handler is on its way from Acquire through the dial to its last deferred call;
  it never goes back (`NeverBack`), and every stage that is not a call on a peer is
  left by its fairness (`Between`).
* `ServesReturn` (`ServersReturn`) is liveness as well: begun, listener closed, accept
  loop left, deadline passed, over. No stage is entered twice (`ServerSteps`), each
  is left by its fairness, and in the last one the polling drain meets its passed
  deadline again and again. It needs that a draining server has a deadline
  (`Equipped`).

`SupervisorProofs` proves, for any keys and configurations (`ControllerAssumption`), any
inputs and thresholds (`SupervisorAssumption`, `BackendAssumption`), with `Load` left
opaque but for `ConfigPrecedence`:

* `ControllerInvariant`: `ControllerInv` says that the key file, and what anybody read
  in it, is a key that was assigned by this process or an earlier one, or one of
  the two kinds of empty file, that an emptied file has its writer, and, what the
  rest is for, that a caller on its way to give the registration up still has the
  reason it found (`Verdicts`), though the file may have changed since.
* `ControllerTypes`, and `RegistrationsKept` (`RegistrationKept`), the action property: a
  registration is given up only by the engine, when forced, or by a caller that
  read another process's key or an empty file.
* `ControllerImplemented` is a refinement: the control loop's steps are steps of
  `ControllerSpec` or leave the controller alone, so both results hold in it.
* `ControlInvariant` adds the process and the pool (`PhaseOK`, `PoolOK`), with an open
  circuit that has its failures; `ControlTypes` follows.
* `ConfigPrecedence` (`LoadPrecedence`): what the recursion over the 32 rows computes is
  shown by looking at the first row after which it would be wrong (`LeastNat`): each
  field has the value of the last effective row for it, or the file's or the
  default one (`EnvLastWins`), and two rows for one field are a variable and its
  stronger alias (`RowFacts`).
* `BackendsRecover` (`Recovers`) and `BackendsQuarantined` (`Quarantined`) are liveness. A
  probe through a good link leaves a healthy backend and nothing to force
  (`GoodProbe`). Through a bad one, a probe or dial that finds the circuit open, or
  opens it, stamps it anew, and the backend is out (`FailureCounts`). Otherwise the
  failure counts, and no restart, reset or half-open takes it back while the
  circuit is not open (`FailuresStay`), until the third probe is forced
  (`FailuresCount`). That an open circuit has at least MaxFails failures is needed for
  the first of these.

Only model-checked:

* `CircuitHalfOpens`, `SelectLockFree`, `TunnelEnds`, `CapEndsStream`, `Settles` and
  `RegistrationRetried`. Temporal logic without quantifiers proves liveness where a
  fixed number of stages leads to the goal, as above. These six count something
  whose bound is a constant of the model: handlers still dialing, candidates of a
  walk, ticks of a deadline, backends of a pass, failures up to HardRestartFails.
  That takes induction with a temporal formula, which the prover does not have.
* That fairness as written is what WF and SF of those steps say, which is about
  ENABLED.

## 6. Not modelled

* The bytes of the SOCKS5 and HTTP messages and of the tunnel: bytes that a client
  sends behind its request head stay in the handler's buffered reader, which the
  models do not show. Headers, logging, metrics, statistics, the admin API's
  rendering.
* Tunnel's copying around a plain response's bodyWrapper: `resp.Write` has sent and
  closed the body before, so the call only waits for the peers.
* warp-svc, warp-cli and dbus-daemon themselves; how many of them Restart leaves
  running (it kills none); the MDM file, directories, the Windows stub.
* YAML decoding, overflow of millisecond values, settings nothing decides on.
* Growth of the sticky and per-IP maps, wall-clock steps backwards, wrap-around
  of the 64-bit round-robin counter.
* The Dockerfile and the compose file.

## 7. Plan

Every component with state of its own is modelled, every invariant, action
property and refinement of the runs is proved, and four of the ten liveness
properties. What is left:

1. The six liveness properties above, with a prover that has induction over
   temporal formulas.
2. Safety consequences of the inductive invariants that no run asks for yet: that
   an organization's instance is never assigned a key, that an engine that drops a
   backend leaves one with the same address in the pool.
