# Sickle: a verification project

Sickle is a callback-based, edge-triggered epoll library in Rust. This
directory holds TLA+ models of its event system, of the network classes on top
of it and of the tunnel of its examples, the TLC runs that check them on small
instances, and TLAPS proofs of every safety property of those runs. Paths such as `poll.rs:739` are below `src/src/` of the
repository. `PROJECT.json` maps every definition to the lines it models and
lists runs, mutants, findings, hazards and theorems.

## 1. The system

| component | state | operations | interacts with |
|---|---|---|---|
| turn lock of `Poll` (`poll.rs` `poll1`) | `lock_state` (bit 0 = turn, rest = 2 × waiters), mutex, condvar | `poll`, `poll_interruptible` | gives `poll2` one thread at a time |
| readiness queue (`poll.rs` `ReadinessQueue`, `awakener.rs`) | intrusive list with three markers, self-pipe, reference counts of nodes | enqueue, dequeue, prepare for sleep, wake up, drop | `SetReadiness` and `Registration` put nodes, `poll2` takes them |
| registration node (`poll.rs` `RegistrationInner`) | state word, three token cells, job, `update_lock` | `update`, `set_readiness`, drop | queue; `poll` reads token and job |
| `Ready`, `PollOpt` (`event_imp.rs`, `sys/unix/ready.rs`) | bit sets | union, difference, tests | packed in the state word |
| timer wheel (`timer.rs`) | slots with linked lists, cursor, slab | `set_timeout`, `cancel_timeout`, `poll`, `register` | used by the event loop's thread |
| timer wakeup thread (`timer.rs` `spawn_wakeup_thread`) | `wakeup_state`, park token | sleep, take a request, set the readiness | `schedule_readiness`, `poll_to`, `Drop` |
| selector (`sys/unix/epoll.rs`) | epoll set, `events_map` | `register`, `reregister`, `deregister`, `select` | all sockets, the pipe |
| event loop (`net/event_loop.rs`) | run flag, poll, timer | `run`, `io_process`, `enqueue_job`, loop pool | runs every job |
| `TcpConnection` (`net/connection.rs`) | buffers, flags, callbacks | `handle_event`, `send`, `shutdown` | selector, event loop, user callbacks |
| `Connector`, `TcpClient` (`net/connector.rs`, `net/tcp_server.rs`) | stream, timeout, connect job | `connect`, `handle_event`, timeout, hand-over | timer, selector, `TcpConnection` |
| `Acceptor`, `TcpServer` (`net/acceptor.rs`, `net/tcp_server.rs`) | listener, accept job, session factory | `bind`, `handle_read`, `on_accept_connection` | selector, `TcpConnection` |
| tunnel (`examples/tunnel.rs`) | sessions with weak references to a pair of connections | handlers of both connections, the jobs they enqueue | `TcpServer`, `TcpClient`, `enqueue_job` |
| `LazyCell`, system call wrappers, other examples | – | – | – |

What makes this code hard: lock-free lists and state words shared by any number
of threads; plain memory (token cells, job) protected by protocol instead of
locks; a hand-made lock whose waiters time out; the race between going to sleep
in `epoll_wait` and being woken; edge-triggered readiness that is lost if
nobody reads to the end; a second thread that sleeps on behalf of the timer;
descriptors that the kernel uses again; callbacks that set and cancel timers
while the wheel is walked; timeouts that race with the event they guard.

What makes each component correct, in short:

- turn lock: one thread in `poll2`; the count is exact; a free turn is passed on;
- queue: FIFO without loss, no sleep on a non-empty queue, no use after free, no leak;
- registration: the `queued` flag always has exactly one owner; token cells are
  never read and written at once;
- wheel: lists and cursor stay sound, nothing due is left, wakeups are asked in time;
- wakeup thread: no request is lost, every due timeout is polled, the thread ends;
- selector: what epoll reports has its own job in the map;
- connection: no stranded input, closed once, bytes in order, the end is noticed;
- connector: one truthful outcome per connect, no failing `unwrap` in the loop;
- state word: packing keeps the fields apart;
- event loop: every enqueued job runs once, in order, and its node is released;
  the loop ends when told to;
- acceptor and tunnel: no connection, byte or end is left while the loop sleeps;
  bytes keep their order; a close reaches the other side; the loop survives.

## 2. Modules

| module | models | composed with |
|---|---|---|
| `PollTurn` | `poll1`: every access to `lock_state`, mutex, condvar | stands for the single consumer assumed by `ReadinessQueue` |
| `EventQueue` | abstract specification of the queue | – |
| `ReadinessQueue` | list, markers, pipe, reference counts, `poll2` | implements `EventQueue` (`Abstract == INSTANCE EventQueue WITH ...`) |
| `Registration` | one node: state word, token cells, job | sees the queue as "the node is in it" |
| `ReadyBits` | `Ready`, `UnixReady`, `PollOpt` as sets of bit positions; translation to and from epoll's flags | used by `StateWord` and `TcpConnection` |
| `StateWord` | `ReadinessState`: the word with its shifts and masks | – |
| `RegistrationWord` | `Registration` in step with the word that the program keeps instead | composes `Registration` and `StateWord` |
| `TimerWheel` | the wheel's data structure, one user at a time | reduces the wakeup thread to `scheduled`/`ready` |
| `TimerWakeup` | wakeup thread against loop thread, per atomic access | reduces the wheel to the set of pending ticks |
| `Selector` | `events_map` and the epoll set, per half of an operation | – |
| `TcpConnection` | a connection on an edge-triggered socket | one handler at a time (the connection's mutex) |
| `Connector` | `Connector` and the connect job of `TcpClient` | reduces selector and wheel to what a connector sees |
| `EventLoop` | `run`, `shutdown`, `io_process`, `enqueue_job` and the lifetime of a job's node | sees the queue as the FIFO queue of `EventQueue` |
| `Acceptor` | the listening side of a `TcpServer` | its actions are steps of `TunnelServer` |
| `TunnelServer` | the tunnel: acceptor, connection pairs, sessions and jobs on one loop | composes `Acceptor` with reduced forms of `TcpConnection`, `Connector` and `EventLoop` |
| `PollTurnProofs`, `RegistrationProofs`, `ReadinessQueueProofs`, `SelectorProofs`, `TimerWheelProofs`, `TimerWakeupProofs`, `ConnectionProofs`, `EventLoopProofs` | invariants, lemmas and theorems | extend the module they are about (`RegistrationProofs` also `RegistrationWord`; `ConnectionProofs` is about `Connector`, `TcpConnection` and `TunnelServer` with its `Acceptor`) |
| `MC*` | instances for TLC | extend the module they instantiate |

Variables keep the names of the fields and locals they stand for; a `pc`
variable says where a thread is in a function, and its values are named after
what comes next. Actions keep the names of functions or of the step inside a
function. Operators named `Bad...` are plausible mistakes, each defined before
the operator it would replace; they are used only by mutation runs, never by a
specification.

Abstractions common to all modules:

- *Memory is sequentially consistent.* The code uses acquire/release orderings;
  whether they suffice is not something TLC sees. Plain memory shared between
  threads is modelled by locations at which it is being accessed, so that an
  overlap is a reachable state.
- *A compare-and-swap loop on one word is one step* where a failing iteration
  changes nothing else.
- A peer's reset may drop what is unread (`TcpConnection` has both outcomes,
  `TunnelServer` only this one): had it been kept, the loop would read it first
  and do as if the reset had come later.
- Logging is left out. Payloads, tokens and jobs are model values or numbers.
- User callbacks run to their end inside the step of their caller unless they
  call back into the component (timers set from an expiring timer's closure).

## 3. Runs

| run | question and answer | bounds |
|---|---|---|
| `poll_turn` | Is one thread in `poll2`, is the count exact, is a free turn passed on when waiters time out, are notified late, or lose to a newcomer? Yes. | 3 threads with zero, finite and no timeout: one inside, one waiting, one arriving or leaving |
| `queue_wakeup` | Does a poller ever sleep on a non-empty queue (batch full, `select` failing, level node re-queued)? Is every queued node taken? No; yes. | 2 producers, a oneshot and a level node, a buffer of 2 that the selector may fill |
| `queue_drop` | Registrations, handles and the `Poll` dropped, handles cloned, in any order: is each node freed when, and only when, it is unreachable? Do the `debug_assert`s hold? Is the list a FIFO queue (`EventQueue`)? Yes. | 2 producers, 2 nodes, one of them droppable |
| `registration` | Do two updates, a setter, a drop and the poller keep token cells exclusive and the queued flag exact? Does the packed word always say what the fields say? Yes. | 2 updaters, 1 setter, one token, all options; no property looks at the value of a token |
| `registration_job` | Is the job exclusive as well? **No** (finding 1). | as `registration` |
| `timer_wheel` | Lists, cursor, `next_tick`, scheduling, expiry, over more than one revolution and with closures that set and cancel. Hold as stated. | 2 slots, 3 entries, delays up to 3, 4 ticks |
| `timer_wakeup` | Is a request lost between the two threads? Is every due timeout polled, does the thread end? No; yes. | ticks 0..3 |
| `selector` | In the middle of register, deregister and reregister from several threads, does every interest have the open socket's job, and does no event run a job left by an earlier socket? Yes, provided reregister is given the descriptor as token. | 2 descriptors used three times, 3 threads |
| `tcp_connection` | Stranded input, double close, order of bytes without a gap until a write fails or is short, noticing the end. Hold. | 2 bytes in, 4 out through room for 2 |
| `connector` | Timeout against outcome, connects made one after another or too early: one outcome each, and the code's assertion holds; as long as connects do not overlap no `unwrap` fails, no other thread poisons the mutex, the handler is told the truth, and every connect ends. | 3 connects |
| `event_loop` | Do jobs run once and in the order they were enqueued, by a thread and by callbacks, through batches smaller than the queue? Is a job's node released exactly when nothing refers to it? Does `shutdown` end the loop? Yes. | 3 jobs, batches of 2, 1 calling thread besides the loop's, `poll` may fail |
| `tunnel` | Under resets, short writes, refused connects and failing accepts: order of bytes, nothing left while the loop sleeps, what may end the loop, passing on of a close. Hold as stated. | 2 clients; one sends 2 bytes and gets 1 back, so that one may go through the buffer and one by a send job; the other (`Passive`) only connects, and makes the accept loop go round twice |

Why the bounds are enough for what is asked: the protocols are pairwise races
plus one bystander, and every bound leaves room for two contenders and one more
actor, for reuse (of a node after it was taken, of a descriptor, of a slab key,
of a wheel slot) and for one wrap-around (three token cells with three
successive updates; two slots with delays of three ticks). Every property has a
mutant of the code that breaks it within these bounds.

`CHECK_DEADLOCK FALSE` is given where the system may really come to rest: the
registration or the `Poll` has been dropped, all sockets are closed, time or the
number of connects has reached its bound, the loop has ended or its thread has
panicked. `poll_turn` and `queue_wakeup` do check for deadlock.

### Fairness

- `PollTurn`: weak fairness of each thread inside `poll1`. Callers need not
  come, `epoll_wait` is assumed to return for the thread that has the turn, and
  a condvar wait ends only by a notification, a time-out or a spurious wakeup,
  none of which is assumed.
- `ReadinessQueue`: producers finish what they began, the poller goes on and
  polls again (`EventLoop::run`); sockets do not fill the whole batch for ever
  (strong fairness of a select that leaves room; the code's batch has 4096); a *blocking* select is assumed to return only
  when the pipe has an edge, so liveness does rest on the wakeup protocol.
- `TimerWakeup`: both threads run, time passes, closures end; the loop takes a
  delivered timer event (strongly fair: between events it may be busy).
- `TcpConnection`: the loop runs on, and gets the connection's mutex, which
  other threads hold for one call at a time (strong fairness).
- `EventLoop`: the loop goes on whenever it is not asleep, callers finish what
  they began, and again some select leaves room. That an enqueued job wakes the
  loop is what `queue_wakeup` shows; an event of a socket is never assumed.
- `TunnelServer`: the loop's thread runs. Peers, kernel and the thread that
  starts the server owe nothing.
- `Connector`: the loop and the caller go on; a pending timeout comes due and
  its event is delivered, which is what `timer_wakeup` shows.

## 4. Proofs

Eight modules hold proofs. Each states an inductive invariant, proves it with
`Init => IInv` and one lemma or step per action for
`IInv /\ [Next]_vars => IInv'`, and draws the theorems from it, for every value
of the constants that satisfies the named assumptions of the module it extends.
The invariants were model-checked on the runs' instances before they were
proved.

| proofs of | theorems |
|---|---|
| `PollTurn` | `TypeCorrect`, `MutualExclusionHolds`, `CountExactHolds`, `NoLostNotificationHolds` |
| `Registration`, `RegistrationWord` | `TypeCorrect`, `TokenSlotExclusiveHolds`, `TokenStandsAlways`, `UpdateAssertionsHold`, `QueuedExactlyHolds`, `WordRefinesRegistration`, `WordHoldsStateAlways` |
| `ReadinessQueue` | `TypeCorrect`, `NoLostWakeupHolds`, `LevelOncePerPollHolds`, `DebugAssertionsHold`, `QueuedExactlyHolds`, `NoUseAfterFreeHolds`, `NoLeakHolds`, `ImplementsEventQueueHolds` |
| `Selector` | `TypeCorrect`, `InterestHasEntryHolds`, `NoStaleJobHolds` |
| `TimerWheel` | `TypeCorrect`, `WheelWellFormedHolds`, `ListsAreComplete`, `ScheduledInTimeHolds`, `NothingDueIsLeftHolds` |
| `TimerWakeup` | `TypeCorrect`, `RequestStandsHolds`, `SleeperIsToldHolds` |
| `TcpConnection` | `NoStrandedInputHolds`, `ClosedOnceHolds`, `WireInOrderHolds`, `ClosedIsFinalHolds` |
| `Connector` | `TypeCorrect`, `UnwrapsHoldAlways`, `OneOutcomeHolds`, `ToldTheTruthHolds` |
| `EventLoop` | `TypeCorrect`, `NodeLifetimeHolds`, `JobsInOrderHolds` |
| `TunnelServer`, `Acceptor` | `ForwardedInOrderHolds`, `NothingStrandedHolds`, `LoopSurvivesHolds`, `ShutIsFinalHolds` |

**`PollTurn`** (any finite set of threads, `ThreadsAssumption`). The properties
are not inductive alone: the count changes when a waiter gives up, so one must
know *who* is counted (`CountedInside`: a thread's `inc` is set only inside the
loop, and always while it waits), and a notification is not lost because parking
happens under the mutex (`MutexOwner`: the mutex belongs exactly to the thread
between lock and unlock). Bit 0 of `lock_state` is separated from the count by
`TurnBitExact`; `WaiterAdded` and `WaiterRemoved` reduce each change of `inc` to
the cardinality of the set of waiters.

**`Registration`** (any updaters, setters, tokens). For the token cells the
strengthening says that `update_lock` is held exactly by the one updater inside
it (`LockOwner`), that the write position an updater has loaded is still the
current one (`WritePosKnown`), that no update runs on a dropped registration
(`NoUpdateAfterDrop`) and where setters can be (`SettersOutside`). The poller may
move the read position at any time, but only onto the write position; the slot
chosen differs from both, and that stays true. The action property
`TokenStands` draws the consequence for the poller: the cell it is about to read
without a lock keeps the token that was current when its exchange succeeded. For `QueuedExactly` a second
invariant (`QInv`) says that at most one thread carries the node to the queue
(`OneHolder`), that somebody holds it exactly while the flag is on
(`HeldIffQueued`), and that nobody works on a node before it has a queue
(`AttachedBeforeUse`).

**`RegistrationWord`**. `GetBit` and `SetBit` say bit by bit what the getters and
setters of the packed word do; from them, a setter changes its own field and no
other, for words of any width. Hence each operation on the record and its
counterpart on the word keep telling the same (`WordHoldsStateAlways`), and the
system with the word implements `Registration` (`WordRefinesRegistration`).
What the word adds to the constants is stated as its assumptions: readiness and
options fit the four bits of their fields, which `Ready::all()` does not.

**`ReadinessQueue`** (any nodes, producers and buffer size; nodes are not the
marker strings, which `ConstantsAssumption` says). The state has pointers and
stores still to come, so the invariant takes a witness: the sequence `c` of the
cells from `tail` to `head`. `IInv(c)` says

- `Linked`, `Pending`: `c` is linked up to stores that are pending, each of
  which belongs to one place of `c` and to one actor;
- `Carried`, `Calls` and the poller's counterpart: what an actor has in hand is
  not in `c`, not in another's hand, and is what its call is about;
- `Flagged`: the queued flag of a node is on exactly while it has a place;
- the reference count of a node is the sum of three parts: its registration
  (`RegRef`), the queue's (`QueueRef`) and the handles and actors that hold it
  (`Holders`);
- where the markers may be, what a blocking poller has promised about the sleep
  marker and the pipe, and that the nodes a poll has put back stand behind its
  guard.

`NextEvolves` shows, with a lemma for every step of the code, that a step leads
from `c` to some `d` with `IInv(d)`, and that `d` is `c`, `c` with a cell
appended, or `c` without its first cell. The invariants follow from `IInv(c)`. For
the refinement, the recursive walk over the links by which the model defines
`queue` is shown to collect exactly the nodes of `c`: there is no induction over
data, so the argument takes the greatest index at which the two differ, which
exists because a bounded set of numbers has a greatest element
(`GreatestElement`, from the well-foundedness of the order). That makes each
step a put, a take, a close or a stutter of `EventQueue`.

**`Selector`** (any descriptors, threads, number of sockets). The invariant ties
each half of register and deregister to what the other half has already done
(`CallsConsistent`, `WatchedHasJob`), and orders sockets by when they were opened:
a job in the map may be that of a closed socket, but never one older than an
event still to be looked up. `InterestHasEntry` and `NoStaleJob` are theorems
under the hypothesis `OwnToken`, as in the run: without it they are false.

**`TimerWheel`** (any number of slots, entries and ticks).
`WheelWellFormed` is about neighbours, and that is not inductive: a ring that no
head leads to satisfies it, and removing one of its entries could leave the
cursor on a removed one. The invariant takes a witness that numbers the
insertions (`SomeOrder`): every list runs from the youngest entry of its slot to
the oldest and leaves none out. Over that order it says what the cursor has yet to
come to: everything due in its slot except what was filed under its own tick
(`DueIsAhead`), and everything that the slot's `next_tick`, reset when the walk
began, does not account for (`EarliestKnown`; outside a walk it accounts for all).
`NothingDueIsLeft` follows when the cursor leaves a tick: an entry that is late by
a whole revolution is in the cursor's slot, so it was ahead and has been met.
`ScheduledInTime` follows from `EarliestKnown` when `poll_to` returns `None`.
`ListsAreComplete` states `SomeOrder` itself.

**`TimerWakeup`** (any bound on the ticks). `RequestStands` speaks of a waiting
loop only; the invariant follows `schedule_readiness` through its load, exchange
and unpark: until the exchange, what is pending is covered by the old request and
the new one together (`SchedulingCovers`), and the loaded value is current unless
the thread has answered since, which makes the loop poll again
(`LoadedIsCurrent`). `SleeperIsTold` is stronger than its property at the two
places before the thread parks.

**`TcpConnection`** (any traffic, any send buffer). Three independent invariants:
a fetched event is handled before the next is fetched (`EventHeld`), `closed` and
the number of closings go together, and every byte on the wire was numbered before
the next one to be sent, and as long as no write has failed or was short
(`dropped`) the wire has all the others. With `CloseInv` (a closed connection is neither enabled
nor registered) the last gives the action property `ClosedIsFinal`.

**`Connector`** (any number of connects, overlapping or not). All rests on the
stored stream: only it can have an event to come (`Stored`), a batch holds one
event of a stream at most, and then a stream is stored (`BatchFits`); a stored stream
that has its outcome was deregistered by its timeout (`Outcomes`). A caller in
another thread may find the stream gone only after an overlap (`Halfway`), so
the mutex is not poisoned before. When connects do not overlap, an event or a
timeout belongs to the last stream, which is registered and has no outcome
(`Sequential`).

**`EventLoop`** (any jobs, any finite set of callers, any capacity).
`NodeLifetime` counts references, but what keeps it true is who owns them. The
invariant accounts for every `Arc` of a job's node (`ArcsCounted`): its owners
are the caller until it has dropped its own, and the closure, which is in the
node until that is polled, in the batch until that is cleared, and in the
loop's hands while it is dropped. So the last drop of `r` finds no job left
(`Flagged`), only a node without a job comes back to the queue, and it is there
once (`PlacesOnce`). For `JobsInOrder` a second invariant (`OInv`) says that what
was enqueued and has not run waits in the batch or in the queue, that the batch
is older than the queue, and that both are in order; hence the entry that runs
is the oldest that waits. Both are stated with positions and quantifiers instead
of concatenated subsequences, which would need an induction.

**`TunnelServer`** (any clients, passive or not, any number of bytes, any of the
faults). `TunnelInv` has a part for the loop and one for each session.

- Of the loop: a batch has at most one entry for a socket, only for sockets that
  are or were registered, and what is being handled has been taken from it
  (`BatchOK`, `HandlingOK`). So a connector's event meets a connection that is
  still being made, and any other event one that is open or closed: that no
  `unwrap` of `deregister` fails, whatever has been reset, needs exactly this.
  `LoopSurvives` gives each end of the loop a name of its own (`refused`,
  `shutdown`, `deregister`, `stuck`) and says which client, if any, must have
  been reset for it.
- Of a session's bytes towards the client: all that was read from the upstream
  has been written, as long as the client is open (`ReplyOK`).
- Of its bytes towards the upstream: they are in three places, what the upstream
  has got, the send jobs in the batch and behind it, and the client's buffer.
  There are numbers `lo` and `hi` such that the upstream has got the bytes up to
  `lo`, the send jobs of this session carry those from `lo + 1` to `hi`
  (`Chains`), and the buffer the rest, up to what was read (`Follows`). Jobs of
  other sessions and of other kinds stand between, so the invariant takes a
  witness that says for every place of a queue how far the bytes have come
  there (`Places`); appending and taking a job change it at one end, and no
  induction over the queue is needed. While the buffer holds anything no send
  job carries bytes, or a flush would change their order, and what keeps that true is
  that `on_recv` empties the buffer once the upstream is attached.
- Of the jobs: a send or a flush waits only for an upstream that was attached, a
  shutdown of the client only after the upstream's end (`JobsOK`); a buffer that
  is not empty while both sides are open has its flush job waiting, unless the
  upstream was reset before `on_connect` asked for an error a second time;
  `NothingStranded` needs that.
- Of events: what is unread on an open connection has an edge, an entry of the
  batch that says readable, or is being read; a backlog has the same at the
  listener (`NoticedOK`, `BacklogNoticed`).

Every action has its lemma (`...Keeps`). Most change one session: `SessionStep`
and `SessionMovesStep` show once that the other sessions, the batch and the
entry in hand stand, and leave to each action what it does to its own session.
From the same invariant follows the action property `ShutIsFinal`: after a
shutdown or a close, jobs that still own the connection write nothing to it.
`TunnelInv`, `ShutIsFinal`, `ClosedIsFinal` and `TokenStands` were model-checked
on the instances of the runs `tunnel`, `tcp_connection` and `registration`.

Assumptions of the constants are those of the modules: finite sets of threads
where the code counts them, different names for different things, positive
capacities. None restricts the schedule.

Only model-checked:

- liveness (`TurnIsTaken`, `QueuedIsTaken`, `DueIsPolled`, `TerminatedEnds`,
  `EndIsNoticed`, `ConnectEnds`, `EnqueuedRuns`, `ShutdownEnds`,
  `CloseIsPassedOn`): it rests on fairness and `ENABLED`, which the prover does
  not handle;
- that `JobExclusive` fails: its run shows a counterexample.

Every invariant and action property of a passing run is proved. Conversely
`QueuedExactly` of `ReadinessQueue`, the `TypeOK` of most modules and the action
properties `TokenStands`, `ClosedIsFinal` and `ShutIsFinal` are not listed in a
run: they are stated with the proofs.

## 5. Findings

1. *The job of a registration is not thread safe* (`poll.rs:889`,
   run `registration_job`). `update` stores the job with a plain write after it
   released `update_lock`; the poller clones and replaces it at the same time if
   a `set_readiness` got the node queued in between. README.md:8 claims a
   thread-safe event system.

Behaviour met while modelling that no statement of the repository contradicts;
the models include it unless said otherwise:

- An event may run the job of its socket's successor: `select` looks the
  descriptor up after `epoll_wait` has returned (`epoll.rs:76`), and another
  thread may in between deregister and close the socket and register a new one
  under the same descriptor. `NoStaleJob` therefore excludes only earlier sockets.
- `reregister` gives epoll the token where `select` expects the descriptor
  (`epoll.rs:139`), so a reregistered socket's events find no job or another
  socket's unless the token is the descriptor. The run `selector` has it called
  that way; with `OwnToken = FALSE`, `InterestHasEntry` has a counterexample of a
  few steps. Nobody in the repository calls `reregister` on a socket.
- `update` returns `Ok(())` without effect when another update holds
  `update_lock` (`poll.rs:854`).
- The wheel accepts a timeout for the tick under its cursor (`tick < self.tick`,
  `timer.rs:179`), passes it over for a revolution and meanwhile asks for a
  wakeup again and again; each such poll moves the cursor one tick ahead of the
  clock, so other timers may fire early. `NothingDueIsLeft` and
  `ScheduledInTime` state precisely what is left of the promise.
- A cancelled timeout leaves its slot's `next_tick`; the extra poll moves the
  wheel one tick ahead.
- A timeout filed under tick 0 is taken for `TERMINATE_THREAD` and ends the
  wakeup thread (`timer.rs:329`).
- What a write does not accept is dropped although `send` returned its length
  (`connection.rs:137`); `write_buffer_sending` is never filled, so
  `handle_write` has nothing to send; `writ_job` may run after `close_job`.
- An `epoll_ctl` that fails, a connect that fails, and a `connect` that replaces
  the stream of the last one leave their entry in `events_map`; the next socket with the same descriptor replaces it.
- A connect that times out tells nobody, and its socket stays open until the
  next `connect`. A connect refused at once by the kernel ends the thread that calls,
  in the examples the loop's (`connector.rs:98`).
- Calling `connect` again too early applies the old stream's event to the new
  stream: `on_connect` may be called before it is connected, and `deregister`'s
  `unwrap` may fail. If another thread is the caller, the old stream's event may
  take the new one before it is registered: the caller panics with the mutex
  locked, which poisons the connector for the loop. The properties of `Connector`
  that are lost then ask for `~early`.
- `shutdown` clears a flag and wakes nobody: a sleeping loop ends only after its
  next event, and a shutdown before `run()` is lost (`event_loop.rs:86`). Jobs
  still queued when the loop ends are never run, and their nodes stay.
- A connection accepted between `bind` and `set_accept_job` meets the default
  job and is dropped (`tcp_server.rs:108`). An `accept` error other than
  would-block leaves the backlog until the next connection arrives
  (`acceptor.rs:46`).
- In the tunnel the loop's thread waits for itself when a reply cannot be sent
  because the client has reset its connection (`tunnel.rs:99` and `:173`), and
  panics when such a client is to be shut down (`tunnel.rs:120`) or when
  `connect` fails at once; `LoopSurvives` says that nothing else ends it, in
  particular no second `deregister`. A
  client that half-closes is deregistered at once, so the upstream is shut and
  its answer has nobody to go to once no job owns the client's connection; a
  client that closes before its upstream is connected leaves the upstream open.
- `Ready::all()` has bits beyond the fourth: as a readiness it changes the
  interest field (the assumption `AllSpills` of `RegistrationWord`). `PRI` and
  `LIO` contain the bit of `HUP` (`ready.rs:10`), so a priority event also reads as
  a hang-up. With edge and level both set the queue takes edge, epoll level.
- A `Timeout` kept after its timer fired may cancel another timer (not modelled);
  `timeout` from a thread other than the loop's is a data race (not modelled).

Hazards that no property covers, because the code has them and no statement of
the repository excludes them: the token of `reregister`, a timeout for tick 0,
the connection that meets the default accept job, and the two that section 6
leaves out. Others are covered in part, as the notes in `PROJECT.json` say:
`Ready::all()` in the state word, overlapping connects, the rest of a short
write, the ends of the tunnel's loop after a client's reset, and a shutdown that
finds the loop asleep or not yet running.

## 6. Not modelled

- Association of a node with a second `Poll`, and `SelectorId`, whose check and
  store are two steps (`poll.rs:40`), so that two polls may both accept a
  socket: everything in the repository uses one poll per socket.
- Tick overflow and `Timeout` handles kept after their timer fired; calls of
  `timeout` and `clear_timeout` from other threads, which are undefined
  behaviour (`event_loop.rs:77`).
- `set_enabled` called by users, `Connector::handle_close` (nobody calls it), a
  failing `EPOLL_CTL_DEL` or `EPOLL_CTL_MOD`.
- The builder's settings, `CURRENT_LOOP`, `EventLoopPool::wait`, `PollOpt::urgent`,
  formatting and logging: no state that another step depends on.
- The socket wrappers (`net/tcp.rs`, `sys/unix/tcp.rs`, `io.rs`, `uio.rs`,
  `dlsym.rs`) pass calls on to the operating system; `LazyCell` is filled once by
  one thread; `examples/tcp_server.rs` and `client.rs` use less of the library than
  the tunnel does.

## 7. Plan

Done: models, runs and proofs of the safety properties for turn lock, queue,
registration and its word, wheel, wakeup thread, selector, connection,
connector, event loop, acceptor and tunnel.

What would come next:

1. the parts that section 6 leaves out and that have state: a `Timeout` kept
   after its timer fired, association with a second `Poll`;
2. that `TcpConnection` and `Connector` implement the reduced forms in which
   `TunnelServer` has them, as a refinement instead of by reading;
3. the liveness properties, for a prover that has `ENABLED` and fairness.
