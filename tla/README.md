# Murphy: a TLA+ verification project

Murphy (profile.ivi.murphy) is the resource policy daemon of Tizen IVI. Its C
code is a set of libraries, an event loop, message transports, an in-memory
database and small utilities, and a daemon that loads plugins on top of them.
This directory holds TLA+ models of them, TLC configurations that check the
models on small instances, and TLAPS proofs for every size of the instance.

Every definition is translated from the source; `PROJECT.json` names the lines
behind each (`map`), the properties with the bug each one would catch
(`mutants`), and what is hard to test in the code (`hazards`). Paths below are
relative to the repository.

Contents: [the system](#the-system) · [how the models relate to the
code](#modules-and-code) · [the runs](#what-the-runs-check) ·
[proofs](#what-is-proved) · [disagreements](#where-the-code-disagrees-with-its-own-documents)
· [not modelled](#what-is-not-modelled) · [plan](#plan)

## The system

Everything runs in the thread of one main loop. There are no locks and no
threads, and yet little is sequential: client code is called back in the middle
of walks over lists, may delete, add or change the very objects being walked,
and nearly every object has a "marked, not yet freed" state because of that. The
hard behaviours of this code are these reentrant calls, the order in which
delayed deletions, events and messages take effect, and sequences of legal calls
that lead where no single call would.

| part | state | operations | who it talks to |
|---|---|---|---|
| Intrusive lists, `src/common/list.h` | circular doubly linked hooks | append, prepend, delete, foreach | used by everything |
| Main loop: deferred callbacks, `src/common/mainloop.c` | active and inactive list, marks | add, delete, enable, disable, dispatch, purge | clients; glue layers use them to pump other loops |
| Main loop: timers | list sorted by expiration, `next_timer`, poll timeout | add, delete, dispatch (rearming), purge | clients; the poll timeout of every iteration |
| Main loop: I/O watches | masters, rings of slaves, epoll registrations, events being dispatched | add, delete, dispatch, promote a slave, purge | clients, the kernel |
| Main loop: subloops, superloop, signals | embedded poll sets, the loop we are embedded in, a signalfd | add and delete, prepare, dispatch | GLib, D-Bus and PulseAudio glue |
| Transport, `src/common/transport.c` | busy count, destroyed and connected flags | create, bind, listen, accept, connect, disconnect, send, destroy | a backend; the user's callbacks |
| Stream, datagram and D-Bus backends | a socket, its watch, an input buffer | the same, and the receive callback | the main loop, the kernel, a peer |
| Messages, `src/common/msg.c` | a list of typed fields, a reference count | create, append, find, encode, decode | transports |
| D-Bus layer, `src/common/dbus.c` | tracked names, handlers, pending calls | connect, follow a name, export, call, send | libdbus |
| Hash table, `src/common/hashtbl.c` | chains, the list of buckets in use, the one walk | insert, look up, remove, foreach, find, reset | debugging, the D-Bus layer; callbacks of the walk |
| Allocator and object pool, `src/common/mm.c` | blocks with headers; chunks with masks of free slots | alloc, realloc, free, switch; alloc, free, grow, shrink | everything; the pool's callbacks |
| Logging, utilities | | | everything |
| Plugins, `src/core/plugin.c` | loaded plugins, their state and references | load, start, stop, unload | the daemon, the console |
| Console, `src/core/console.c` | consoles, command groups, busy and destroyed | create, input, disconnect, destroy | a console backend over a transport |
| Daemon, `src/daemon` | configuration | parse, load plugins, run | plugins |
| Murphy-DB tables, `src/murphy-db/mdb` | rows, an index, columns, hash, sequence, handles | create, insert, update, delete, select, drop | MQI and MQL |
| Murphy-DB undo log and transactions | changes by depth and by table | log, begin, commit, roll back | tables, triggers |
| Murphy-DB triggers | lists of callbacks by event | add, delete, run | commit, clients |
| MQI and MQL, `src/murphy-db/{mqi,mql}` | table and transaction handles, parsed statements | the public API and a small SQL | clients |

What makes each of the modelled parts correct:

* **Lists.** Linking and unlinking keep every ring closed and separate.
* **Deferred callbacks.** An enabled one is on the list that is walked and gets
  its turn; the walk ends, stays on its list and off freed memory; the loop does
  not sleep on pending work; nothing is leaked.
* **Timers.** The list is sorted, `next_timer` is alive, no timer is early, none
  is forgotten by a loop that went to sleep.
* **I/O watches.** A live watch is registered with the kernel for what it wants,
  under the name of a live object, through sharing, promotion and deletion.
* **Stream transport.** The user gets the peer's messages in order and once, then
  the end of the stream; the transport is freed as soon as nothing uses it and
  not before.
* **Subloops, superloop, signals.** Each embedded loop sees the events it asked for
  and bounds the sleep; the loop around ours runs us in time; a handled signal
  reaches every handler and never has its default effect.
* **Messages.** What arrives is what was sent or nothing; buffers hold; what is
  freed is freed whole.
* **D-Bus.** Whoever follows a name knows its owner once the bus is quiet; signals
  and calls reach the handlers they are for; a transport hears its peer only.
* **Hash table, allocators.** What is hashed is found, walked over and freed once,
  whatever callbacks remove; no slot is handed out twice, no chunk in use is freed.
* **Datagrams, consoles, plugins, configuration.** Nothing is freed under a callback
  or kept after the last one; the file is read word for word and means what it
  says; what is loaded is started.
* **Tables and transactions.** Rows, index and undo log agree; a table is a map,
  and a transaction takes effect as a whole or not at all. The structures below, the
  handle map, the hash and the sequence, keep what they were given.

## Modules and code

```
MrpList                               list.h
   ├─ Deferred ─┬─ DeferredProofs     deferred callbacks, and lemmas on rings
   └─ Hashtbl ──┤                     common/hashtbl.c
Memory ─────────┘                     common/mm.c
Timers ── TimersProofs                timers
IoWatch ───┬─ MainloopProofs          I/O watches and epoll
Superloop ─┤                          the loop we are embedded in
SigHandlers┤                          handlers of signals
Subloops ──┘                          embedded loops

Stream ── StreamProofs                transport.c over stream-transport.c
Dgram ──┬─ FrontendsProofs            transport.c over dgram-transport.c
Console ┤                             core/console.c, plugin-console.c
Plugins ┤                             core/plugin.c
DbusCodec ┘                           dbus-transport.c: frames on the bus
DbusTransport ─┬─ DbusProofs          transport.c over dbus-transport.c
DbusNames ─────┤                      dbus.c: names and calls
DbusHandlers ──┤                      dbus.c: methods and signals
Message ───────┤                      msg.c: generic messages
DataCodec ─────┘                      msg.c: data types
Tokenizer, Config                     daemon/config.c

KeyValueTx                            what a table with transactions promises
   └─ Store ──┬─ MdbProofs            table, index, undo log, transactions
MdbHandle ────┤                       the handle map Store is built on
MdbHash ──────┤                       the hash table that indexes are,
MdbSequence ──┤                       and the sorted table
MdbTables ────┤                       the catalog of tables
MdbTrigger ───┘                       triggers
MdbCond                               conditions

ListFacts                             lemmas on sequences that the proofs share
```

`A ── B` and `A └─ B` read "B is built on A". An `MC` module holds values and
symmetry for TLC. Four of them hold several parts side by side, which share no
state in the code either, or only through what one of the parts models: the variable
`part` is chosen in the first state and a behaviour is one of that part alone. The parts
a proof is about are EXTENDed, so that the property a run checks is the one the theorem
states; the others are INSTANCEs.

| MC module | its parts |
|---|---|
| `MCDeferred`, `MCTimers`, `MCIoWatch`, `MCStream` | the module of that name |
| `MCCommon` | Subloops, Superloop, SigHandlers, Hashtbl, Memory |
| `MCMessaging` | Message, DataCodec, DbusNames, DbusHandlers, DbusTransport |
| `MCMdb` | Store with KeyValueTx, MdbHandle, MdbHash, MdbSequence, MdbCond, MdbTrigger, MdbTables |
| `MCFrontends` | Tokenizer, Config, Plugins, Dgram, Console, DbusCodec |

### Main loop

**MrpList** has the pointer maps `next` and `prev` and one operator for each
function of `list.h`. `WellLinked`, `SameRing` and `RingOf` say when pointers
form rings; `RingOf` numbers the members of each ring from its head, so that no
induction over a ring's length is needed in proofs.

**Deferred** keeps the pointers, not a sequence: the code relinks objects under
the walk, and the question is where a stale cursor leads. `AddDeferred`,
`DelDeferred`, `EnableDeferred`, `DisableDeferred` and `Quit` are the client's
calls, possible whenever client code runs (`ClientRuns`). The iteration is
`Prepare`, the subloops' glue, the poll, the walk of `dispatch_deferred` one
cursor step at a time, the other callbacks and `purge_deleted`. `home` is a
history variable: the ring a hook was last linked to.

**Timers** uses sequences: only the order matters there, and the walk's cursor
problems are the same. Time is relative (`rem[t]`, what is left until `t`
expires), so that states repeat and liveness can be checked without a bound on
time; a callback may take up to `MaxLag`. `next_timer` is kept as the code
computes it, including when it goes stale.

**IoWatch** has the kernel's side as well: `reg[f]` is the epoll registration of
a descriptor number, which names the watch epoll hands back. `Poll` fills the
event buffer, events are handled one after another, each by its master and then
along the ring of its slaves, and watches may be deleted by any callback on the
way.

**Subloops** follows each iteration through prepare, query, poll, check and
dispatch of every subloop, with `sl->pollfds`, the epoll table made from it and the
indices that lead back from an event to it. **Superloop** is the other direction:
what `mrp_set_superloop` registers (`iow`, `timer`, `work`), and `super_work_cb`,
which runs an iteration and arms the foreign timer. **SigHandlers** has the
process's mask, the signalfd's mask and the walk over the handlers; that
`recalc_sigmask` unblocks all handled signals before it blocks those left is a step
of its own, since a signal may arrive between.

### Common library

**Hashtbl** has the chains as sequences and the list of used buckets with its
pointers, because a bucket is appended to the list it is still on (nothing takes an
emptied bucket off outside of a walk) and the torn list is what walks then follow.
Walks are split at their callbacks, which insert and remove: `DeleteFromBucket` moves the cursors
of the walk along. The history variables `torn` and `fault` say when the table is past
promising anything.

**Memory** has the object pools and the allocators. A pool keeps for each chunk its free slots and the cached word, and the chunks on two
lists. A stack holds the callbacks that run, with what the interrupted call had looked
up: `mrp_objpool_free` decides by a mask it read before the cleanup. `PerChunk` is the
arithmetic of `pool_calc_sizes`, in the widths of the code. The allocators are the one that keeps a header with every block and the
plain one, with the switch between them.

### Transports, messages, D-Bus

**Stream** is one connected stream transport with its peer. The unit is a byte
known by its message and place, so that cutting the stream wrongly shows. The
socket splits and joins messages, writes fall short, the peer closes or resets
the connection at any moment, and the user disconnects or destroys the transport
from any callback. `strm_recv_cb` is split at every point where it calls out:
growing the buffer, reading, delivering, returning from a callback.

**Dgram** has the counting of the generic layer (`busy`, `destroyed`,
`purge_destroyed`) over a socket that the kernel connects to one peer at a time;
datagrams are good, undecodable, of a wrong size or too short.

**Message** builds a message field by field, counts references, and runs the
default encoder and decoder over the wire, a sequence of items with their widths.
The growth of the buffer (`mrp_msgbuf_ensure`) is in it, and so is the loop counter
the array decoder overwrites. **DataCodec** registers data descriptors at two ends
that need not agree, and encodes, decodes and frees structures by them; arrays are
counted by another member, signed or not, or guarded by a sentinel, and decoding fails half-way.
Encoding gives up on a negative count and on an array of blobs, and crashes on a blob whose size is
below -1; a descriptor with tag 0 is refused.
**DbusCodec** is the other pair of encoders, the ones of `dbus-transport.c`, with the
D-Bus types values travel as, and calls of foreign programs. What they read before it is set is
a choice: the upper half of a structure's number of members, which is read as 16 bits into an `int`
(`dbus-transport.c:1438`, `1476`), the iterator `data_decode` and `raw_decode` ask for the type of a
blob's elements (`:1522`, `:1677`), the tag by which `data_decode` frees a structure it never
allocated (`:1613`). A blob inside a structure is taken from the descriptor of the member, `&f->blb`, instead
of the structure (`:1338`), and an array whose size cannot be told has 2^32 - 1 items (`:1348`).

**DbusNames** follows names: a match rule, a query, its answer, and signals that
are on their way at the same time; pending calls with replies, timeouts and
cancellation. **DbusHandlers** has the chains of handlers by member, sorted by
specificity, and the walk that calls them. **DbusTransport** is one transport on the
bus whose peer's name moves. In all three the bus is a queue: what it sends
arrives in the order sent.

### Daemon

**Tokenizer** reads characters: `get_next_token` unquotes words in place, in the
one buffer that is also read into. Its reference definition reads the whole file at
once. **Config** takes the lines from there: the parser of nested conditionals and the
execution of the actions, against a definition of what a file says. **Plugins** has
descriptors with their counts and instances with their state and references; the
walk that starts them is split at every callback. **Console** has consoles over
streams and the one that all datagrams share, the meaning of a line in each mode and
the command that runs inside the input.

### Database

**Store** is one indexed table. A row is a memory cell and the undo log points at
cells: whether a cell that a change refers to still holds what it held is the
question behind most of its properties. Commit and rollback walk the log one
change per step, because commit calls triggers in between and these may write.
**KeyValueTx** is what a client may assume: a map, `Begin`, `Write`, `Commit`, and
a `Rollback` to what was there before. `Store` is shown to implement it, with the
table's contents seen through its index.

**MdbHandle** has the buckets of free bits and what happens when the last one is
given back; **MdbHash** the chains, the list of entries and the walk with its cached
pointer; **MdbSequence** the array with what is left over behind its end, and the
searches by halving over it. **MdbCond** evaluates conditions on the code's
stack and compares with the meaning of the expression. **MdbTrigger** walks the lists
of triggers that each change of a commit concerns, one after the other, and each callback may
add and delete triggers; **MdbTables** relates the two tables of names
and the handles that `mqi.c` and `table.c` keep of the same tables.

### What all of them leave out

Pure data: the text of log messages, the layout of values, columns and `select` of
the database. Running out of memory is left out everywhere. An operator ending in a
comment `mutant:`, or named like a definition of the model with a suffix, and used
by no action, is a change a programmer could make by mistake; see below.

## What the runs check

Every property of a passing run comes with a mutant in the same module, under
which TLC finds the property violated: `mutants` in `PROJECT.json` says which
operator stands in for which.

| run | bounds | distinct states | shows |
|---|---|---|---|
| `deferred` | 3 deferred callbacks | 131,952 | rings stay intact and nothing is lost from them; enabled means queued; the walk stays on its list; no sleep on pending work; destroy frees all; enabled callbacks run, deleted ones are freed |
| `timers` | 3 timers, intervals 0 and 1 ms, 2 µs to the ms, lag 1 µs | 381,554 | sorted list, live `next_timer`, no early timer, no endless sleep, every timer fires, deleted ones are freed |
| `iowatch` | 3 watches, 2 descriptors, reading and writing, symmetry | 3,411,756 | each watch in one place, no dangling pointer in the kernel or among pending events, live watches are registered |
| `iowatch_live` | 2 watches, 1 descriptor | 30,512 | deleted masters are unlinked, watches that share no event are called |
| `common` | 2 subloops, 2 descriptors, 2 iterations, 3 client calls; a clock of 4; 3 handlers of 2 signals, 3 raised; 4 entries of 3 keys in 2 buckets; 3 kinds of pools with 2 chunks; 4 blocks | 1,569,536 | what a subloop is told is what the kernel said; the superloop runs what is due; handled signals reach all their handlers; a walk over the hash table calls what stays and nothing that was freed; slots are handed out once, and headers count what is out, with callbacks nested three deep |
| `stream` | 3 messages of 2 sizes, 9 bytes of socket, buffer of 3 | 115,702 | order, no loss, hangup last, freed exactly when unused, liveness |
| `messaging` | messages of 3 fields out of 7 kinds, 8 descriptors, 2 names, 2 trackers, 3 handlers, 5 bus events | 1,669,942 | what arrives was sent; nothing is lost or freed twice; names, signals, calls and messages reach those they are for |
| `mdb` | Store: 3 cells, 2 keys, 2 values, 2 nested transactions, 3 changes each; 5 handles, 5 keys, 3 hashed keys, 3 operands, 2 triggers with 2 changes, 4 tables of 2 names | 1,023,464 | rows, index and log agree, no cell leaked, freed twice or used after it was freed; Store refines `KeyValueTx`; the structures keep what they were given; triggers are called for their changes; handles reach tables |
| `frontends` | files of 6 characters, a buffer of 6; files of 4 lines; 3 plugins loaded 3 times; 3 datagrams of 2 peers, 3 calls; 2 consoles, 4 lines; bus messages of 3 fields out of 8, 17 structures, 8 foreign calls | 1,033,580 | files are read word for word and mean what they say; plugins, datagram transports and consoles stay sound; a frame on the bus arrives whole or not at all |
| `iowatch_leak`, `subloops_walk`, `mdb_nested` | | | the disagreements listed below |

Why the bounds are enough. Three objects on a list give a walk its current
object, its cached next one and one that is neither; every operation of the loop
touches at most two objects and a list head. In `timers` the two intervals let a
timer be armed before, at and after another, and zero lets it expire at once; with
two microseconds to a millisecond rounding is visible. Two descriptors and three
watches give a master with two slaves, and a master of each descriptor with a
pending event. In `common` two iterations let the second compare with the
descriptors of the first; one bucket holds two keys and three entries of it, the other makes the
bucket that is to be walked next go away; chunks have one word of the mask and two, the
number `chunk_empty` knows (16 words of 32 slots in the code). In `stream` one payload fits the first buffer and the other does
not, a socket of nine bytes holds the end of one message, a whole one and the
start of a third, and one message can be undecodable at each place. In `messaging` the
fields of the messages are strings, numbers, blobs and arrays of each in every order, lengths
larger and smaller than the first buffer; one of the descriptors the receiver
knows differs from the sender's in a single count, one counts with a signed member, and one has tag 0. Two trackers of one name and
one of each are both there; three handlers make a chain with something before,
at and after the one that goes. In `mdb` three cells are a row, its replacement and
the copy kept for the log; two depths give an inner and an outer transaction;
three changes insert, change and delete one row in one transaction. Five keys let a
sequence that grows by two slots grow twice and shrink again; a use count of
three wraps within five handles; two bits to a bucket let the last bucket go and
come back. In `frontends` six characters hold two words, a quote, an escape and a
comment, a buffer as long as the file can be refilled in the middle of each; four
lines hold a conditional with an `else` and something in one of its branches.

Bounds that are in guards: `MaxLag` (Timers), `MaxDrift` (IoWatch), `MaxMsgs` and
`SocketSize` (Stream), `MaxLog` (Store), `MaxRounds` and `MaxCalls` (Subloops), `MaxTime`
(Superloop), `MaxRaised` (SigHandlers), `MaxMade` (Hashtbl), `MaxChunks`, `MaxDepth` and
`MaxBlocks` (Memory), `MaxDgrams` and `MaxCalls` (Dgram), `MaxLines`
(Console, Config), `MaxLoads` (Plugins), `MaxFile` (Tokenizer), `MaxFields` and `MaxRefs`
(Message), `MaxTrackers` and `MaxChanges` (DbusNames, MdbTrigger), `MaxHandlers` and `MaxSignals`
(DbusHandlers), `MaxEvents` and `MaxFollows` (DbusTransport), `MaxAdd` and `MaxBucket`
(MdbHandle), `MaxEntries` and `Spread`
(MdbHash), `MaxTriggers` and `MaxCommits` (MdbTrigger), `MaxTables`
(MdbTables). `UintSize` (Timers), `TxDepthMax` (Store), `MaxUse` and `Bits` (MdbHandle),
`Primes` (MdbHash), `SeqAlloc` (MdbSequence), `MaskBits`, `EmptyWords` and `Wrap` (Memory), `BufSize` and `MaxArgs` (Tokenizer) and `NDIRECT_TYPE` (DataCodec) are limits
of the code itself, made small.

`CHECK_DEADLOCK FALSE` is set where the modelled part may really stop: a loop
that has quit and was destroyed, a stream that ended, a file that was read, and the
parts whose clients make a bounded number of calls.

**Fairness.** A callback is code that returns, and `mrp_mainloop_run` iterates
until it is told to quit, so each step of the loop is weakly fair
(`FairSpec` of Deferred, Timers, IoWatch and Stream). Nothing is assumed of
clients, nor of the peer. Three assumptions go further, each about the
environment: in Timers the clock does not stop for a loop that polls again and
again (strong fairness of the tick, because the tick is disabled while the loop
runs), and nothing ends an `epoll_wait` without a timeout; in IoWatch a condition
that keeps being true is reported by some `epoll_wait` (strong fairness, because
the event buffer is finite); in Deferred the liveness properties are about runs
in which `mrp_enable_deferred` is not called for ever, because a callback
that enables itself does starve the loop. The other modules state no fairness. What
"must happen" in them is stated of quiet states: when the bus has nothing more to
say, each tracker knows its name's owner; when a walk is over, each handler was
called.

**Client assumptions.** Calls that the code does not survive, and that no check
refuses, are left out where the reader of a property would want it so, and named:

* Store: `Careless` lists an insert-or-replace of a duplicate outside any
  transaction, an update that gives two rows one key, and rolling back a
  transaction that replaced a row of its own. The runs make none of them.
* IoWatch: clients delete the watches of a descriptor before they close it, and with
  `FdReuse = FALSE` each number is opened once.
* Stream: a peer whose write fell short closes; the user gives a `recvmsgfrom`.
* Dgram: the client binds once, before it connects, and does not use a transport it
  destroyed.
* DbusNames, DbusHandlers: in the middle of a walk a callback forgets no other tracker
  and removes no other handler than the one it is called for. The source says so of
  trackers (`dbus.c:386`).
* DbusNames: a client forgets a name it follows. Forgetting another takes away a match
  rule all the same, which may be the one of somebody else's tracker (`dbus.c:458`).
* MdbTrigger: a callback deletes any trigger but its own.
* Hashtbl: the function that frees an entry makes no calls on the table.
* Memory: an object is freed by who holds it, once, and not by its own callbacks.
* MdbHash: nothing; a walk that is left with a freed entry is noted in
  `dangling`, and the property says what holds otherwise.
* Tokenizer: files end with a newline.

## What is proved

Checked by tlapm, for every value of the constants:

| module | obligations | theorem | property |
|---|---|---|---|
| `DeferredProofs` | 4308 | `DeferredSound` | `ListsSound` |
| | | `DeferredEnabledIsQueued` | `EnabledIsQueued` |
| | | `DeferredWalk` | `WalkStaysOnList` |
| | | `DeferredSleep` | `NeverSleepsOnWork` |
| | | `HashtblSound` | `HashtblIsSound` |
| | | `MemorySound` | `MemoryIsSound` |
| `TimersProofs` | 1046 | `TimersAreSound` | `TimersSound` |
| | | `TimersWait` | `WaitsItsInterval` |
| | | `TimersFullSleep` | `FullSleepExpires` |
| `StreamProofs` | 1380 | `StreamSound` | `TransportSound` |
| | | `StreamInOrder` | `NothingLostOrReordered` |
| | | `StreamClosedAfterLast` | `ClosedAfterLast` |
| | | `StreamQuiet` | `QuietAfterClosed` |
| `MainloopProofs` | 3094 | `WatchesAreSound` | `WatchesSound` |
| | | `ListsSound` | all of `WatchesSound` but `LiveWatchIsRegistered`, with `FdReuse` |
| | | `SuperloopIsPumped` | `SuperloopPumps` |
| | | `SignalsHandled` | `SignalsAreHandled` |
| | | `SubloopsServed` | `SubloopsAreServed` |
| `FrontendsProofs` | 2824 | `DatagramsHeard` | `DatagramsAreHeard` |
| | | `ConsolesSound` | `ConsolesAreSound` |
| | | `PluginsSound` | `PluginsAreSound` |
| | | `BusFramesSound` | `BusFramesArrive` |
| `MdbProofs` | 6343 | `TableSound` | `RowsSound` |
| | | `TableIsAMap` | `ImplementsKeyValueTx` |
| | | `HandlesSound` | `HandlesKeepTheirData` |
| | | `TablesReached` | `HandlesReachTables` |
| | | `SequenceSound` | `SequenceIsSorted` |
| | | `HashSound` | `HashIsSound` |
| | | `TriggersSeen` | `TriggersSeeTheirChanges` |
| `DbusProofs` | 8116 | `NamesKnownAlways` | `NamesAreKnown` |
| | | `PeerAlwaysFollowed` | `PeerIsFollowed` |
| | | `HandlersAlwaysReached` | `HandlersAreReached` |
| | | `MessagesSound` | `MessagesAreSound` |
| | | `StructuresSound` | `StructuresArrive` |

`ListFacts` (1130 obligations) has the lemmas that several of them cite: what appending, inserting,
removing, taking from the front and joining leave where, and how many of a kind; that recursive
functions exist; and what sums over finite sets of numbers come to.

The assumptions on the constants are ASSUMEd next to them, and evaluated by every
run: `DeferredsAssumption`, the blocks are none of the list heads;
`TimersAssumption`, blocks are none of the heads and intervals and units are
numbers; `StreamAssumption`, a header and a payload are not empty and the default
buffer is larger than a header; `ConsoleAssumption`, consoles have names of their own
and lines are sequences of words; `DbusCodecAssumption`, a field has its values, one if it is neither array
nor blob, no message has an array of blobs, a structure has members, and a foreign message announces a number of fields;
`HandleAssumption`, a bucket and a use count hold something and no data is `NoData`. `SuperloopIsPumped` assumes that `MaxTime` is a
number. `TimersWait` has one assumption more, that no product of an interval and
the unit reaches `UintSize`. It is needed: an interval of more than 71.5 minutes fires
early in the code. `StoreAssumption` says that what stands for no row, no value and
freed memory is no row, value or content of a row; `IoWatchAssumption` that watches and
descriptors are not NULL, that a process has finitely many descriptors, and that a
watch wants some event; `SigAssumption` that no handler is `"nobody"`, the cursor of no
walk; `TransportAssumption` that a peer's own name is not the one it competes for, and
neither is no address; `SubloopsAssumption` that no subloop is `"end"`, where a walk ends, and that
timeouts are numbers; `HashtblAssumption` that the head of the list is none of the buckets and
every key hashes to one; `SequenceAssumption` that nobody's key is zero; `HashAssumption` that
the sizes there are increase from two to what can be asked for; `TriggerAssumption` that columns
have names of their own, which are none of those the other lists of triggers go by;
`PluginsAssumption` that keys and arguments come in arrays; `MemoryAssumption` that chunks have slots and the
counter of objects has room for as many as fit in memory; and `MessageAssumption` that a field that is no
array has one value, and the length of a string or a blob is a natural number. `DataCodecAssumption` is
the longest. Descriptors are well formed, and the members both ends know under one tag are of the same
types; a guarded array is not one of strings, as its sentinel would be a pointer, which means nothing at the other
end. A client's structures have a value for each member, a sentinel at the end of a guarded array and nowhere
before, and arrays as long as their counts say unless those are negative. The proofs about the catalog of tables, about names and
about handlers on the bus assume nothing of their constants.

Two theorems have a hypothesis about clients, and both are needed: without them TLC
finds the counterexamples described [below](#where-the-code-disagrees-with-its-own-documents).
`WatchesAreSound` assumes `FdReuse = FALSE`: a deleted master that is not unlinked yet keeps
the number of its descriptor, and unlinking it takes away what a new watch has registered
under that number. `TableSound` and `TableIsAMap` assume `Careless = {}`.

**The argument for Deferred.** None of these properties is inductive. That the rings are intact is
not enough to know where an unlink under the cursor leads, so the inductive
invariant `IInv` first says what the rings are: there is a numbering under which
each ring is its head followed by its members in order (`Rings`), and a hook is in
the ring that `home` records (`Homes`). Then what the code relies on without
saying: only allocated blocks are in a ring other than their own, and while the
walk is on, its current and its cached next object are both on the active list and
different from one another until the head is reached (`Walk`). `Sleep` connects the poll timeout
computed by `mrp_mainloop_prepare` with the active list as it was then. What
relinking does to a numbering is proved once, for any ring
(`DeleteKeepsRings`, `AppendKeepsRings`, `MoveKeepsRings`); then there is a lemma for each action, or for each group of actions that
changes the same part of the state, and `NextInvariant` puts them together.

**The argument for Timers.** Two lemmas about sequences say, element by element, what
inserting before a place and deleting at a place return (`InsertAtFacts` and its
like); the place `insert_timer` looks for exists because a set of numbers that is not empty has a least one
(`LeastExists`). Sortedness is only inductive as `Sorted`, over the live timers: the deleted ones stay where
they were while others are rearmed. `Walk` says that both cursors are on the list
and differ, which the property says only of the callback; and `Timeout` carries what
`mrp_mainloop_prepare` computed through the subloops' callbacks to the poll, excusing
the timers that were added on the way (`late`).

**The argument for the hash table.** Entries are numbered as they are made and each chain
ascends, so a walk that has called entry `ep` and is to go on at `en` has called what is below `en`
and not yet what is not (`Positioned`, `Ahead`); what callbacks insert comes last. For the buckets there
is no such order, as a bucket that ran empty is appended again. Which buckets are to come is said by
`Reaches`, on every set of hooks that holds the next one and is closed under `next`: appending a
bucket that is alone takes nothing off what is reached (`RingAppend`), and deleting one takes that one off
(`RingDelete`), so that moving the cursor past a bucket that goes away loses none. Both need the rings to be
intact, and the proof follows them as long as no bucket was appended that was on the list (`torn`). What was
freed is never called even then: that rests on the chains only, and on the cursor of
`delete_from_bucket`.

**The argument for I/O watches.** That every watch is in one place is nearly inductive. What
is missing is where pointers to watches are kept outside of lists: in epoll (`Kernel`,
what is registered is an open descriptor in the name of a master of it), among the
events that wait (`Waiting`, they name different masters, so that handling one, which may free its
master, leaves the others alone) and in the cursors of the walk over a ring (`SlaveCursors`). These
hold whatever clients do with descriptors, and carry `ListsSound`. `Registered` is about what
epoll reports: an open descriptor has one ring, the one whose master is registered, for at least
what each of the ring wants. Deleting a watch has three outcomes, alone on the
descriptor, a slave of another, a master that hands its ring to its first slave, and each is a
lemma about all parts of the invariant (`DeleteAloneFacts`, `DeleteSlaveFacts`,
`DeletePromoteFacts`), stated for what the deletion does to the lists and the registration and used where
a callback's watch goes at once and where `purge_deleted` gets to it.

**The argument for subloops.** That a check is shown only what is ready rests on what the last
check has left being cleared first, by the query of the iteration. So the walks that prepare and
dispatch must leave nobody out (`QuietAhead`): all that the first has passed are cleared, all that
the second is to come to still are, and its next subloop is on the list, or was deleted, and there the
loop is lost. That a check is shown all that is ready needs the descriptors to be
registered where they are first polled (`EpollAgrees`), and the subloop to be polled for what was
ready when the loop woke up (`WokenArePolled`): if that has stopped to be ready and is again, it was
opened anew, and is excused.

**The argument for the superloop.** The descriptor, the timer and the idle callback are
registered and taken back together (`Together`) as long as the superloop was not
cleared from inside an iteration; without it a timer that goes off could enable an
idle callback that is not there.

**The argument for signal handlers.** That a handled signal is blocked (`Masks`) is an equation
between the mask and the live handlers outside of `recalc_sigmask`; inside it nothing is blocked,
and a signal that goes astray then needs a handler to have been deleted before. That each
handler is called needs more than the property says: the next handler of the walk is the one
behind the current one on the list, and no handler that is still owed a call is before the
current one (`Cursors`). When there is no next one, what was appended since is behind it but
was not there when the signal came, and is owed nothing.

**The argument for Stream.** The bytes in the input buffer followed by those in the
socket are the rest of the stream (`Unbroken`): they start where the last delivered
message ended, follow one another without a gap and end with the last message that
was sent to its end, or in the middle of the next one. Within a message `Unbroken`
speaks of any two bytes, not only of neighbours, since from neighbours alone the last
byte is reached only by induction. Two lemmas about sequences carry the proof:
`UnbrokenSend`, sending extends the rest of a stream, and `UnbrokenTake`, a rest as
long as the message it starts with holds all of that message, and without it starts
with the next one. A read moves the border between buffer and socket and leaves the
two together unchanged (`ReadKeepsRest`). The inductive invariant `IInv` adds what the
loop relies on: it only reads when no whole message is left (`Parsing`), so an empty
socket at a hangup means that everything was delivered, and a full buffer has to grow;
a destroyed transport is found only in a callback or outside of the loop, without
its watch (`Phases`); and what was known when the stream ended stays true while
the user is being told (`Ends`).

**The argument for datagrams.** What waits in the socket comes after what was heard
(`Told`), but for a datagram too short to be taken, which is heard of again each time
and keeps those behind it waiting. `Waiting` ties each datagram to the peer it will be
reported for: the kernel filters by peer only since the socket is connected, which
is why the property excuses the ids that came before (`early`). `Busy` counts the one
callback that can run, so that freeing at zero is freeing in no callback.

**The argument for consoles.** `Running` says of the command that runs what the input
handler established before it called it: its console is counted twice, the command
is one of its group, and a word of the line names it unless it was selected. `Settled`
says of all other consoles that nothing is half done. What needs stating and is in no
property: the console that datagrams share is connected to nobody between two lines.

**The argument for the table.** `RowsSound` needs to know where every row is that is not in the
table (`Books`): a row that a log keeps, that a commit is reporting, or that was lost, is in
memory, is not linked, and is one of these only, once. Then no undo can free a row that something still
points at. What undoing leads to cannot be read off a state, since it is computed
by as many steps as the log has changes; `Replay` says it without a recursion: there are
snapshots of memory and index, one for each change of the log, the first being the table as it is and
the last one holding what the table held at `begin`, such that each change undone leads from a snapshot to the
next (`Undone`). A new change puts one snapshot in front, a rollback takes the first
away (`ReplayNext`), and when the log is empty the table holds `base`, which is what
`KeyValueTx` demands of a rollback. Undoing an insert-or-replace copies the old contents to the cell of the
new row, so the older snapshots were taken of other cells than those they are now found in;
`ReplayExchanged` says that exchanging two cells which no older change mentions
does no harm. A change that replaced a row written in the same transaction
is mentioned, and is what `Careless` leaves out.

**The argument for names on the bus.** The property is about quiet states, when everything the bus
sent was dispatched. The invariant `Informed` says what leads there: of the news on their way
to a tracker, which are the answer to its query and the signals about its name, the newest says who
owns the name now; when there are none, the tracker was told. A tracker whose query the bus has
not answered, and one whose query timed out, are excused. The news in front of the
queue are on their way only to those trackers the walk has yet to come to (`ToVisit`), which is
why the place of the walk is part of it (`Walks`): the next tracker is the one behind the
current one, so one step of the walk takes exactly one tracker off (`WalkAt`). A message
taken out of the middle of the queue, the answer to a cancelled call, shifts the news and keeps
their order (`NewsShifted`), and is news to a tracker that is being forgotten only. `Held` counts the
answers: a call that libdbus holds has at most one, which is why a zombie is
freed once. That there are as many match rules as trackers of a name (`Listed`) is
a cardinality that appending and removing change by one.

**The argument for transports on the bus.** A connected transport has one tracker and no other has any
(`OneTracker`), until it has forgotten a name it did not follow: it forgets by the address it
has by then, which is the owner's and not the name's once the peer was resolved
(`missed`, one of the [disagreements](#where-the-code-disagrees-with-its-own-documents)).
`Tracked` says of this tracker that all news for it name connections that have had the
name since the transport connected, since the number of a tracker is
never given again and no older news can be for it, and `NewsOfPeer` that the newest say who
has it now. What is delivered was checked against an address that came from such news, so it is
from one of them; and a transport without a tracker is told nothing, so nothing can call
it back.

**The argument for handlers on the bus.** The handlers of a chain come in a strict order, by
specificity and then the newest first (`Before`), and `HandlersInOrder` says that every chain
is sorted by it. So the first match of a method is its best, and where a walk
has got to in a chain is said without places: it has yet to come to the handlers that are not before
the one under the cursor (`Coming`). Subscribing and unsubscribing then change a set, and
`NextFacts`, the hook behind a handler is the first of those after it, is all that is
needed of the sequence. `WalkSound` says of every handler that is due that it was called
once if the walk has passed it, and not yet if it has not. A subscription the bus refuses
leaves the chains as they were (`AddDelFacts`), since the handler looked up again is the one that was just
put in. `RulesCounted` is a cardinality: a rule and its variant with an argument are
counted together, because a handler does not say which of them it came with.

**The argument for the catalog of tables.** Handles and the names of `mqi.c`, tables and the names
of `table.c` are four maps that change together but for what fails half-way. `HandlesAreTables`
says that every handle is there for a table with the name it was given, and that a table
without a handle is an orphan; `NamesAreHandles` that a name leads to the handle given
for it, unless a create that failed has taken it away (`overwritten`); `TablesAreNamed` that the
hash of `table.c` has an entry for each table, whatever stale ones it has besides. The
count of tables is the cardinality of their set, so that dropping the last one is seen.

**The argument for handles.** No handle of an index has a use count above that of its entry
(`Counted`), so whoever gets the index next has a handle nobody had before, unless the
count has outgrown the handle; and a handle with the whole count of its entry is the only one
that has (`Exact`). What the buckets say is only needed to be about indexes, which is why memory
that others overwrite does no harm to handles.

**The argument for the sorted table.** A search by halving that is asked for a place in an
increasing array stops next to where the key belongs (`SearchFinds`): the search is a recursive
function, which exists because its argument gets smaller (`RecursionExists`), and if it went wrong
anywhere there would be a shortest range where it does, which its two halves exclude. `SequenceInv`
needs little beyond that: the slots in use increase and hold the keys there are, as
many as are counted. That a walk returns keys in order rests on its copying them.

**The argument for the hash table of the database.** `get_table_size` is unfolded in the same
way, to show that there is a chain for every hash. A key is on the chain it hashes to and on the list of
entries, once on each, which `HashInv` says of the chains and the list together; what a walk has yet to
return is on the list from its pointer on (`OnWalk`), unless that entry was freed.

**The argument for triggers.** A commit reports change by change, list by list and trigger by
trigger. `Past` says which of what is reported is behind the place where that has got to. All calls
made are behind (`CallsAreBehind`), so none is made twice; and each trigger that is in a list behind
and was there since the start was called (`NoneMissed`). Triggers are numbered as they are added and
lists ascend, so what a callback adds or deletes moves no trigger from one side to the other; the trigger called
is on its list until its callback returns (`CallIsInList`), since no callback deletes its own.

**The argument for plugins.** An instance counts for its descriptor from when it is looked up until
it is unloaded (`LoadsAreCounted`): the count is a cardinality plus the loads that
failed after they were counted. `WalkIsSound` is about `mrp_start_plugins`: all before the cursor are
started, the one behind it is the one that was looked up before the callback, unless it was the head
of the list then. What `parse_plugin_args` does to the arguments is a loop written as a
recursive function, followed step by step (`CountingUp`, `StepsExist`).

**The argument for memory.** That the debug allocator counts right is `HeadersAreCounted`: the number
and the sum of the headers are those of a function on a finite set, and a sum changes by what is added
to the set or taken from it (`SumFacts`). The pools need two things to be known together. `ChunksSound` is
about the chunks: the cached word of each tells which words of its mask have a free slot, each is on one of
the lists, those with space have a slot to give. `UseSound` is about the slots in use: each is held or belongs
to a callback that runs, never both, and no two callbacks have the same one. An allocation therefore
takes a slot nobody has, a chunk without a slot in use can be freed, and a call that goes on after its
callback gives back what is its own. The counter agrees with the sets until an object is refused, and
since a `size_t` can count what fits in memory it does not wrap.

**The argument for messages.** The wire is a sequence of items with widths, and the reader counts bytes,
so the invariant ties the two together: `Written` says which items of the buffer are those of which field,
by sums of the fields' lengths (`StartFacts`), and the decoder with `d` fields read stands at the place
where field `d` ends, with as many bytes left as the items after it are wide (`ReadAt`). One pull then gives the
next item (`PullReads`), a loop over the values of a field all of them (`PullValuesReads`), and the next turn the next field
whole (`FieldReads`) or, past the last one, an error (`HeaderEnds`). This holds wherever the array decoder has left the counter of the outer loop:
the counter decides only when the loop ends, so what is decoded is a beginning of what was sent in any
case, and all of it as long as the counter agrees with the number of fields, which is what `Lucky` makes it do.
That the buffer has room (`PushFacts`) rests on `mrp_msgbuf_ensure` asking for what is missing,
and not for one chunk.

**The argument for frames on the bus.** A frame of ours is its sender, a header and the arguments of one field
after those of another, so where a field begins is a sum of lengths (`HasFields`, proved of what the encoders
build in `FieldsAreIn` and `FrameFacts` from what joining a list of sequences leaves where, `FlattenFacts`). The
invariant `BusInv` says that the decoder is at the beginning of the field it turns to, and that what it has decoded is
as many fields as it took turns: all of them what was sent, as long as both ends agree on the types
(`ReadSoFar`). One turn there reads one field and nothing else (`TakeFacts`, `TurnFacts`). What gives up
leaves nothing to the client (`GivesUp`), and it gives up on what we sent only for a reason
`BusArrives` names: blobs inside a structure, ends that disagree, a header that was refused. Of what others send the invariant knows
only the counts, which is enough for all or nothing.

**The argument for structures.** The frame is the members one after another, so a member begins where the sum of
the lengths of those before it ends (`LaidOut`, from `FlattenFacts`). The decoder in turn `turn` stands
at `Place(turn)` and has exactly that many members, each what was sent as long as the two ends agree (`Decoded`), and the heap holds the structure and the
blocks of these members (`Stored`). How long an array is depends on its guarded items or on
its count alone. Registration asks for the count to come before the array (`CountFacts`), so when the
array's turn comes the receiver computes from what it has decoded what the sender computed from
the whole structure (`SameSize`). One turn then takes the items of one member (`TurnFacts`), and one that fails does so
on a blob or on ends that disagree, which `DataArrives` excuses. Freeing goes through the members
registration has marked as allocated, which are those with blocks (`IsType`).

**Only model-checked:** the modules without a proof module (Tokenizer, Config, MdbCond). They
are written with recursive operators, which tlapm cannot reason about; recursive functions are
within its reach, by the lemmas of `ListFacts` that say they exist. Out of reach as well are liveness
(`ServedOrFreed`, `TimersServed`, `WatchesServed`, `MessageArrives`) and induction over data that
is not numbered.

## Where the code disagrees with its own documents

Each is a run that TLC refutes, listed under `findings`.

* `iowatch_leak`. A watch that is alone on its descriptor is unlinked when it is
  deleted and put on no list, so it is never freed (`mainloop.c:350`); the comment
  at `mainloop.c:117` says that all deleted entries are.
* `subloops_walk`. The comment of `mrp_del_subloop` (`mainloop.c:794`) says that a
  subloop can be relinked to the deleted list safely, since the list of subloops is
  not traversed. It is (`mainloop.c:1398`): when a callback deletes the subloop the walk has
  looked up as the next one, the walk goes on along the deleted list and takes its head for a
  subloop.
* `mdb_nested`. `txdepth` is never decremented: after an inner transaction was
  finished the outer one can be neither committed nor rolled back, and fifteen
  transactions are all a process can begin (`mqi.c:429`).

Met while modelling, kept in the models as the code has them, and reached by
giving a constant another value in the `.cfg`:

* `FdReuse = TRUE` (IoWatch): a callback deletes its watch, closes the descriptor and
  adds a watch for a new one with the same number; the delayed deletion then removes the
  new watch's registration (`mainloop.c:379`). `LiveWatchIsRegistered`, of `WatchesSound`, fails.
* `Careless = {"rollback_replaced"}` (Store): rolling back a transaction that replaced a
  row it had inserted itself follows the log to a freed row (`index.c:247`).
  `LogNeverDangles`, of `RowsSound`, fails. So it does with `"duplicate_key"`, an update that gives two rows
  one key and frees one of them (`row.c:132`); with `"replace_outside"` an insert-or-replace
  outside of transactions fails after its row was linked (`index.c:235`), and the rest of `RowsSound` fails.
* `RecvFrom = FALSE` (Stream): a `recvmsg` callback that disconnects while another message
  is buffered makes the loop call a `recvmsgfrom` that was never given
  (`transport.c:583`); the model stops there, with `pc = "broken"`.
* `UintSize = 2` (Timers): `msecs * USECS_PER_MSEC` is a 32-bit product, and a timer
  whose interval makes it wrap fires early. `WaitsItsInterval` fails.

And those a property excuses by name, so that it says what holds otherwise:

* A deferred callback deleted while inactive is freed only by `mrp_mainloop_destroy`.
* A rearmed `next_timer` is compared with itself and goes stale (`mainloop.c:444`), which
  delays timers but loses none.
* A subloop that asks for the descriptors it asked for before is not registered anew
  when one was closed and opened again (`mainloop.c:1176`, `reopened`), and a subloop
  without a timeout hides those of the others (`mainloop.c:1237`).
* A bucket whose last entry was removed outside of a walk is appended to the list of
  buckets it is still on (`hashtbl.c:179`): the ring is torn, and after a reset a walk
  can come upon a bucket alone in its ring and never leave it. The verdict that
  `mrp_htbl_remove` leaves for the entry being walked is kept for those that follow
  (`hashtbl.c:280`), which are freed and stay hashed. `MRP_HTBL_ITER_STOP` is 0 and stops
  nothing (`hashtbl.c:330`); to unhash is to free, as the bits overlap (`hashtbl.h:90`).
* `mrp_objpool_free` uses what it read before the cleanup callback (`mm.c:676`): a full chunk
  can keep a slot no allocation finds. An object whose setup fails is uncounted though it was
  not counted (`mm.c:648`). A chunk can only be given back if it has exactly 16 words
  (`mm.c:904`), and with objects too large for a chunk the pool divides by zero
  (`mm.c:707`; `ObjectsFit` says from which size on). The debug allocator links the
  header that `realloc` has moved away from (`mm.c:171`), and takes a block that was made before
  it was switched on for one with a header.
* Deleting one signal handler unblocks all signals for a moment (`mainloop.c:696`).
* What the callback of the last change of a table log writes is dropped with that log.
* Decoding an array field of a message overwrites the counter of the loop over fields
  (`msg.c:838`): a message with arrays arrives cut or not at all unless the lengths
  happen to fit (`Lucky`). A structure whose decoding fails loses its arrays
  (`msg.c:1570`), and one with a blob is never decoded (`msg.c:1250`). A blob whose count is below
  -1 passes the check for -1 and is copied as far as memory goes (`msg.c:1253`).
* A D-Bus structure that fails to decode is lost or freed by a wrong tag
  (`dbus-transport.c:1612`); a transport disconnected after its peer was resolved forgets
  nothing and is called back (`dbus-transport.c:591`).
* An emptied chain for a member hides the handlers for any member (`dbus.c:686`).
* A plugin loaded by the init of the last one is never started (`plugin.c:357`), and a load
  that fails after it was counted keeps a singleton from being loaded (`plugin.c:169`).
* After an error a datagram transport counts as connected and its socket is not
  (`dgram-transport.c:357`).
* In a condition `or` binds stronger than `and`, and parentheses after an operator corrupt
  the stack (`cond.c:221`); a delete of a missing key may find it among what is left over in
  a sequence (`sequence.c:221`); the buckets of the handle map are reallocated and the result
  is not stored (`handle.c:334`); a failed create takes the name of the table that has it
  (`mqi.c:535`).

## What is not modelled

`PROJECT.json` lists every part with its reason. In short:

* Logging, debugging and the file utilities have no state a property could be about, or none
  the rest of the daemon relies on.
* The pumps for D-Bus and PulseAudio are clients of the main loop that do, inside callbacks, what
  Deferred and IoWatch let every client do.
* The console client, the shipped demonstration plugins, the command line and the help
  texts only read, print and call.
* MQL's parser, precompiled statements and result sets are data for the operations Store,
  MdbTables, MdbTrigger and MdbCond have.

Within the modelled parts: `mrp_objpool_destroy`, a sequence of frees after which the chunks
are forgotten; creating, accepting and connecting a stream (its initial state
is a connected one), its raw and custom modes; several tables in one transaction, tables
without an index, updates that move a key column that is not the first, `select`; opening
a connection to the bus. Freeing what was parsed of a refused configuration file
follows hooks nobody initialised, so Config ends there.

## Plan

The main loop, the transports, the messages, the D-Bus layer, the daemon's front ends
and the database are modelled. What is left, by how much depends on it:

1. An abstract channel with an end, for Stream and Dgram to implement, and the life
   cycle of listening stream transports in front of it.
2. Several tables in one transaction.

## Running it

```
tlc -workers 2 -config MCMdb.cfg MCMdb          # one run
tlapm DeferredProofs.tla                        # one proof module
```
