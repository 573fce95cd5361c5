# net-snmp-rs in TLA+

A verification project for net-snmp-rs: TLA+ models of the agent, of the client sessions that
talk to it and of the parts around it that keep state under concurrency and failure or carry
data across a wire; TLC configurations that check them on small instances; and TLAPS proofs of
the core invariants for instances of every size. Paths below are relative to the repository;
`agent/` is `crates/netsnmp-agent/src/`, `lib/` is `crates/netsnmp/src/` and `apps/` is
`crates/netsnmp-apps/src/`.

## The system

| Part | Source | State | Operations |
|---|---|---|---|
| SET engine | `agent/registry.rs`, `agent/handler.rs` | none of its own; handlers' state | `process_set`: write-view check, Reserve1, Reserve2, Commit, Undo |
| Read dispatch | `agent/registry.rs` | the handlers in root order | GET, GETNEXT, GETBULK over roots and views |
| Scalars and maps | `agent/scalar.rs` | values under a lock each | get, get_next, prepare/commit |
| RowStatus, table data set | `agent/row.rs`, `agent/helpers/table_dataset.rs` | rows of cells under one lock | put, remove_row, prepare/commit, row verbs |
| VACM | `agent/vacm`, `agent/mibgroup/vacm.rs` | four access tables | view resolution, edits, directives |
| AgentX master, subagent | `agent/agentx/master.rs`, `subagent.rs` | sessions, registrations, packet ids, pending requests | connection tasks, owner lookup, forwards; connect, register, notify, run |
| AgentX codec | `agent/agentx/protocol.rs` | none | encode, decode, framing |
| Message processing | `agent/agent.rs` | engine boots and time | decode, authorise, time window, dispatch, Reports |
| Daemon, persistence | `apps/bin/snmpd.rs`, `agent/persist.rs` | the process, two files | start, restore, serve, save, stop |
| Sessions | `lib/session` | request ids, v3 engine state | request, retry, discovery, resynchronisation, walk |
| Shared UDP, transports | `lib/udp_shared.rs`, `lib/transport.rs` | route table, half-read messages | send, route, receive |
| SMUX | `agent/smux.rs` | peers, subtrees, one response slot per peer | open, register, forward, tear down; BER |
| Notifications | `agent/notify`, `agent/trap`, `lib/trap.rs` | three configuration tables, the log | send and fan-out, receive, acknowledge, forward |
| DISMAN, alarms | `agent/disman`, `lib/alarm.rs` | triggers, schedules, expressions, timer tasks | add, remove, sample, fire, cancel, evaluate |
| MIB modules | `agent/mibgroup` | handlers over samples of the machine, scripts | build cells, register, run a script |
| MIB parser | `lib/smi`, `lib/mib.rs` | name and object tables | load a file or a directory |
| The rest | configuration files, callbacks, hardware readers, command line tools | none that outlives a call, or only the caller's | text and system calls |

How they meet: `snmpd` binds one socket per address and spawns one serve loop
(`Agent::serve_on`) for each, all over one `Arc<Agent>`; so several requests run through the
registry at once, and handlers see their calls interleaved. A handler may forward (proxy,
SMUX, AgentX, pass scripts), and the forwarders of one connection share its socket with the
connection's reader task. The embedding program calls table methods beside all of this;
DISMAN's timers call the agent back, and its events send notifications through the originator.
A session and an agent meet over datagrams or a stream.

What is hard: no lock is held from a validation to the store it justifies; several varbinds
commit one after another and cannot be rolled back; a connection's reader, its writers and
its peer end independently of one another; answers arrive after the asker has given up;
tables are copied and used while they are edited; and a restart meets what the last run left
behind. The full list, by line, is under `hazards` in `PROJECT.json`.

What makes each part correct:

* SET engine and tables: no interleaving yields a state a single SET could not justify
  (active rows complete, types kept, rows created once); a request alone is all-or-nothing;
  every request is answered.
* Read dispatch and MIB modules: a walk visits every accessible instance that stays, in order,
  and ends; what it names can be fetched.
* VACM: a decision is one that the tables justify, however they are edited meanwhile.
* AgentX, SMUX, pass scripts: answers reach the request they answer; registrations live as
  long as their connection; every forward ends; what one end writes the other reads.
* Sessions: a request returns the answer to itself, or fails for a reason; the time window
  holds. Persistence: a crash leaves the old value or the new one.
* Notifications, DISMAN, alarms: each event reaches each target configured when it fired; a
  trigger fires once per crossing; an enabled schedule fires and a removed one does not.
* MIB files and expressions: a text means what its declarations or its grammar say.

## Modules

Modules of the agent's core:

`RowStatus` is `row.rs`: one operator per verb and `Transition`, which returns the stored
status, `Destroyed` or an error status.

`RowLifecycle` is the abstract specification of a conceptual row: a status and one bit, the
required columns are there. A row comes into being at most once between two destructions,
becomes active or ready for service only when complete, and never loses a required column
except by being destroyed.

`SetTransaction` is `process_set` and the handlers it drives. A *worker* is a serve loop; a
step is one handler call, which takes and releases that handler's lock.

| Definition | Code |
|---|---|
| `Receive` | `process_with_access`, SET branch: the write view is checked for all varbinds first |
| `Reserve1`, `Reserve2` | one `prepare_set` call; the first refusal answers the request |
| `Commit` | one `commit_set` call; a failure is remembered and the rest still attempted |
| `Undo` | `undo_set` on the committed varbinds (the default, a no-op, everywhere), then the answer |
| `Put`, `RemoveRow` | `TableDataSet::put`, `remove_row`, called by the embedding program |

Varbinds are classed by the handler their OID resolves to: a scalar instance, a RowStatus
cell, another cell, a proxied object (only `set` overridden, outcome open), a read-only object
(nothing overridden: the default `prepare_set` accepts and the default `set` refuses in
Commit), or no handler. Values are abstracted to their SMI type and identity. `before` is a
history variable: the MIB when a request came in that met no concurrent change.
`put` to the RowStatus column itself, tables without a RowStatus column and malformed
instance OIDs are left out.

`Retain` is Rust's `Vec::retain`, by which the tables of AgentX and SMUX lose the entries of a
session or a peer: the elements at a set of positions, each at its rank.

`AgentX` is the master with its subagents. A *connection* is the life of one subagent
process; `task` is the master's `handle_connection` for it; a *forwarder* is a caller of
`forward_get`, `forward_get_next` or `forward_set`. Sockets are queues; a write fails iff the
peer's end is closed, the master's writes wait while `Buffer` PDUs are unread (`Writable`), and
what a process wrote before dying can still be read. What the subagent reads is not what was
written: `Decoded` is `decode_body`, which makes a Get of a GetNext.

| Definition | Code |
|---|---|
| `First`, `Answer`, `Read`, `ReadEnd` | `handle_connection` and `assign_session`; `Answer` is every `send_response(..).await?` |
| `AddRegistration`, `RemoveRegistration`, `ReclaimSession`, `OwnerFor` | the methods of the same names; the stable sort and the first-minimum rule included |
| `Ask`, `Enter`, `Write`, `Finish`, `Timeout` | a forward call between its await points: owner lookup, session and packet id and pending entry, write, answer, `FORWARD_TIMEOUT` |
| `Connect`, `Opened`, `MakeCall`, `CallReturns`, `Run`, `ServeRequest`, `SubEnd` | `connect_unix`, `register`/`notify`, `run` |
| `Die` | the process ends (external) |

`acked` and `clean` are history variables: the subtrees whose `register` returned Ok, and
whether any call took a forwarded request for its answer.

`ReadDispatch` is GET, GETNEXT and GETBULK over the registered handlers, and the manager's
side of a walk. A step is one handler call. Handlers are *live* (`ScalarHandler`,
`MapHandler`, `TableDataSet`, `Watcher`), *cached* (`FnHandler`, `TableHandler`,
`CacheHandler`) or *foreign* (`PassHandler`, `ProxyForwarder`, SMUX peers: any answer or none).
GETNEXT is GETBULK with non-repeaters only, and GETBULK's loop position is read off the answer
so far: `Cursor` and `Exhausted` replace the code's cursors and counters.

| Definition | Code |
|---|---|
| `GetOne` | one variable of a GET: view check, `handler_for`, `get`; a refusal answers the request |
| `SearchNext`, `Advance` | one `get_next` call of `do_get_next` and what `do_get_next_accessible` makes of it |
| `NonRepeaters`, `Repeaters`, `Cursor`, `Exhausted` | the loops of `process_bulk` and `process_bulk_accessible` |
| `Cells`, `Snapshot`, `Expire` | the `snapshot` methods and their time to live |
| `StartWalk`, `Progress`, `Takes`, `Reply` | `walk_each`, `bulk_walk_each`, `walk_stream`, `V3Session::walk` |
| `Poll` | any other request of a manager |
| `Change`, `Reconfigure` | instances come and go; the VACM tables give the caller another read view |

`stable`, `named`, `quiet` and `foul` are history variables: the instances that were there,
served and readable since the walk began; the OIDs readable at some time during the request;
whether the request met no change and no foreign answer; whether a foreign handler answered
outside its subtree or backwards during the walk.

`Vacm` is the access control tables and the check a serve loop makes for each varbind. A step
is what happens under one lock acquisition, and `held` is the read locks a check keeps, which
writers wait for. Group, view and context names are sequences, so that prefixes mean
something; a view's mask is a sequence of bits.

| Definition | Code |
|---|---|
| `IsEmpty` (`Look`), `Map`, `Select`, `Match` | `is_empty` table by table, `group_for`, and steps 2 to 4 of `is_view_accessible` |
| `WriteGroup`, `WriteAccess`, `WriteView`, `WriteContext` | the `add_` and `remove_` methods |
| `StartClear`, `ClearNext` | `clear`, one table after the other |
| `Load`, `Apply` | `from_config_directives` and the `apply_` functions, on directives already split and parsed |

`mapped` is a history variable: the groups the caller had at some time during the check.
`SetTransaction` and `ReadDispatch` take the outcome of a check as one step; that a check is
nevertheless not atomic is what `Vacm` is about.

Modules of the process, its sessions and its neighbours:

`Daemon` is the life of an snmpd process with one writable scalar: `Start` reads the
configuration, restores what was saved over it and opens the sockets, a serve loop may end on an
error (`ServeFails`), the signal handler runs `save` as `Signal`, `CreateTmp`, `WriteTmp` and
`Rename`, and `Die` may come between any two of these. Texts are classes (`plain`, `spaced`,
`quoted`, `control`, `binary`), which is what `escape` and the parser tell apart.

`Secure` composes a v3 session with that agent: `EXTENDS Daemon`. A message is a record with the
user, keys, engine boots and time it was made with; digests and ciphers are equality of keys.
`Handle` is `handle_v3` up to its answer; `Open`, `Begin`, `Send`, `Receive` and `Timeout` are
the await points of `V3Session::request` and of discovery. Datagrams sit in sets and may be
dropped, doubled and overtaken. `call.disturbed` and `executed` are history.

`Session` is the request loop of a community session, and of a v3 session as far as it is the
same, over three transports. `Begin`, `Send`, `Take` and `AttemptFails` are the steps of one
attempt, and a send on a stream waits while `Backlog` messages are unread (`Sendable`); `AddRoute`,
the receive task and the `slot` are `udp_shared.rs`; `reading` is a stream
whose header has been read and whose body has not, the state in which a timeout may drop the
future. `call.late`, `call.foreign` and `cut` are history.

`Smux` is the SMUX server. `conn` is `handle_connection`, in which a registration takes effect
(`Register`) before it is answered (`Reply`); `Read` is the reader task, which puts
answers into the one `slot` and the rest into the bounded channel; a `Thread` is a caller of
`forward_roundtrip`: it drains the slot, writes, waits, gives up. Peers answer, stall, go away
and send registrations of their own accord. `fwd.mixed` is history: the forward overlapped
another to the same peer, or an older request was unanswered.

`Notify` is `NotificationOriginator::send`, with the three tables it copies one after another
while another thread adds the rows of a directive, the datagrams and acknowledgements, an inform
that is given up after its attempts or at once on a receive error (`InformFails`), and the
trap receivers with their checks, their log and their forwarding sink. `seen` and `oks` are
history.

`Disman` is `DismanSchedule` and `DismanEvent` over `AlarmRegistry`. An alarm is its worker
task; a management call and `poll_once` are split where they release a lock. An entry is *gated*
when it has no interval and its calendar does not match every minute; a wake-up of its alarm does
nothing unless the calendar matches then (`WakeAtMatch`). Entries and triggers may be disabled. `overlap`,
`above`, `twice` and `acted` are history.

Modules of the conversions:

`MibTables` has one operator per builder of cells, `m |->` the set of OIDs it makes on machine
`m`; `MibWalk` the `register_` functions over them, `Registry::register` and a walk.
`AgentxCodec` and `SmuxCodec` are the two wire formats to the octet, with the framing of the
stream they arrive on (`Decoding` is what their decoders share). `Pass` is the dialogue with a
script line by line, its lock, its pipe, its death and its replacement, and the splitting of a
command into words. `Expression` is the lexer's tokens, the recursive descent, the evaluation,
which looks up one reference at a time (the parser runs on what was `seen` so far and stops where
it `Asks` for more), and the table's read lock. `MibNames` is the MIB parser from its tokens on, the two resolvers
and the registry that files are loaded into.

`Oid` is the order of object identifiers (`lib/oid.rs`). The `MC` modules give the constants
their values; `MCFormats` puts the conversions, which share no state, side by side: a
behaviour runs one of them.

`SetTransaction`, `RowLifecycle`, `AgentX`, `ReadDispatch`, `Vacm`, `Session` and `Secure` state
a type invariant `TypeOK` (`Daemon`'s is `DaemonTypeOK`). The cfgs do not list them:
`SetTransaction`'s is proved, and the others hold in their runs when added to the cfg.

## Runs

| Run | What it shows | States, time |
|---|---|---|
| `set_alone` | `AtomicWhenAlone`: a SET that meets no concurrent change, whose varbinds address different objects and whose handlers validate, is all or nothing | |
| `set_concurrent` | two serve loops and local calls racing for a row and a scalar: `ActiveRowsComplete`, `ScalarsGuarded`, `CreationIsExclusive`, `ImplementsLifecycle` (refinement), `EverySetAnswered` | |
| `set_undo` (violated) | `FailedCreateUndone`: the design notes say Undo removes a created row; no handler implements undo | |
| `agentx` | a subagent, its restart and two forwarders: `RegistrationsHaveSessions`, `RepliesMatch`, `PendingIsAwaited`, `RegisterOkMeansRegistered`, `EveryForwardCompletes` (or is writing to a full socket for ever) | |
| `read` | a cached table, a live scalar and a foreign subtree under a walking and polling manager: `StableVisited`, `OnlyReadableNamed`, `AnswersMatchMib`, `EveryRequestEnds` | |
| `vacm` | one check against two threads that edit and clear, and files with repeated community lines (`rw`, `ro`, `rw` of one community): `OpenOnlyWhenEmpty`, `GrantsAreCurrent`, `CommunitiesAsConfigured` | |
| `session` | two sessions on three transports: `OkIsMine` (Ok is the answer to my request), `FailureHasCause`, `WaitingHasRoute` (no community session loses its route), `EveryRequestReturns` (or is sending on a full stream for ever) | 231 thousand, 46 s |
| `secure` | a v3 session and an agent that crashes, saves and restarts: `RestartServesSaved`, `ExecutedInTime`, `UndisturbedCallSucceeds` | 5.8 million, 2 min |
| `smux` | two peers and two forwarding threads: `AnswerIsMine`, `SubtreesHavePeers`, `ForwardsReturn` | 1 million, 2 min |
| `notify` | a sender, an administrator and two receivers, one forwarding to the other: `FanOutComplete`, `InformOkWasSurfaced`, `LogIsRecent`, `SendsReturn` | 327 thousand, 90 s |
| `disman` | one schedule entry under two managing threads; one trigger under two pollers: `OneAlarmPerEntry`, `OneFirePerRise`, `EnabledEntryFires` (without a calendar) | 1.4 million, 2 min |
| `formats` | the conversions: `OnlyNestedSkipped` (what a walk may pass over, and that what it names can be fetched), `CodecsReadBack`, `PassAnswersMine`, `CellsDenote`, `NamesDenote` | 590 thousand, 65 s |

Several of these properties carry an exception, which is what the code does and not what one
would wish: see Disagreements for what lies behind each.

### Bounds

`set_alone` has one worker, one row with a required and a read-only column, a writable and a
read-only scalar, and requests of up to three varbinds: every verb alone, every refusal of the
reserve passes, failures of the commit pass. `set_concurrent` has two workers, which is what a
check-then-act race needs, and requests of up to two varbinds; the proofs lift its safety
properties to any number of workers, rows and requests. `agentx` has two connections (one
restarts the other), two forwarders, and `Calls` bounds what each subagent sends, each PDU
once; `MaxPackets` bounds the packet ids of a session at 2, and `Buffer` is 2, so that a socket is
full with an acknowledgement and a request, or two requests, unread. Neither bounds the interleavings,
the deaths or the timeouts, and the proofs lift all four invariants to any number of both. `read` has one client: clients share nothing but the snapshots,
which this client's own walks and polls fill too. What it leaves out, another client filling a
snapshot in the middle of a walk, is covered by giving `Clients` two members, the first two
handlers only, `WalkRoots = {<<1>>}`, `MaxReps = 1` and no polls: the safety properties hold
there as well. The foreign handler may answer with an OID of its own subtree or one of the
first handler's, which covers answers that go back, stand still and leave the subtree;
`MaxReps` is 2 so that a repetition can follow another. `vacm` has one check, since checks meet
only through read locks, which do not exclude each other, and two administrators, so that a
refill can overlap a `clear`; the proofs lift both numbers.

`session` has two sessions where they meet (the shared socket) and one elsewhere, two calls of
the first so that the late answers of one meet the next, one retry, one duplicated datagram, and
ids that wrap at 6; `Backlog` is 3, the head and the body of one message and the head of the
next. `secure` has two starts (a restart), two calls, one retry, one duplicate, a
clock of 2 with a window of 1, so that a request can be inside the window, at its edge and
outside, and two texts, one of which the file has to escape; the proofs lift all of these. `smux` has two peers (one of which
may stall), two threads with one forward each, two PDUs of the first peer's own accord and one
of the second's, a channel of capacity 1 so that the reader blocks, and `Entries` that allow the
first peer one of the two subtrees it asks for. `notify` is configured with a v2c target that
cannot be reached, a session without an address and an inform target; a v1 and a v3 target are
added meanwhile, the first receiver forwards to the second, and a stray GET reaches the trap
port; two attempts, a log of 2 and indices that wrap at 4. `disman` has two rows so that one
replaces the other, three alarms, four polls and levels on both sides of the thresholds.
`formats`: machines from bare to full, PDUs of every type with numbers at the edges of their
widths, two PDUs in a row, scripts of every kind that keeps in step, all texts of up to two
tokens and the longer ones about precedence, two loads of one or two of six MIB files.

Deadlock is checked in the runs of the core, where a serve loop can always receive. In the
others it is not: their counters are bounded, a process may stay down for good, and the last
file is the last. That calls return is checked there as liveness instead.

### Fairness

`SetTransaction`: weak fairness of each worker's handler calls, which are synchronous and hold
no lock across calls. `AgentX`: weak fairness of each connection task and of each forward call,
timer included, since they are tokio tasks that run when they can, and strong fairness of the
write of a forward: it waits for tokio's Mutex, which is handed on in the order of arrival, so a
forward that waits for room again and again gets it; nothing is assumed of
subagents, which may stop, stop reading or die anywhere. `ReadDispatch`: weak fairness of the handler calls
of a request and of the manager's taking of its answer (a session's timeout would end a walk as
well); no fairness of changes, expiry or foreign goodwill. `Session`: weak fairness of the
steps of a call, of which the deadline is one; none of network or agent. `Smux`: of the
threads; none of the peers, and none is needed of the tasks of their connections. `Notify`: of the senders,
whose informs have a deadline; none of network or receivers. `Disman`: of the management calls
and of each alarm's task; nobody has to call, and no wake-up has to meet a minute its calendar
names. `Vacm`, `Secure` and the conversions state none.
A write to a peer that is alive but does not read blocks, in `AgentX` when the socket is full, in
`Session` when the stream is, in `Smux` from the moment the peer stalls; no deadline of the code
covers it, so the three liveness properties except it by name.

## Proofs

`SetTransactionProofs` proves, for every value of the constants that satisfies
`ConstantsAssumption`:

* `TypeCorrectness`: `Spec => []TypeOK`
* `ActiveRowsStayComplete`: `Spec => []ActiveRowsComplete`
* `ScalarsStayGuarded`: `Spec => []ScalarsGuarded`
* `CreationStaysExclusive`: `Spec => CreationIsExclusive`
* `TableImplementsLifecycle`: `Spec => ImplementsLifecycle`, the refinement of `RowLifecycle`
* `AloneStaysAtomic`: `Spec => []AtomicWhenAlone`

The inductive invariant is `IInv`: `TypeOK`, `ActiveRowsComplete`, `ScalarsGuarded` and
`ReservedOK`. `ScalarsGuarded` is not inductive alone, because Commit stores without looking:
`ReservedOK` says that every varbind a worker has taken past a reserve pass could still be
stored, that is, it names an existing writable scalar and a value of that scalar's registered
type. It survives what other workers do precisely because they too keep the type. Rows need
no such fact: `apply_row_status` evaluates the transition again under the write lock it
stores with, and that is what makes creation exclusive and keeps active rows complete.

Atomicity needs `AloneInv` beside `IInv`: as long as a worker's request has met nobody, no other
worker is inside a request, and if the request is self-contained the worker is `Orderly`. The
varbinds committed so far are exactly those behind `idx`, each is honoured, what they do not
touch is as it was on arrival (`CommittedSoFar`), and prepare_set, asked again now, would still
accept every varbind that is to come (`Granted`). The last part makes the argument go round:
it says that the commit at hand cannot fail, and it survives that commit because the varbinds
to come address other scalars and rows (`OnlyTouched`).

`ReadAccessProofs` is about the three modules that decide what a caller gets to read. Of
`ReadDispatch` it proves, for any handlers, views, foreign answers, clients and requests:

* `NothingHiddenNamed`: `Spec => []OnlyReadableNamed`
* `WalksAreComplete`: `InRootOrder => (Spec => StableVisited)`
* `AnswersAreExact`: `RootsDisjoint => (Spec => []AnswersMatchMib)`

All rest on `TypeInv`, which types the whole state and says that a cached handler holds cells of
its own subtree and an idle serve loop an empty answer. `NamedInv` adds that what is readable now
is in `named` of every request under way; without that, an answer that is checked against the view
of the moment would not be in the history of the request. An `endOfMibView` is harmless because
it carries the cursor, which is a variable of the request or an OID it was answered with before
(`CursorFrom`), never the candidate the search skipped.

`StableVisited` is about the last step of a walk. `StableInv` says of a walk that nobody misled
that it is `Thorough`: it has seen every stable instance up to `current`; each varbind of the
answer under way comes after the one before it and passes over no stable instance, or is an end
with none left (`Follows`); and the search for the next one has every stable instance not come by
yet ahead of it, in a handler still to be asked (`Searching`). The client may stop at a varbind
outside its subtree because subtrees are convex in the order of OIDs (`SubtreeConvex`).
`InRootOrder` says that all instances of a handler come before those of the handlers asked after
it. `DisjointRootsInOrder` shows it for handlers none of which is registered inside another's
subtree; for nested ones the property is false (see Disagreements). The module opens with the
order of OIDs: strict, total, and with a least element in every finite set. These are
inductions; they are made by taking a smallest counterexample in a well-founded order
(`FS_StrictSubsetOrderingWellFounded`, `WFMin`), which needs no operator as a parameter.

`AnswersMatchMib` compares a finished answer with one that is worked out from the whole MIB, by
counting: column i of repetition r has the r-th instance after the OID of that column. The
invariant `MatchInv` says of a request that nothing disturbed that varbind k of the answer so far
is entry k of that table, that the answer is no longer than it, and that the search under way has
passed over nothing the caller may read (`Ranging`). Its step has three parts. The search ends at
the least instance ahead, or at the end when there is none (`AnswerMeets`, `AdvanceMatches`). The
least instance after the r-th one is the one of rank r + 1 (`RankTaken`, `NthNextStep`), so going on
from the last answer of a column is the same as counting from its start; the row and the column of
a varbind are a quotient and a remainder (`Place`, `Placed`, `EntryStep`). And the loops of
process_bulk stop exactly at the length of the table: a whole row meets the end exactly when the
longest column has run out (`RowEnds`, `ExhaustedAtLength`). For GET, `HandlerHolds` shows that the
one handler that is asked, that of the longest root, is the one that could hold the instance. This
is where `RootsDisjoint` is needed, which says that no handler is registered inside another's
subtree: with nested handlers GET does not find an instance of the outer one that lies below the
inner one's root.

Of `Vacm` it proves, for any sets of checkers, administrators, requests, rows and configurations:

* `OpenIsSound`: `VacmSpec => OpenOnlyWhenEmpty`
* `GrantsAreSound`: `VacmSpec => GrantsAreCurrent`
* `CommunitiesAreExact`: `VacmSpec => []CommunitiesAsConfigured`

The first two are not inductive, being about one step; their invariant `IInv` says for each
check what its locks have preserved. `EmptyLocked`: a check that looks at the second or third table holds the
locks of the ones before it and these are empty. `GroupKnown`: the group it carries is one its
caller had since it began. `ViewLocked`: the view name it carries is still what the access
table gives that group, and it holds that table's lock. Each administrator's write either
needs a lock that the check holds, or touches a table no conjunct speaks of.

`CommunitiesAreExact` is about every file of `rocommunity` and `rwcommunity` lines, of any length
and in any order, and `from_config_directives` is a loop over them. What the tables hold after
each line is a fold, and what they hold after n lines is shown by induction over n, in the form
the prover takes: not with a predicate as a parameter but with the set of the n for which the
claim holds (`UpTo`, a smallest counterexample in it). The claim is that the groups are those of
the names so far, the one access row of a name is that of its last line, and the views are those
of all lines so far. The last part has a consequence a reader of the file may not expect and the
property says so: a line brings back the views of earlier lines of its own kind. After `rw`, `ro`,
`rw` lines for one community both `rw` subtrees are granted and the `ro` one is not. A request for
a notify view is always refused.

Of `MibWalk` it proves, for any machines and any plans of registration:

* `OnlyNestedAreSkipped`: `WalkSpec => OnlyNestedSkipped`

`WalkInv` says that all handlers, registered or waiting, are those of the plan, and that the
registry is in the order of roots. `GetNextAnswered`
says what the dispatch then gives: the least cell after the cursor of the first handler that has
one. A cell that this passes over is before the answer and in a later handler, whose root is
therefore between the answering handler's root and the answer, that is, below that root
(`RootConvex`); `LongestHandler` shows that GET asks a handler that holds the answer. The proof
rests on `WalkAssumption`, which is about the tables that `MibTables` builds: a handler's cells
are finitely many OIDs below its root, and a handler in or at the place of another one's root
has whatever the other has below it. TLC evaluates it in `formats` for the machines and plans of
that run; it is not proved for others. The second half is what keeps GET and GETNEXT in agreement.
It leaves out a plan with both UCD handlers, which have one root and not the same cells; the
program is told not to register both (`agent/mibgroup/mod.rs:179`).

`SecureProofs` proves, for any addresses, texts, users, accounts, window, retries, calls,
duplicates and restarts, and clocks of any length:

* `PersistenceIsSafe`: `Spec => []RestartServesSaved`, from `PersistInv`: what is renamed is a
  complete line, made of a text the scalar held, and `disk` always parses to the text of the
  last completed save. `tmp` is never read.
* `WindowIsEffective`: `Spec => []ExecutedInTime`, from `TimeInv`: the session's extrapolated
  engine time and the parameters in every datagram never run ahead of the agent's clock unless
  the agent has restarted since.
* `ResyncSucceeds`: `NamesIdentify => (Spec => []UndisturbedCallSucceeds)`, from `CallInv`: an
  undisturbed call is in its first attempt or, after a Report, in its second with parameters of
  this call, and its own exchange is the only one under way. `NamesIdentify` says that the
  agent's accounts have names, all different, which its user table, keyed by name, ensures.

`DelegationProofs` is about those who answer for a subtree in the agent's place. Of `Smux` it
proves, for any peers, threads, lines of configuration and requests:

* `SubtreesAreServed`: `Spec => []SubtreesHavePeers`, from `SubtreeInv`: a connection that is
  served, or was abandoned, is in the map of peers, and the tear-down removes both.
* `AnswersAreMine`: `Spec => []AnswerIsMine`, from `AnswerInv`: as long as a forward is alone
  with its peer, everything between the peer's inbox and the response slot carries its id.

Of `Pass` it proves, for any callers, calls, scripts and deaths of a script:

* `ScriptAnswersAreMine`: `PassSpec => []PassAnswersMine`, from `PassInv`: the lines a call has
  read, the line in its buffer, the lines in the pipe and those the script has still to write
  are, in this order, consecutive pieces of one reply, the whole reply to the request of the call
  that holds the lock; and when nobody holds it nothing is left, in the pipe or unwritten. The
  reader keeps this up only for scripts in step (`InStep`): the others leave a blank line for the
  next call (see Disagreements). `PassAssumption` says no more than what the constants are.

`DismanProofs` proves, for any threads, poll tasks, rows, alarms and thresholds:

* `AlarmIsKnown`: `Spec => []OneAlarmPerEntry`, from `SchedInv`: a call that is alone on the
  scheduler holds the only live alarm, or there is none, or the entry's id names it.
* `RiseFiresOnce`: `Spec => []OneFirePerRise`, from `EventInv`: a threshold trigger that fired
  and has seen nothing lower remembers a sample above, in the copy of the poll that works on it
  and otherwise in the table. A crossing of the falling threshold fires as well, and with
  `Falling >= Rising` its sample may still be above `Rising`: the property, and the history it
  reads, are about rises (`Rises`) and not about every firing.

`NotifyProofs` proves, for any configuration, senders, receivers and network:

* `LogShowsRecent`: `Spec => []LogIsRecent`, from `LogInv`, for every capacity and for indices
  that wrap any number of times.
* `OkWasSurfaced`: `Spec => []InformOkWasSurfaced`, from `AnsweredInv`: an inform under way is
  that of an earlier row or call, or carries what the call that waits for it wrote; an
  acknowledgement of the latter was sent after the receiver surfaced it.
* `FanOutIsComplete`: `Spec => []FanOutComplete`, from `FanInv`: the three rows of a directive
  have one name; whoever adds them adds the notify row last, and a send copies the notify rows first, so every
  notify row in a copy has its target and parameters there; what a send has tried is the names of
  the rows behind its place in the copy; and what was due when it began is still at the
  beginning of the notify rows. That the configured tables satisfy this is an induction over the
  directives (`UpTo` again).

`SessionProofs` proves, for any sessions, requests and retries over a network that loses,
duplicates and reorders:

* `AnswerIsOwn`: `Spec /\ []IdsLast => []OkIsMine`
* `RouteIsOwn`: `Community => (Spec /\ []IdsLast => []WaitingHasRoute)`
* `CommunityUndisturbed`: `Community => (Spec /\ []IdsLast => []NoRouteStolen)`
* `FailuresAreExplained`: `RoutedById => (Spec /\ []IdsLast => []FailureHasCause)`

`CallInv` says that on a shared socket no two sessions have used the same request id, `MailInv`
that no answer under way can be taken for another session's. `IdsLast` is the hypothesis that
the one i32 counter of the process has not come round while the sessions on a shared socket
live: after 2^31 requests an id is used again, and the code does not look. `Community` says
that no session is a v3 session, for which `NoRouteStolen` is false (see Disagreements);
`RoutedById`, that there is no v3 session if there is a shared socket.

`FailureHasCause` needs three more. `MatchInv`: on a shared socket a datagram is routed by the
request id it carries, so the slot of a call that waits holds an answer to that call.
`FrameInv`: heads and bodies alternate in a stream as long as no message was cut. `CountInv`: the
attempts a call has used up, and the foreign answers still under way to it, are together at most
the foreign answers there were, so nothing but them can have used up its attempts.

`AgentXProofs` proves, for any finite set of connections and any calls, restarts, forwarders
and requests, with deaths and timeouts anywhere:

* `RegistrationsAreLive`: `Spec => []RegistrationsHaveSessions`. `SessionInv`: session ids are
  given once, the session of a running task is in the map, and the table names sessions of the
  map only.
* `PendingTablesStaySmall`: `Spec => []PendingIsAwaited`. `PacketInv`: the packet ids of a
  session are given once and no two forwarders hold the same; `AwaitInv`: whoever leaves the
  wait by answer, timeout or failed write has taken its entry away.
* `AnswersBelong`: `Spec => []RepliesMatch`: what an answered forward has is the handler's answer
  to its own request as the subagent reads it (`AsRead`), a GetNext as a Get. `WireInv` follows a request to the subagent and its
  answer back: whoever holds the packet id of a PDU under way asked for what it carries
  (`RequestInv`, `ResponseInv`, `ReplyInv`). That needs `TokenInv`, at most one acknowledgement
  is under way between call and return and none while no call waits, for `run` would take a
  stray one for a request; and `OpenInv`, that nothing is registered or forwarded before the
  answer to Open is read.
* `RegisterOkHolds`: `Spec => []RegisterOkMeansRegistered`. `RegisterInv`, beside `WireInv`: what
  the master has to acknowledge is the call that waits, and a registration it has read is in the
  table until an Unregister or the end of the session.

The lemmas about `Retain` (ranks are distinct and exhaust the length) open both `DelegationProofs` and
`AgentXProofs`.

Only model-checked: the conversions `CodecsReadBack`, `CellsDenote` and `NamesDenote`, whose
operators are recursive and which the prover does not take; and all liveness (fairness and
ENABLED are outside it). Every other property of a passing run is a theorem.

## Disagreements

Where the code and its comments, documents or evident intent part. The first is a run of its
own (`set_undo`, with its quotation under `findings`). Those marked with a property are shown by
TLC when the property is put into the named cfg with the changes given; the others came up
while modelling and the models have them.

SET, AgentX and reads:

* `StagedCreateAccepted` (in `set_alone.cfg`): the comment at `agent/helpers/table_dataset.rs:312`
  says that cells of a new row are staged for the create verb of the same SET; nothing is.
* `ReclaimedOnExit` (in `agentx.cfg`): `agent/agentx/master.rs:12` promises that a disconnect
  reclaims all registrations; a failed acknowledgement returns at line 182 before that.
* `OwnerIsLongestPrefix` (in `agentx.cfg`, `Calls <- NestedCalls`, `Restarts = {}`): `min_by_key`
  over the length (line 375) prefers the shortest subtree; the comment at 362 says the longest.
* `AnsweredByHandler` (in `agentx.cfg`, `MaxPackets = 4`): a subagent's call takes a forwarded
  request for its acknowledgement (`subagent.rs:221`), and `run` then answers the acknowledgement
  as if it were a request.
* `NextIsAsked` (in `agentx.cfg`): GetNext decodes as Get (`protocol.rs:1168-1193`), so a
  subagent answers a forwarded GETNEXT with a GET; `forward_get_next` takes it for a successor.
* `ForwardsEnd` (in `agentx.cfg`): the writer's lock and `write_all` (`master.rs:504-511`) come
  before `FORWARD_TIMEOUT` begins, so a subagent that does not read holds its forwarders for ever.
* `EveryLineGrants` (in `vacm.cfg`): a community line expands to rows "granting the community read access to `OID`"
  (`vacm/mod.rs:751-754`), but a later line of the other kind for the same community replaces the
  access row, and with it what earlier lines granted.
* `StableVisited` (in `read.cfg`, `Handlers <- NestedHandlers`, `Views <- NestedViews`,
  `WalkRoots <- NestedRoots`) and `WalkIsComplete` (in `formats.cfg`): a handler inside the
  subtree of another is skipped when the outer one has later instances, although registration
  promises a lexicographic walk. It happens: hrDevice (25.3) hides hrNetwork, hrDiskStorage and
  hrPartition; `ip` hides the routes (4.21) when there are ARP entries; UCD's log match hides
  lm_sensors. hrSWRun "supersedes" the system group's only when registered after it.

Sessions, agent, daemon:

* `NoRouteStolen` (in `session.cfg`, `Kinds = {"shared"}`, `Version <- SecureVersions`,
  `Uses <- SecureUses`, `MaxRequests <- OneEach`): the message ids of v3 sessions all start at 1,
  so two of them on one shared socket take each other's route (`lib/udp_shared.rs:27` says they
  do not disturb each other). `unroute` is documented for timeouts and not called on them.
* `TimeoutBoundsCall` (in `session.cfg`): `session/config.rs:14` calls it the "per-request
  timeout", but the send comes before it (`community.rs:94`) and on a stream is `write_all` and
  `flush` (`transport.rs:219-224`), which wait for the peer to read.
* A stale answer costs an attempt (`community.rs:100`), hence the exception of
  `FailureHasCause`; a timeout in the middle of a stream message loses the framing.
* The engine boots are neither loaded nor advanced by snmpd (`EngineBootsPersistable` is
  unused), so a restart accepts requests that are older than the window: the exception of
  `ExecutedInTime`. With `retries = 0` a resynchronisation ends in a timeout though
  `secure.rs:157` says the request is retried once; a late Report can fail a call. Under
  systemd sockets no signal handler is installed and nothing is saved, nor when all serve loops
  have died. A saved value overrides the command line.

SMUX, notifications, DISMAN:

* SMUX request ids are not compared: the exception of `AnswerIsMine`. A write error on a
  registration's answer skips the tear-down (`"abandoned"` in `SubtreesHavePeers`). A write has
  no deadline (the exception of `ForwardsReturn`). The decoder reads a GetNext (0xA1) as RRsp
  and a Get (0xA0) as a registration, never sees an unregistration (-1) and takes the first
  arcs of an OID from one octet: what `BerKept` leaves out.
* v3 trap sessions send sysUpTime 0 and the two leading bindings twice; `trapsink` always says
  enterpriseSpecific, so coldStart arrives as snmpTraps.0.1; an inform to a dead target delays
  the targets behind it; a log cap of 0 keeps one entry.
* `IndexFromOne` (in `notify.cfg`): the index of the log is "1-based" and "monotonic"
  (`notiflog.rs:55`, `:101`); `wrapping_add` goes on with 0 after 2^32 - 1, and 0 is no index of a
  table.
* `poll_once` writes its copy back: a trigger removed meanwhile returns, and overlapping polls
  fire twice for one crossing; concurrent `spawn_alarm` leaves an alarm nobody can cancel;
  replacing an enabled entry by a disabled one leaves the alarm; one-shot alarms stay in the
  registry though `add` says otherwise. Hence the `~overlap` of the two invariants.
* `EveryEnabledEntryFires` (in `disman.cfg`): a row with a calendar is looked at once in sixty
  seconds, counted from the end of the last look, so that the looks drift and may pass over the
  minutes that match.
* `OneSample` (in `formats.cfg`): an expression is evaluated "against the current self-query state"
  (`expr.rs:166`), but each `$oid` is a call of its own (`expr.rs:391`): `$a - $a` need not be 0.
* A read of the expression table holds its read lock while `evaluate` takes it again
  (`expr.rs:436`): with a writer waiting in between, both stop, a state that `formats` reaches. An expression that refers to
  its own table recurses. Unary plus is accepted though the grammar has none.

Conversions:

* AgentX: GetNext decodes as Get (see `NextIsAsked`); an OID that is exactly 1.3.6.1 panics on encoding, one whose fifth arc is
  0 or above 255 changes; a context is written and never read; exceptions become Null; the
  upper bound of a range is lost. `Kept` leaves these out.
* Pass: a reply whose blank line arrives by itself leaves it for the next call (`InStep`); a
  silent child is waited for without end though the comment names a timeout; a bare NONE blocks
  the persistent mode with the lock held; the result of a set is ignored.
* MIB files: an IMPORTS list that begins with OBJECT-TYPE is read as an object definition called
  IMPORTS that takes the place of the first real one, one that begins with TEXTUAL-CONVENTION
  hides the first convention (`Mistaken`); a circle of parents below an object recurses without
  end though `parse_object_defs` "never panics" (`alive`); the two resolvers differ in whether
  the text or the registry comes first, and `{ foo(5) 1 }` depends on where foo is defined
  (`Plain` leaves both out); a child loaded in an earlier call than its parent stays undefined
  (`Meaning` says so); `SEQUENCE OF` passes over one token too many, which is harmless because
  the access of a table is the default one.
* MIB tables: a partition's parent is the first prefix though the comment says the longest; the
  interface numbers of ARP entries are in order of appearance though the comments say sorted;
  routes with one destination share their cells; tcpConn, udp, route and disk entries have `.1`
  twice.

## Not modelled

`components` in `PROJECT.json` lists every part with its status. Not modelled at all: the
configuration file reader and default store (text processing; what the words mean to their
readers is in `Vacm`, `Notify`, `Smux` and `Daemon`), the agent's callback lists (functions of
the embedding program), the hardware readers (I/O). Left out of modelled parts: cryptography
(equality of keys), TSM and TLS handshakes, the tokenizer of MIB files, the display side of the
MIB registry, the values of MIB cells, the SETs of the process table, the cache table and
`setSerialNo`, v3 informs, commands run by trap handlers, ping, traceroute and nslookup, and
the library's BER.

## Plan

The models of the plan are written, and every safety property and action property of the runs
is proved except the three recursive conversions, which stay with TLC as liveness does. What could
still be done, in order of worth:

1. `WalkAssumption` as a theorem about `MibTables`: that each table keeps below its root, for
   every machine, and that the overlapping groups (`hrSWRun`, UCD and the sensors, `ip` and the routes)
   cover each other.
2. The codecs as functions on sequences of octets instead of recursive operators, so that
   `CodecsReadBack` can be proved field by field.
