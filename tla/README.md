# TLA+ models of btwattch2-rs

btwattch2 is a command line for the RATOC REX-BTWATTCH2 wattmeter: it switches
the outlet, reads power measurements over Bluetooth LE, and can leave an *agent*
running that keeps the one BLE link open and serves commands and measurement
streams to many clients over a unix socket.  This directory holds TLA+ models of
the program's concurrent and stateful parts, TLC configurations that check them
on small instances, and proofs, checked by TLAPS, of what holds for all sizes.

Paths such as `src/agent/server.rs` are relative to the repository's root.

    tlc -workers 2 -config Agent.cfg MCAgent.tla      # a run
    tlapm AgentProofs.tla                             # a module of proofs

`PROJECT.json` lists the runs, the lines of code behind every definition, the
hazards, and for every property a mistake in the code (a *slip*) that the
property catches.  Slips are the operators named `X_Y`: operator `X` with the
mistake `Y` in it.  No specification uses one.

## The system

| Component | Where | State | Operations |
|---|---|---|---|
| Agent claim | `agent/server.rs`: `take_over`, `PidFile`, `cleanup_stale`, `bind_socket`, `AgentFiles`, `run` | pid file (path, inode, text, flock), socket file | start, refuse, serve, exit, crash |
| Agent actor | `agent/server.rs`: `actor_loop`, `Actor`, `Clients` | the held subscription, the assembler, the subscribers, `connected` and `samples` | `handle` each request, `poll_device`, `handle_notification`, `oneshot`, `abort_stream`, shutdown |
| Accept loop, handlers | `agent/server.rs`: `accept_loop`, `handle_client`, `control_response` | one task and one bounded channel per client, two notifies | accept, read, queue, relay, stop |
| Connection | `connection.rs` | BLE link, characteristics, notification stream | `establish`, `connect`, `listen`, `write`, `reconnect_stream`, `disconnect` |
| Direct mode | `connection.rs`: `oneshot`, `subscribe`; `main.rs`: `run_cli`, `until_deadline` | ticker, command time-out, samples still to print | a command, a stream |
| FrameAssembler | `connection.rs` | the reassembly buffer | `feed`, `next_frame`, `clear` |
| Payload | `payload.rs` | none | `generate`, `crc8`, the payloads, the RTC fields |
| AgentStats, metrics | `agent/status.rs`, `agent/metrics.rs` | atomic counters, the latest sample behind a mutex | record, read, scrape, snapshot |
| Client side | `agent/client.rs`, `agent/mod.rs`, `main.rs` | none of its own | probe, route a command, `agent stop`, `agent status` |
| Settings, config file | `cli.rs` | profiles, defaults, the default profile | parse, select a profile, merge |
| Output | `output.rs` | sample count, energy of a session | render, format |
| Scan | `connection.rs`: `scan`, `find_device` | the devices found, what is known of each | list nearby devices, wait for one |
| SIGPIPE | `signal.rs` | none | reset a signal |

How they interact.  `agent start` claims its two files, connects, and runs an
accept loop beside the actor.  Each client has a handler task: it reads one
request, answers a ping or a shutdown itself, and queues anything else to the
actor through an unbounded channel, together with the sender of a bounded
response channel.  The actor alone owns the `Connection`; it never waits for a
client (`try_send`), and it gives up the processor only where it awaits the
radio.  A shutdown reaches it through two notifies, one from a client's handler
to the accept loop and one from `run` to the actor.  Without an agent, a command
uses `Connection` directly.  Every notification goes through a `FrameAssembler`,
which is where frames come from.  The actor also stores what happens in atomics
that scrapes and pings read on other threads.  Every invocation, agent or not,
finds the socket path by resolving the same config file on its own.

What is hard about it: any two starts, exits and crashes interleave at the level
of system calls; the link can drop, half open or fall silent at any await; a
notification stream belongs to one link and is worth nothing on the next;
replies carry no identifier; a client can lag, hang up or come back at any
moment; shutdown drops futures half way; the radio cuts and loses bytes; the
counters change between two loads of one reader; an agent can be replaced
between a client's ping and its request; BlueZ's list changes under a scan.
The properties that make each part correct are named below, and each hazard is
listed, at its line, in `PROJECT.json`.

## Modules

| Module | Models | Uses |
|---|---|---|
| `AgentService` | what claiming the agent's place promises: one process at a time | |
| `AgentClaim` | the claim, system call by system call | refines `AgentService` |
| `MCAgentClaim` | instances | `AgentClaim` |
| `AgentClaimProofs` | theorems | `AgentClaim` |
| `SampleFeed` | what the agent promises its clients | |
| `BleLink` | the link, its subscription and the device, as the agent sees them | |
| `LinkCalls` | a Connection to its user: the calls and their outcomes | `BleLink` |
| `AgentActor` | the actor, one action per await or per frame | `BleLink` |
| `Agent` | accept loop, handlers, clients, shutdown, around the actor | `AgentActor`, refines `SampleFeed` |
| `MCAgent`, `AgentProofs` | instances, theorems | `Agent` |
| `FrameAssembler` | reassembly and resynchronization | |
| `Payload` | the frame around a payload, `crc8` | |
| `MCFrameAssembler`, `FrameAssemblerProofs` | instances, theorems | `FrameAssembler` (`Payload` in the instance) |
| `Connection` | a direct command or stream, with every attempt of `establish` and `write` | refines `LinkCalls` |
| `MCConnection`, `ConnectionProofs` | instances, theorems | `Connection` |
| `AgentStats` | the actor's stores, a scrape's and a ping's loads, the clock | |
| `MCAgentStats`, `AgentStatsProofs` | instance, theorems | `AgentStats` |
| `Settings` | selection and merge of settings, as operators | |
| `ConfigFile`, `ConfigFileProofs` | `parse_config`, one action per line; theorem | `Settings` |
| `Invocation` | agents and clients that share a config file: paths, posts, routing | `ConfigFile` |
| `MCInvocation`, `InvocationProofs` | instance, theorems | `Invocation`, the proofs with `ConfigFileProofs` |
| `Scan` | scan and find_device, against a BlueZ that changes | |
| `MCScan`, `ScanProofs` | instance, theorems | `Scan` |

### AgentClaim

One process is one `agent start` on the same paths.  `pidPath` is the inode that
the path names, `fd[p]` the one `p` has open, `lock` the flock on each inode,
`pidText` what is written in it, `sockPath` whose socket file is at the path.
The actions are `Open`, the flock (`Claim`, `Refused`), the ping of
`cleanup_stale` (`ProbeClear`, `ProbeBails`), `Unlink`, `Bind`, `WritePid`,
`Serve`, the exit (`Leave`, `RmSock`, `RmPid`, `Release`) and `Crash`, which can
fall between any two of them.  A filesystem without flock is an initial state.

The constant `Overlap` says whether an exit's close may fall inside another
start's window between its open and its flock.  Without it the claim is safe;
with it, it is not (run `claim_overlap`).

### BleLink, LinkCalls, AgentActor, Agent

`BleLink` describes each call of `Connection` by its outcome: what it leaves of
the link, of the subscription held (`stream`) and of the frames on their way.
`link = "hot"` is a link on which notifications have been enabled.  A listen on
a dead link fails, and may fail on any link; a write may have reconnected; the
stream of a link that is gone ends, or merely falls silent, as a silent BlueZ
stream does.  The device answers one frame to each command, in order.
That these outcomes are the right ones is not left to the reader: `LinkCalls` puts
them in the order in which a user of a `Connection` calls it, and module `Connection`,
which has the attempts within each call, is shown to implement it.

`AgentActor` has one action per await of `impl Actor` (`at` names the await), and
one per frame of a notification, since handlers on other threads run in between.
`Reap`, `broadcast`, `abort_stream` and `oneshot`'s exit are whole operators, so
that an action includes all of what its handler does before it next awaits.
`sent[c]` is everything ever put in a client's channel and `taken[c]` how much
of it the handler has taken out, so the channel holds the rest and the history
is at hand for the properties.

`Agent` adds the handlers, the clients that hang up, the accept loop and the two
notifies.  Taking a response out of the channel and writing it to the socket are
one step (`Deliver`); the frames are ones that the assembler has completed;
`reconnect_stream` (connect, then listen) is one outcome.

### FrameAssembler, Payload

One action is one turn of the loop in `next_frame`.  A consumer may leave the
iterator early, as `next_matching_frame` does (`mode = "left"`), or drain it.
`fed`, `gone` and `taken` are history: all bytes since the last `clear`, how many
have left the buffer, and where the frames handed out began.  The header and the
checksum are parameters; `Payload` supplies the program's.

### Connection

One job, `"command"` or `"stream"`, from the first connect to the disconnect.
One action is one call on the radio: an attempt of `establish` (`DialOk`,
`DialFails`, then `Drop`), a `listen`, an attempt of `write`.  `for` and `next`
are the places establish and listen return to.  Links are numbered (`gen`), and
`sub` is the link that the subscription in hand was taken out on.  `Timeout`,
`CtrlC` (which also stands for `--duration`) drop the job at whatever await it is
in.

Not every link is in the job's hands, and `stray` says why not.  A future that is
dropped in `device.connect` leaves BlueZ connecting (`InFlight`: "dialing"), and
`drop_connection` does not abort that, since it disconnects only what
`is_connected` reports; the connect may come to a link at any time afterwards, the
end of the process included (`LateConnect`: "late").  A disconnect may fail, or
`is_connected` may, whose errors the code takes for a no (`DropConnection`: "kept").
`Connection::new` may refuse a link it has made because the TX or RX
characteristic is missing, and there is then no `Connection` to disconnect
("unfit").  And an earlier process may have left its own ("found").

The mapping to `LinkCalls` (`CallsAreAsSeen`) hides what a call does before it
returns: `LinkSeen` is the link the call began on, or "down" once the call has made
another, which becomes visible when it returns.  `write` is thus seen to end in one
of three ways: Ok(false) on the link it found, Ok(true) on a new link without a
subscription or on the old one, and Err on any.

`leaky`, chosen at the start, says whether an Err of `connect` may come with a link:
one that has just been made and lacks a characteristic, or one that a Connect which
has timed out still makes.  What becomes of the link in the end (`NeverOnHalfOpen`,
`EndsDisconnected`) is stated for either.  What the caller of `write` may rely on
(`SubscriptionIsCurrent`, `CallsAreAsSeen`, `RunEnds`) is stated for a device that is
not leaky, since `write` may otherwise report no reconnect though there was one (see
below).  A connect that is given up by a time-out or a signal is part of both.

### AgentStats

One action is one load or one store, the sample under its mutex included.  The
actor's stores follow each other in the order of the code (`step`): `CountSample`,
`SampleConnects`, `KeepSample` are `record_sample`, `Disconnected` and `Take` are
`abort_stream`, and a change of the list of clients is followed by
`PublishCount`.  A scrape reads its request's first line and the rest of its
head, then loads `connected`, then locks the sample; a ping loads five fields in
turn.  Which sample a scrape shows, and when it shows none, is compared with
`moments[r]`, the verdicts that an observer of all the state at once would have
given since the head was read.  Time is the age of the latest sample, in ticks up
to staleness.  Relaxed atomics are taken in program order: a processor that
shows another thread the stores of `record_sample` out of order is not modelled.

Two things to know.  An answer that calls the device down may carry the
timestamp of a sample that arrived just before the mutex was taken, so that
verdict and sample *are* of either side of it, against the comment at
`status.rs:25`; only its channels, which are left out then, are of one moment.
And the metrics port listens during the connect, so a scrape then waits and is
not "refused outright" (`server.rs:207`).

### Settings, ConfigFile, Invocation

Two keys stand for all: `addr`, which says what device is meant, and `socket`,
which says what agent.  `ConfigFile` reads any sequence of lines, with those that
the parser rejects (`Junk`), sections entered again, and defaults that name a
later section or none.  `read` is history.

`Invocation` starts where the file ends.  An agent resolves its settings, claims
the post at its socket path, binds, connects, serves and leaves, or is killed and
leaves its socket file behind; `AgentClaim` has the steps within.  A client
resolves its own, pings whoever is at its path (`Probe`, `Pong`, `NoPong`), checks
an explicit `--addr`, and sends its request over a *second* connection (`Send`),
or goes to the radio.  A serving agent is taken to answer a ping within its
500 ms, since its handlers answer it without the actor; one that still connects
accepts nothing, and is given up or answers in the end.

What the model shows and the code leaves open: the agent that was asked may be
replaced, before the command is sent, by one of another device at the same path,
and the command then operates that one; `NamedDevice` excludes that case, by name,
and no other: a client that pinged in vain and took to the radio is in it.
A client that finds no agent, and an agent that starts right after, both use the
device.  `--pid-file` is left out: two agents on one socket path with pid files
of their own do not exclude each other by the lock, only by the ping.

### Scan

BlueZ is the environment: it hears devices, learns their names later, and drops
the RSSI of those it hears no more.  `poll_devices` reads its list round by round
(`ListDevices`), device by device (`ReadDevice`, `PassOver`), and `find_device`
waits for one to be listed.  `due` is what the rounds so far owe to the result:
the devices heard all through one of them.  `ScanListsAdvertisers` excludes, by
`cached`, those whose name BlueZ had while they were silent: read once in that
state, such a device is left alone for good (`connection.rs:263`), and a meter
that BlueZ knows and that advertises a moment later is missing from the scan,
although the comment at `connection.rs:221` promises those "that advertised an
RSSI at some point during the window".

## Runs

| Run | Instance | Shows |
|---|---|---|
| `agent_claim` | 3 starts | one agent at a time, its paths its own, nobody's socket removed, no refusal without a live process, no files left behind by an orderly end; refines `AgentService` |
| `claim_overlap` | the same, `Overlap` | **violated** `SoleAgent` |
| `agent_safe` | 2 clients, any request, queue of 1, 2 samples, polls always on, late answers | feeds have no gaps, a result goes to who gave a command and another's only after that one's turn, answers have room and a reader, nobody is dropped without a cause; refines `SampleFeed` |
| `agent_live` | a subscriber, and a client that commands or shuts down; a device that may not answer | every request ends, shutdown completes, a lost feed is recovered or declared over |
| `late_reply` | 2 commands, late answers | **violated** `ReplyIsOwn` |
| `dead_subscription` | a subscriber and a command | **violated** `NoDeadSubscription` |
| `link_lost` | one subscriber, polls always on, the device in range again | **violated** `LinkComesBack` |
| `assembler` | all streams of 9 bytes out of 4 values, frames of at most 5, chunks of at most 5 | nothing lost or repeated, only intact frames, none missed, a bounded buffer |
| `connection` | 2 connects, 3 writes, 2 samples, 3 links, leaky or not | waits are on the current link, a half-open link is dropped before the next attempt, the device is let go of at the end, save for the links that `stray` names; a job ends; refines `LinkCalls` |
| `agent_stats` | 3 samples, 1 reconnect, 1 subscriber, 1 scraper, 1 ping, a window of 2 ticks | a scrape's answer was true at one moment, the age fits the count, the number of clients is current |
| `invocation` | every file of up to 4 lines; 2 agents, 1 client; 1 section, 2 addresses, 2 sockets | the file means what its lines say, commands operate the device that was named or the profile's, a serving agent is found, a stop completes |
| `scan` | 2 devices, 3 rounds | a scan lists who was heard through a round and nobody who was not; discovery is always stopped |

### Where the code and its documentation disagree

- `claim_overlap`: README.md:277 and server.rs:149 promise one agent even when two
  are started at once.  A start that opens the pid file just before an exiting
  agent unlinks it, and locks it just after that agent closes it, holds the lock
  of a file no path names.  The next start finds the path free.
- `late_reply`: a command that timed out leaves its reply on its way, and
  `next_matching_frame` tells replies apart by length alone, so that the next
  command takes it for its own.  How far that can go is what `ResultsInTurn` says, in
  `agent_safe`.
- `dead_subscription`: `write` loses track of its reconnects when it then fails,
  and `oneshot` keeps a subscription of a link that is gone.
- `link_lost`: after a failed reconnect every path of the actor begins with a
  listen, which needs a link, and nothing that connects is ever reached.

Seen in the models, and in no run of its own:

- a listen that fails in `oneshot` or for a new subscriber does not clear
  `connected`, against the reason given at server.rs:742 (`ListenFails` of
  `AgentActor`);
- the comment at server.rs:214 has in-flight work finish, and the shutdown
  abandons it, a command that is written included (`AgentActor`);
- connection.rs:540 says that `write` returns whether there was a reconnect.  One
  that made a link and then failed, on a missing characteristic or a time-out
  (`leaky`), goes unreported when the next attempt succeeds.  The caller then waits on
  the subscription of the link before: without `~leaky` in them,
  `SubscriptionIsCurrent`, `CallsAreAsSeen` and `RunEnds` are all violated, the last by
  a stream that waits for ever;
- a first connect that finds a characteristic missing ends the process without a
  disconnect (connection.rs:375), so that a device that is no wattmeter stays
  connected; and so does a connect that Ctrl-C gave up and BlueZ completes
  (`stray` of `Connection`);
- a reconnect within a one-shot's write is not counted (server.rs:905);
- the agent replaced between ping and request (`Invocation`), the torn answer of
  a scrape (`AgentStats`) and the meter that a scan misses (`Scan`), above.

### Bounds

- Three starts: one that leaves, one that is about to lock the file it left, and
  one that comes after.  All of the claim's safety is proved for any number.
- Two clients: each property is about one client and what another does to it.
  A queue of one is where a client lags at once; `QueueLen` is a parameter of
  the proofs.  Two samples make a gap possible.
- `MaxOwed` and `MaxAir` limit the frames at the device and in the host, to one
  and two in `agent_safe`; a frame that has to wait behind another, of the other
  kind, is what the replies' matching has to cope with.
- `Prompt`, a device that answers before the time-out on a stream that does not end by
  itself, is assumed by `dead_subscription` and `link_lost` only, to show that what
  they find needs no late answer and no broken stream.
- `MaxSamples` ends polling, so that the state space is finite.  Liveness
  properties allow for it by name (`samples >= MaxSamples`).
- The assembler's bytes are the header, zero, one, and 246 = `crc8(<<1>>)`, which
  make frames of no and of one byte, damaged ones, sizes too large, and headers
  inside payloads; nine bytes hold two frames with noise.
- Two connect attempts have a retry and a last one.  Three write attempts let a
  write reconnect after its first attempt and after its second.  `MaxLinks`
  ends reconnecting: once it is reached an attempt can only fail, which is the
  case of a device that stays away.
- Three samples: one that goes stale, one that is fresh, one that arrives between
  two loads.  The window is longer than the interval, as in the code.
- Four lines hold an address at the top, a section, and its own address and
  socket: two profiles that differ in both.  Two agents are the two posts, or
  two at one; one client, as clients do not affect each other but through `told`.
  `Starts` and `Runs` list the command lines tried.
- Two devices, one silent while the other is heard; three rounds, one to be
  first read in, one to be heard through, one to fall silent in.
- Deadlock is not checked where the modelled program ends on its own (all but
  the assembler and `AgentStats`, which never do).

### Fairness

- `Agent`: tokio runs every ready task (weak fairness on the actor and the
  handlers); `select!` picks among ready branches at random, so a branch ready
  again and again is taken in the end (strong fairness on each branch of the
  loop, and on shutdown's); calls on the radio return, btleplug's own time-outs
  seeing to it; clients read their sockets.  Nothing is assumed of the device,
  of requests or of signals.  Only `link_lost` assumes a device in range:
  attempts to connect that are made again and again succeed in the end.
- `Connection`: the same of the task and of `select!`, and for `RunEnds` a device
  in range: a write that is tried again and again is at last accepted without a
  reconnect, an answer reaches a job that waits again and again, and streams
  cease to break by themselves.  A stream
  with `--count` on a device that never answers does run for ever, and so it
  should.
- `Invocation`: only that an agent with a shutdown in hand leaves its accept loop
  and, its actor ended, exits (`Agent`'s `ShutdownCompletes`).

## Proofs

All eight modules of proofs hold for every value of the constants that meets the
assumptions named in the modules.  Between them they state every safety invariant
and every refinement that the passing runs check, and the action properties
`NoTheft`, `RefusedForCause`, `DroppedForCause` and `ServingAgentIsFound`.

**AgentClaimProofs** (any number of processes).  The inductive invariant is
`TypeOK`, `FilesOpen` and, where locks work, `LocksHeld` and `PathsHeld`.  Its
heart is in `LocksHeld`: a process about to try its lock has opened the file that
the path still names, or one that an exiting agent has unlinked *and not yet
closed*, so that its lock is refused.  `Overlap` breaks exactly that conjunct.
From it follow `SoleAgent`, `PathsAreTheAgents`, `NoTheft`, `RefusedForCause` and the
refinement of `AgentService`, all under `~Overlap`, and `TypeOK` without it.
`NoLitter` is about the end, and needs to know of each file who will see to it
(`FilesAreOwned`): as long as nobody was killed, the pid file at the path is open
in a claimant or in a start that has yet to try its lock, and the socket is that
of an agent that has not removed it.

**AgentProofs** (any clients, requests, queue length, bounds).  Types come first,
with `Serving` (a client is being served exactly at the stages of a request).
Then every step of the actor is shown to be one of a few *effects* on the
clients - it admits a request, adds a subscriber, replies, publishes a sample,
closes the feed, lets go - whatever the radio did.  The invariant on top
(`QueueWaits`, `ServedWaits`, `UpToDate`, `Untouched`, `NoQueueLeft`,
`FeedContiguous`) is proved once per effect and not once per action: who waits
in the queue or is served has nothing in its channel, a subscriber's last
response is the latest sample, who is in neither place gets nothing more.
`FeedContiguous`, `AnswerFits`, `DroppedForCause` and the refinement of `SampleFeed`
follow.
`ResultsInTurn` is what can be said of replies without assuming anything of the
device.  The invariant `AnswersDue` follows every answer from the device through the
host to the assembler: it is for the client being served, whose command has been
written, or for one that has been given something before (`ServedIsAnswered`:
nobody's turn ends without, its time-out being an answer too), unless the loop is
over.  So an answer that is late can reach another command, but never one that was
not given, and never ahead of the turn of the client it belongs to.  That it may
reach another at all is the flaw of run `late_reply`, which violates `ReplyIsOwn`.

**FrameAssemblerProofs** (any bytes, checksum, limit and cuts).  `NothingMissed` is
not inductive: that no intact frame began at a byte that was dropped must not
change when more bytes arrive.  The invariant therefore records *why* each byte
left (`Settled`): it is no header; or its declared size, already seen, is too
large; or its frame was complete and failed the checksum; or it is part of a
frame handed out.  Each of these depends on bytes that have arrived only.
`Remainder` turns what the code reads in the buffer into what the stream holds.

**ConnectionProofs** (any number of attempts, samples and links).  `Budget` bounds
the nested retries.  `Accounted` holds for any device, leaky or not: `HalfOpen` says where a
half-open link can exist, and beside it stands when a link can be one that `stray`
names - one found at the start, for instance, only up to the end of the first
attempt, or while the job is over.  `NeverOnHalfOpen` and `EndsDisconnected` follow.
`Links` needs an Err of `connect` to mean that there is no link (`~leaky`):
`Unreported` says that a write which could succeed now, with nothing to report, is
on the link its subscription was taken out on; `Held` that as long as a call has
not returned, nothing has been asked of a link that it made.  On it rest
`SubscriptionIsCurrent` and the refinement of `LinkCalls`, which both state that
assumption.
For the refinement a step within a call is shown to look like nothing, the loss of
the link or the end of the stream (`WithinCall`), and a call that fails or is
dropped, at whatever attempt, to leave what BleLink grants it (`GivenUp`).

**AgentStatsProofs** (any scrapers, pingers, window and bounds).  `StoresInOrder`
is what `record_sample` and `publish_count` promise by their order: the count is at
most one ahead of the sample kept, a sample is kept on a link just marked
connected, and a list that changed is published before anything else.
`ScrapeFits` is the argument for `ScrapeIsOfOneMoment`: a scrape that saw the link
down has met a moment without a verdict, and one that saw it up finds a fresh
sample which was the verdict either at that load or when it was kept.
`AgeFitsCount` needs beside it that a count once loaded is never ahead of the
stored one.

**ScanProofs** (any devices and number of rounds).  `ScanListsAdvertisers` speaks of
whole rounds, and the proof of what a round has owed so far (`RoundSoFar`): of the
devices heard since it began, those already passed have an RSSI in the result,
or were known by name while silent.  What is owed is paid when the round ends
(`DuesPaid`), and entries are only ever added to, so it stays paid.

**ConfigFileProofs** (files of any length).  `FileMeansItsLines` says what the file
means by the *last* line of each kind, the parser keeps an open section instead.
`SectionIsOpen` is the missing link: the section that the next line falls under,
by the lines read, is the one that the parser has open.

**InvocationProofs** (any agents, clients, profiles and paths).  The invariant has
five parts.  `FileFirst`: nobody resolves settings before the file has been
read, so what an invocation has resolved never changes.  `DoorsInPlace` and
`PostsHeld`: at each path at most one agent holds the post, and if it listens, the
socket there leads to it; a socket file left behind leads to an agent that did
start there.  `Clients`: what each client knows of whom it has dealt with - the
agent that answered its ping has the address it compared with (`Routed`), the one
its command went to is at its own path, and what was operated is the device of
whoever did so (`OperatedByWhom`).  From it follow `NamedDevice`, whose exception
is visible in the proof (the agent compared and the agent that answers need not
be one), `ProfileReachesItsAgent`, which adds that a path no other profile has is
reached by that profile alone, and the action property `ServingAgentIsFound`.
That at most one agent holds the post at a path is taken from `AgentClaim`, whose
claim is one step here.
An agent and a client are different processes (`AgentsAreNotClients`).

Model-checked and not proved: the liveness properties (`Answered`,
`ShutdownCompletes`, `FeedRecovers`, `RunEnds`, `StopCompletes`) and everything else
about fairness and ENABLED, which TLAPS does not handle, so that the refinements
proved are those of the safety parts; and what `crc8` computes, a fold over a
sequence: the assembler's theorems hold for any checksum.

## Not modelled, and why

- The JSON of requests and responses, log lines, output formats, the HTTP of the
  metrics endpoint: layout and I/O.
- The choice of the adapter: a lookup by name.
- The renderers, their sum of energy in floating point, and the columns of each
  format; the sample count that ends a run is in `Connection`.
- Of the command line, the mode, format and log level: choices among constants
  that change no state; and `--pid-file`, see `Invocation`.
- The RTC's fields and the payloads of the commands: encodings.
- umask, socket mode, directory creation: no property here tells them apart.
- An accept error's back-off: it delays the loop and changes nothing.
- SIGPIPE's disposition: one call at start-up.

## Plan

Done, in this order: `AgentClaim`; `BleLink`, `AgentActor`, `Agent` over
`SampleFeed`; `FrameAssembler` with `Payload`; `Connection`; the proofs of each;
`AgentStats`; `Settings`, `ConfigFile` and `Invocation`; `Scan`; the proofs of
`AgentStats`, `ConfigFile`, `Invocation` and `Scan`; `NoLitter`; `LinkCalls`, and the proof that `Connection` implements it;
connects in flight and failing disconnects in `Connection`, with what is left of the
link in either case; `ResultsInTurn` for answers that come late.

To come: the reconnects that the agent does not count (server.rs:905) and the link
it still reports after a failed listen (server.rs:815), as properties.
