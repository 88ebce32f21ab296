# Censprobe in TLA+

Censprobe measures what a network does to traffic. A **listener** on a server
starts one responder per VPN protocol and prints a command; a **client** started
with that command fetches one-shot credentials from the listener, probes every
protocol, tells the listener it is done and reads the listener's own view of the
same probes. A **solo** run measures from the server outward. The JSON reports of
both are imported by the **sync-api** into PostgreSQL and scored for Grafana, and
**sync** copies reports between machines.

This directory holds TLA+ models of the parts of that system in which order,
failure or concurrency matter, the TLC runs that check them on small instances,
and TLAPS proofs of the properties that matter most for every instance. Paths are
relative to the repository; `listener/`, `client/`, `core/`, `sync_api/` stand for
`src/packages/<part>/src/censprobe_<part>/`, for
`src/packages/probe-core/src/censprobe_core/` and for
`src/packages/dashboard/sync-api/src/sync_api/`.

## 1. Inventory

| component | state it keeps | operations | talks to |
|---|---|---|---|
| credentials endpoint `listener/cred_server.py` | serves left, first peer, committed snapshot, merged throughput, two `threading.Event`s, the bound asyncio event | `GET /creds`, `GET /snapshot`, `POST /stop` on one daemon thread per connection; `start`, `bind_stop_event`, `commit_final_snapshots`, `wait_snapshot_drained`, `stop` from the main coroutine | client (HTTPS), main coroutine (locks, events) |
| listener session `listener/main.py` | the phase of `_async_main`, the shutdown events, the report | start-up, wait for a signal or a `/stop`, teardown in a fixed order, report | everything in the listener |
| responders `listener/*_responder.py`, `*_wrapper.py`, `_responder_base.py` | a child process or tunnel, connection and data counters, temporary files | `start`, `stop` (cancellable), `live_snapshot`, `data_transfer_ok`, `read_throughput_bytes` | main coroutine, echo server, iptables |
| iptables counters `listener/_iptables_counter.py`, `listener/preflight.py` | rules in the kernel, which outlive the process | install, read, remove, clean up orphans | responders |
| echo server `listener/echo_server.py` | sockets, per-protocol measurements, registered kernel readers | echo, throughput measurement, tunnel binds, stop | tunnel responders, client probes |
| client session `client/main.py` | phase, retry counter, probe rows, the listener's snapshot | fetch credentials, probe loop, `POST /stop`, poll `/snapshot`, cross-verify | credentials endpoint |
| protocol probes `core/protocol_probes.py` | one child process or socket per probe | nine probes, each a ladder of verdicts | responders |
| probe runner `core/runner.py`, `core/modules/*` | results so far, failed modules | parallel phase, serial phase, report | the network |
| scoring `core/scoring.py` | none | scores from solo results and listener reports | importer, solo |
| importer `sync_api/main.py`, `parser.py`, `db.py` | the database | a loop of passes over the report directory, each one transaction | files, PostgreSQL |
| report sync `src/packages/sync/` | a one-shot HTTPS file server | serve, pull with pinned certificate and retries | another sync |
| configuration, targets, registries, credential generation and parsing, server metadata | constants of a run | validation, look-ups | all |

What is hard in it, and is the reason for the models:

* handler threads of the endpoint run beside the main coroutine and beside each
  other, share five fields under a lock and two events outside it, and outlive the
  requests that started them: a client that gives an attempt up retries while the
  first handler is still on its way;
* every message may be lost, in either direction, after it has taken effect;
* the teardown reads the same counters at three moments (snapshot, echo stop,
  report) while traffic still arrives and some `stop()`s have been cancelled;
* two parties may end the session, the operator and the client, at any moment of it;
* the importer rereads a directory that other processes write, in passes that may
  die in the middle, and must reach the same database whatever order files came in.

For each component, what makes it correct: the endpoint gives the credentials out
once and never a mid-session view; the session always ends in a report that says
what happened; responders leave nothing behind and count what passed; counters are
per run; the client always finishes; the runner loses no module's results; scoring
depends on the data and not on its order; the importer converges to what is on disk.

## 2. Modules

| module | models | composed by |
|---|---|---|
| `CredServer` | `listener/cred_server.py`: accept thread, handler threads, and the calls `main.py` makes on the object | `ListenerMain`, `ClientRun` extend it |
| `ListenerMain` | `listener/main.py`: `_async_main`, `_wait_for_shutdown_signal`, `_start_responders`, `_stop_responders`, `_build_final_snapshots`, `_finalize_session_results`, the report | `Session` |
| `ClientRun` | `client/main.py`: `_async_main`, `_fetch_credentials`, `_post_stop`, `_fetch_snapshot`, `_pinned_get_with_retry` | `Session` |
| `Session` | the three of them interleaved with the operator and with traffic; all session properties | `MCSession` |
| `ProbeSession` | abstract specification: what a session promises its operator and its clients | refined by `Session` |
| `Session_proofs` | theorems about `Session`, the refinement among them | |
| `Verdicts` | `ProtocolResult.finalize` of `core/models.py` and `_agreed_verdict` of `client/main.py` | `Responders` and `ClientProbes` extend it |
| `IptablesCounter` | `listener/_iptables_counter.py`: the rules of one comment in one address family | `Responders` extends it |
| `Responders` | `listener/*_responder.py`, `_responder_base.py`, the parts of `preflight.py` and `main.py` that act on them, and the client's `_listener_verdict`, over several runs of the listener on one host | `MCResponders` |
| `Responders_proofs` | theorems about `Responders` | |
| `EchoServer` | `listener/echo_server.py` with the throughput counter of `_responder_base.py` and the tunnel binds: connections, measurements, hang-ups, in ticks of a clock | `MCEchoServer` |
| `EchoServer_proofs` | theorems about `EchoServer` | |
| `SumLemmas` | induction over the subsets of a finite set and over the naturals, and the sum of a function over a finite set | `EchoServer_proofs` and `ScoringLemmas` extend it |
| `ClientProbes` | `client/main.py`'s probe loop and cross-verification, and the probes of `core/protocol_probes.py` with what they create on the host, over several launches | `MCClientProbes` |
| `ClientProbes_proofs` | theorems about `ClientProbes` | |
| `Measurements` | the decisions of `core/modules/*.py`: from the replies to the questions of a module to its verdicts | `SoloRun` extends it |
| `Scoring` | `core/scoring.py` | `SoloRun` extends it |
| `SoloRun` | `core/runner.py` and `core/module_registry.py`: the eight modules against a path with a censor, the saved report | `MCSoloRun` |
| `SoloRun_proofs` | theorems about `SoloRun` and the decisions of `Measurements` | |
| `ScoringLemmas` | what becomes of the scores when one result becomes better | `SoloRun_proofs` extends it |
| `ReportFiles` | what `sync_api/parser.py` makes of a report file's name and content, and the freshness comparison of `_import_listener_report` | `ReportDb`, `Importer` extend it |
| `ReportDb` | abstract specification: the tables change by whole passes, each true to its looks at the directories, taken one by one | refined by `Importer` |
| `Importer` | `sync_api/main.py`: the import loop, and everyone who writes to the workspace | `MCImporter` |
| `Importer_proofs` | theorems about `Importer`, the refinement among them | |

### CredServer

A connection is named by client, route and attempt. Its `handler` value is where it
stands on the server: `queued` at the listening socket, `ready` once its handshake is
done and a handler thread runs, then the points of the handler between which other
threads may run. One `with srv._lock` block is one step, one write to the socket is
one step, one `Event.set()` is one step; so `_serve_stop` is five steps
(`MergeThroughput`, `ReadStopEvent`, `AckStop`, `SetStopRequested`, `WakeMainLoop`)
and `_serve_creds` two (`TakeServe`, `WriteCreds`). `Write` covers a response that
arrives, one that is lost after the write returned, and a write that raises and ends
the handler. `Accept` may drop the connection (a failed handshake);
`StallInHandshake` is a peer that goes silent in the handshake, which
`ThreadingHTTPServer` runs on its accept thread because the listening socket is
wrapped.

### ListenerMain

`mainPc` is the `await` or blocking call at which `_async_main` stands; its values in
order are the phases of the function. A responder is `off`, `running`, `stopped` or
`cancelled` (its `stop()` was cancelled at the 20 s deadline), and `saw[p]` says
whether its data counter has ticked. `Latched` are the protocols whose `stop()` freezes
the counter (WireGuard, AmneziaWG, OpenVPN); the others read the echo server, which
counts until it is stopped itself. After a cancelled `stop()` a read of the counters
may give anything. `Signal` is SIGINT or SIGTERM: a graceful stop only while
`_wait_for_shutdown_signal` waits, the end of the process otherwise.

### ClientRun

`clPc` is the phase, `attempt` the counter of the retry loop. An attempt may end in a
transient error at any moment, which is how timeouts and lost messages look to the
client; what its handler does afterwards goes on. A 410, and a stream that ends
without a status line, are permanent and not retried.

### ProbeSession

What can be said of a session without its threads, messages and retries: credentials are
granted (`Grant`), clients probe (`Probe`), the operator asks for the end (`Ask`), the session
is closed (`Close`), responders are settled (`Settle`), the view is published (`Publish`) and read
(`Read`), the report is saved (`Save`), or the process ends without one (`Die`). The actions
hold the promises: a serve that is left for `Grant`, a request of the operator or of a client
that has probed for `Close`, no more settling once the view is out, one view for all who
read, and for `Save` a report that is `True` to all of it.

`Session` maps `mainPc` to `Mode` (`open`, `closing`, `over`), `gotSignal` to `asked`, the responders to
`Started` and `Settled`, and the phases of the clients to `Holders` and `Probed`; the committed
snapshot is the view. `ReceiveCreds` is `Grant`, though the serve was spent two steps and a message
earlier; `WaitReturns` is `Close`, though a `/stop` handler caused it; `CommitSnapshots` is
`Publish`, `ReceiveSnapshot` is `Read` if there was a snapshot in the answer, and `SaveReport` is
`Save`. Everything the threads of the endpoint do stutters, as do the requests, their
errors and their retries, the drain and the deadline of the `stop()`s.

### Responders

`ListenerMain` sees a responder as something that runs and has seen traffic or not;
`Responders` is what is inside, and nothing of the endpoint. The responders differ in
what they count and in the order of their `stop()`, which is the `kind`: `socks` is
`SubprocessResponder`, `wireguard` both of WireGuard and AmneziaWG. `pc[r]` is where `r`
stands: in `start()` (`off`, `installed` before the daemon for `mtorig`, `spawned` before
the rule for the others), `up`, at the awaits of `stop()` (`unbind`, `read`, `remove`,
`terminate`), or where it ended: `stopped`; `skipped` (`mtorig` with no upstream);
`failed` (dropped by `_start_responders`); `cancelled` or `unreaped` (caught by the
deadline before or after its rules were out).

`rules[r][f]` is the kernel's: the counters of the rules with `r`'s comment in family `f`,
as a sequence, because a check that times out on a rule that is there adds a second one.
It is all that outlives the process, with `iface`. `bytes[r]` is the daemon's own counter,
`statusFile` and `latched` what OpenVPN makes of it every five seconds and what the
listener remembers of that; `pipe` are lines of the daemon's output that `_monitor_output`
has yet to read. `captured` is what `stop()` froze. `snapshot` is what `/snapshot` will
answer (`CommitSnapshots`), `report` the verdicts of the saved report (`FinalizeResults`);
`ListenerVerdict` is what the client makes of the former.

The client's traffic is `Handshake` and `Exchange`, a stranger's is `Scan`. A host command
that fails or times out is a `Fault`; `faulted` says whether the current run had one. The
remaining variables are history that the properties speak of: what the client really
achieved (`reached`, `moved`, `settled`), and why a rule may have counted something else
(`inherited`, `selfTested`, `fronted`).

### Importer

`pc` is the point of `_import_once`: `idle` between passes, `listing` after the check of
the root, `scanning` while `_list_report_files` goes from one directory to the next, `dirs`
between two directories of the import, `files` between two files of `testId`, `settling`
between the two stats of `_is_file_stable`. The pass is split where it looks at the disk
again or awaits: `_list_report_files` is `ListRoot` (`iterdir`, which leaves the `names`), a
`ListTestDir` for each name, and `OpenSession`, and others write, delete and hide between any
two of them. The `is_dir` and the `glob` of one directory are one look; a directory that goes
in between is kept without files, and its run is dropped either way. The transaction is a
second copy of the tables (`txRuns`, `txRows`) that `Commit` publishes and `Crash` throws
away. A row is named by the file it came from, and a file by its place in the order of the
names, which is the order in which the importer visits them. The scores that are written
beside the rows are left out.

`ReportDb` sees whether `reports/` is there, the files in it, the directories the pass has
looked at with what it saw in each, and the committed tables. `StartPass` is its `Begin`, which
needs the root; `ListRoot` and `ListTestDir` are `Look`, or `Miss` when the root has gone by then;
`Commit` is its `Commit`, `Crash` its `GiveUp`, every change of the workspace its `Change`, and
everything else stutters. A directory that `iterdir` did not name is looked at with `ListRoot`.
`Miss` is the window of the guard (section 4): a pass that began over an empty or missing
workspace is excluded, one that loses it on the way is not.

### EchoServer

The listener's handlers of one protocol, on the loopback behind a SOCKS responder
(`via = "socks"`) or on a tunnel's address. A handler of `/throughput` is in `request`,
`draining` (`writer.drain()`), `closing` (`writer.wait_closed()`) or `polling`
(`_measure_throughput_via_counter`), and every handler comes to `ending`, the `wait_closed()` in the
`finally` of `_handle`, which has no timeout; `before`, `prev` and `same` are its locals, `took` is
`wait_closed_duration`, fixed before the poll, and `figure` is `throughput_mbps`, as units over ticks.
`cut` says how the waits of a connection went: to the end (`whole`), broken by the peer
(`hung up`), or into the timeout while draining (`undrained`) or closing (`unclosed`). `wire` is the byte counter of the rule in the kernel,
`status` and `registered` the two objects in the process that say the rule is there, which
`SubprocessResponder.stop` empties one after the other (`RemoveRule`, `EmptyStatus`,
`StopResponder`) while handlers still poll. `Tick` is the clock and the link: at most `Rate`
units leave the buffers, and no timer is overslept (`Due`).

### ClientProbes

`at` is the protocol that is probed and `pc` the point of its probe, which is an await or a
subprocess; `todo` is the rest of the shuffled list. `world[p]` is the path to the responder:
how many exchanges it carries, what becomes of the next one (silence, the end of the stream,
a reset; on the way out or back), and who answers. `heard[p]` is what the listener saw of it
and what its snapshot is derived from. `devices` and `child` are what the probes create on
the client's host; `Kill` leaves the devices, and `Relaunch` starts over them. A fault of the
client's own host is counted in `faults` and remembered in `troubled`. `CrossVerify` is the
table: `Agreed` (`_agreed_verdict`) of each row's two sides, a protocol that the snapshot
lacks being read as all zeros. `Session` sees all of this as the one step `FinishProbes`.

### Measurements, Scoring, SoloRun

A module asks *questions*, kinds of attempt such as `"ownSni"` or `"dohAccess"`, in the
order of `Questions(m)` and each as often as the code does (`Answered`): the tcp module makes
all attempts, tls and http stop at the first success or final error, the others ask once.
`asked[m][q]` is the sequence of its attempts at question `q` with their replies, and `Open(m)` the
positions of the questions that have no answer yet. `censor` is what happens on
the path, and `Answers` says which replies it leaves possible; an attempt may also be `lost`,
at most `MaxLosses` times. `ResultsOf(m)` turns the attempts into the results, by the operators
of `Measurements`, one for each decision of the code. `pc[m]` and `phase` are the runner's:
`StartParallel` and `Gathered` are the `asyncio.gather`, `StartSerial` and `SerialEnded` the
loop after it, `Absorb` is `_absorb_module_outcome`. `Scoring` is evaluated on the saved
results by `BetterNeverScoresLower`, in hundredths of a percent where the code has floats.

### Abstractions, and what they leave out

* Requests with a wrong path, token or method are answered 401/403/404 before any
  state is touched, and are left out. A body that is malformed, empty or cut off posts
  an empty set of numbers; `measured` may be empty.
* Numbers are reduced to "there is one": `clientThroughput` is the set of protocols
  with a posted value. A snapshot entry is `seen`, `unseen` or `error`.
* The read of `client_ip` is one step with the end of `echo_server.stop()`: nothing
  awaits between them. `client_throughput()` is one step with the finalisation, which
  does not await either. The enrichment of `client_ip` is part of `SaveReport`.
* The probe loop is one step of `Session` (`FinishProbes`); it is bounded by its per-probe
  timeouts, which is `LoopFinishes` of `ClientProbes`.
* The importer sees a file as absent, partly written or whole, and a whole one parses or
  does not; a partly written file does not parse. An exception while one file is imported
  rolls its savepoint back and counts as a file that does not parse; one that ends the
  pass is `Crash`. A file's content never changes once it is whole, as reports are written
  once under a name with a timestamp. The name has the session id before the timestamp, so
  `NamesAreChronological` speaks of the attempts of one session only: two clocks that disagree
  about their order are excluded, since the start times and the names of mixed old and new
  reports could then contradict each other. Nothing is assumed of two sessions.
* What a daemon does on the wire is not under `src/`; `Handshake`, `Exchange`, `Scan` and
  `ForgetPeer` follow what the responders' comments say of it and count on. Counters are
  reduced to the thresholds that are asked of them (`Levels`, `Counts`). Sing-box, xray and
  hysteria differ only in the text of their log lines. Two protocols with one prefix of a
  comment are left out; the throughput counters are in `EchoServer`.
* `Read` takes OpenVPN's status and its rule in one step; `_read_status` does not await and
  what arrives in between is below the threshold of one of the two either way.
* A protocol of `ClientProbes` is a sequence of two to four exchanges, and a path carries the
  first so many of them: neither packets that are lost and sent again nor the bytes of an
  exchange are told apart. Removing an interface that is there fails only as a fault; that of a responder
  of the WireGuard kind may fail in `stop()` and leaves the interface (`Terminate`).
* A YAML body that does not parse is one outcome of `ReceiveCreds`, after which the client
  has given up with its serve spent.
* In `EchoServer` a unit of data and a tick stand for any amount and any time; what matters
  is that the body is larger than the buffers (`N > Buffer`) and that both timeouts are
  reached. Plain echoes and bad requests are `Answer`.
* A handler thread of the executor that a module abandons at an outer timeout
  (`modules/tls.py:459-468`, `modules/dns.py`) ends by itself and is left out: `QuietUplink` is about the modules.
* Every measurement module has one target of each kind, so the limits on concurrency inside
  a module and averages over targets do not appear, other than the telegram health score.
  `Answers` and `Silence` are not code: they say what each censor lets through, and include
  servers that refuse, redirect or fail on their own.
* `Scoring` rounds down to hundredths of a percent; the lists of blocked and of recommended
  protocols are left out.
* Self-tests run before `bind_stop_event` and are the time spent in `binding`.

## 3. Runs

Bounds: `MaxServes = 1` as in the code. One client with two attempts reaches every
overlap of an abandoned handler with its retry; a third attempt adds a second
abandoned handler in the same states. Two clients are the smallest race for one serve
and are interchangeable (symmetry, in a run without liveness). One latching and one
echo-routed protocol are the two kinds the session tells apart. One signal is the
graceful stop, or a death at any other moment; `session_retries` has none, since there the
question is what a session ended by its client keeps, and `session_two_clients` has the
operator race for the end. The constants `MaxAttempts` (attempts of one route), `MaxSignals` and the
model values are the only bounds; there is no state constraint.

The importer's instance has six files: three attempts of one session in one directory, of
which the first and the last decide by their start times and the middle one, an old report
without, by the names; a report of the same session id in another directory that must not
interfere; one solo report with results and one without. `MaxChanges` counts what others do to the workspace (finishing a file and bringing
the root back are free), `MaxCrashes` the passes that die. Three changes write two attempts
and delete one; the fourth brings in the solo report or hides the root. Safety and convergence are
asked of the same run. The deadlock check is off because the model of the workspace may come to rest while the root is away.

Responders do not interact except through the phases of the listener, so the instance has
one responder, of any of the five kinds, in one address family. Two families with
`MaxFaults = MaxStrangers = 1`, and two responders of the kinds `mtorig` and `wireguard` in
one run, were checked once with the same result and are covered by the proofs. Two runs of
the listener are the smallest crash and recovery. Two faults are one per run, or two that
meet, such as a clean-up that fails and a check that times out; two strangers are a failure
line without a start before and after one with a start.

Probes run one after the other and share nothing but the host, so `client_probes` has one
protocol, of any of six kinds; three launches are one that is killed over clean ground, one
that is killed over what the first left, and one that must not be misled; two faults are a
removal that fails and something else. `echo_server` has two connections because two
measurements of one protocol read one counter; a body of two units on a link of one unit a
tick is in flight for two ticks, and both the 30 s of the poll (`MaxPoll`) and the 35 s of the
waits (`Timeout`, `_THROUGHPUT_RESPONSE_TIMEOUT_SEC`) are longer and reached. `solo_run` enables at most two modules at a time
(`MCActiveSets`): modules meet only in the gather, in the serial loop and in the scores, and
the sets pair a parallel with a serial module, two serial ones, and the two that are scored
together; the other four run alone. With `Repeats = 3` an even split of the attempts does not
exist, but three different outcomes do: on a path without a censor one tcp attempt is open, one
that is lost times out and another fails on the host, and the tie is decided by
`Severity` (`TieIsCautious`). Three losses are all attempts of one question.

| run | properties | instance | what it shows |
|---|---|---|---|
| `session_retries` | `TypeOK`, `RemoteStopKeepsThroughput`, `RemoteStopMeansConnected` | Clients = {c1}, Protocols = {wg}, Latched = {wg}, MaxServes = 1, MaxAttempts = 2, FetchAttempts = 2, SnapshotAttempts = 1, MaxSignals = 0, PeersMayVanish = FALSE | One client whose /creds and /stop requests are retried once, lost at every point and answered late, against the whole teardown of a listener nobody else ends: what the client posted and who it was reach the report whenever the client ended the session. |
| `session_two_clients` | `SingleUse`, `NoTeardownUnderProbes`, `RemoteStopKeepsThroughput`, `ImplementsProbeSession` | Clients = {c1, c2}, Protocols = {wg}, Latched = {wg}, MaxServes = 1, MaxAttempts = 1, FetchAttempts = 1, SnapshotAttempts = 1, MaxSignals = 1, PeersMayVanish = FALSE | Two clients race for the one serve of /creds, and the operator for the end: only one ever holds the credentials, nobody else can end the session under its probes, what it posted is reported, and every step of them all is one that ProbeSession promises or invisible to it. |
| `session_protocols` | `SnapshotIsFinal`, `LatchedViewsAgree` | Clients = {c1}, Protocols = {wg, ss}, Latched = {wg}, MaxServes = 1, MaxAttempts = 1, FetchAttempts = 1, SnapshotAttempts = 1, MaxSignals = 1, PeersMayVanish = FALSE | One latching and one echo-routed responder, with cancelled stop()s, failing live_snapshot()s and traffic until the end: the snapshot is taken after the responders are down and agrees with the report for the latching one. |
| `session_liveness` | `SignalSavesReport`, `ClientsFinish`, `BoundStopEndsWait` | Clients = {c1}, Protocols = {wg}, Latched = {wg}, MaxServes = 1, MaxAttempts = 1, FetchAttempts = 1, SnapshotAttempts = 1, MaxSignals = 1, PeersMayVanish = TRUE | With peers that may fall silent in the TLS handshake: after the first Ctrl+C the report is saved unless a peer stalls or the operator insists, a client always ends, and a /stop handler that found the event bound ends the wait. |
| `importer` | `TypeOK`, `OneAttemptPerSession`, `ImplementsReportDb`, `Converges` | Files = {1, 2, 3, 4, 5, 6}, TestIds = {"t1", "t2"}, Solo = {5, 6}, Listener = {1, 2, 3, 4}, Broken = {}, Empty = {6}, RootMayVanish = TRUE, MaxChanges = 4, MaxCrashes = 1 | Six files in two directories: in one, three attempts of a session of which the middle one has no start time and a solo report; in the other, an attempt under the same session id and a solo report without results. They are written, half-written, deleted and hidden at any moment of any pass, one of which dies: a pass begins only while reports/ is there, every commit is true to the looks it took at the directories, each at a moment of its own, and once the changes stop the tables come to match the files and stay so. |
| `responders` | `TypeOK`, `OkIsEarned`, `CountersStartFresh`, `ExchangeIsOk`, `SnapshotIsReport`, `HostLeftClean` | Resp = {a}, KindsInUse = {"socks", "mtg", "mtorig", "openvpn", "wireguard"}, Families = {v4}, MaxRuns = 2, MaxFaults = 2, MaxStrangers = 2 | One responder of each of five kinds, over two runs of the listener on one host with a crash at any point, host commands that fail or time out, scanners, and stop()s cancelled anywhere: no OK that nobody earned, no exchange reported as less, one verdict in the snapshot and in the report, and a clean host. |
| `client_probes` | `TypeOK`, `VerdictIsEarned`, `OpenPathIsOk`, `FinalOkReachedListener`, `DroppedAnswersAreNotOk`, `NothingLeftBehind`, `LoopFinishes` | Protos = {a}, KindsInUse = {"openvpn", "wireguard", "amneziawg", "socks", "mtg", "mtorig"}, MaxRuns = 3, MaxFaults = 2 | One protocol of any kind over every path that carries some of its exchanges and drops, ends or resets the rest, in three launches of which two may be killed at any step, with two local faults: what the verdicts may say of the path, that dropped answers are no final OK unless they are dropped between a length and its body, what stays on the host, and that the loop ends. |
| `echo_server` | `TypeOK`, `FigureIsLinkRate`, `HandlersEnd` | Conns = {c1, c2}, N = 2, Rate = 1, Buffer = 1, Samples = 1, MaxPoll = 3, Timeout = 4, MaxFaults = 1 | Two connections that may be measured at once on one counter, over a link of one unit a tick, while the rule, its status and the responder go away under them, readings fail, peers hang up or stop reading: no figure is faster than the link, and every handler has its figure and ends, except that one whose drain() timed out may wait for its peer in the last wait_closed(). |
| `solo_run` | `TypeOK`, `NothingLost`, `QuietUplink`, `BlockedIsEarned`, `TieIsCautious`, `CensorIsSeen`, `BetterNeverScoresLower`, `RunEnds` | Repeats = 3, MaxLosses = 3, MaxRaises = 1 | One solo run against each of twelve behaviours of the path, with up to three lost attempts and one crashing module: the report is complete, serial modules run alone, lost packets alone are not censorship, attempts that all differ are judged by the gravest, each censor is named, and less censorship never scores lower. |

Runs that exhibit a disagreement between the code and what it says of itself (section 4):

| run | property | what happens |
|---|---|---|
| `session_lost_wakeup` | `AckedStopEndsWait` | A /stop handler reads the unbound event, main.py binds it and reads stop_requested, and only then the handler sets it: the acknowledged stop wakes nobody. |
| `session_stalled_peer` | `EndpointStopIsBounded` | A peer silent in the handshake keeps the accept thread from noticing shutdown(): stop() never returns and the report is never saved. |
| `responders_self_test` | `OkNeedsTheClient` | The loopback self-test of mtproto_orig is answered, the rule of the OUTPUT chain counts the answer, and the report says OK without any client. |

Fairness. `FairSpec` asks weak fairness of every step of the main coroutine, of every
thread of the endpoint and of every client that was started: operating-system threads
and the event loop run when they can, socket timeouts fire, probes have timeouts. It
asks nothing of the operator, of traffic, of a client that was never started, and a
stalled handshake is never obliged to end. `session_liveness` switches the deadlock check
off: with a stalled accept thread a listener whose `stop()` waits for it really stands
still (the finding of `session_stalled_peer`). In `Importer`, `FairSpec` asks weak fairness
of the importer's own steps, which `_import_loop` justifies: it catches every exception,
sleeps and starts over. Nothing is asked of the writers, so a file may stay half-written
for ever. In `ClientProbes` the probe that runs and the cross-verification are fair, because
every wait of a probe is a `wait_for` or a `run_cmd` with a timeout; nobody has to kill or
launch the client. In `EchoServer` a handler that can go on does, and time passes while a
handler is in a wait with a timeout; no peer has to read, write or hang up, so a handler whose
`drain()` timed out may stay in its last `wait_closed()` for ever, which `HandlersEnd` allows and
section 4 reports. In `SoloRun` weak fairness of `Next` suffices: every attempt has a
timeout, and a run has finitely many steps.

## 4. Where the code and its comments disagree

* **`AckedStopEndsWait`** (`listener/src/censprobe_listener/cred_server.py:515`, run `session_lost_wakeup`). _serve_stop copies the event under the lock but sets _stop_requested after the lock, and bind_stop_event reads _stop_requested under the lock: with the handler between its two steps neither side wakes the loop, and an acknowledged /stop leaves the listener waiting. cred_server.py:203-206 says "If a client already POSTed /stop before main.py bound the event ... set it now so the listener doesn't hang waiting for a second signal."
* **`EndpointStopIsBounded`** (`listener/src/censprobe_listener/cred_server.py:176`, run `session_stalled_peer`). The listening socket is wrapped, so serve_forever runs each TLS handshake itself with no timeout; a peer that goes silent there blocks the accept loop, and shutdown() waits for that loop. main.py:609-611 says "cred_server.stop is synchronous and doesn't wait for in-flight handlers, so this is cheap and bounded."
* **`OkNeedsTheClient`** (`listener/src/censprobe_listener/mtproto_orig_responder.py:409`, run `responders_self_test`). The rule matches every PSH,ACK segment that leaves the port on OUTPUT, the loopback included, and is not zeroed after the self-test of main.py:739, which sends a real req_pq over 127.0.0.1 and is answered: stop() (lines 319-321) makes connection_count at least 1 of it, which is all that data_transfer_ok asks, so the report says OK with no client. mtproto_orig_responder.py:392-393 says "We count packets where the server emits a TCP segment with PSH+ACK set — i.e. a data-bearing response from mtproto-proxy back to the client."

Met while modelling, without a run of their own:

* mtg hands a TLS client without the secret to its fronting host
  (`core/protocol_probes.py:1464-1467`), and the rule counts what comes back: such a
  scanner gives the mtg responder `data_transfer_ok` and an OK with no handshake at all,
  although `core/models.py:387-391` says that the counter only ticks "once a successful
  handshake has completed". `fronted` in `Responders` is this exception to `OkIsEarned`.
* `listener/main.py:573-575` says that building the snapshot after `stop()` makes it
  identical to the report; for a responder whose `stop()` was cancelled the two read
  different fields (`SnapshotIsReport` is about the others).
* `client_throughput()` is read once (`listener/main.py:628`), after `cred_server.stop()`,
  which does not wait for handlers: a `/stop` whose body is merged later is acknowledged and
  its numbers are in no report, although `client/main.py:610-611` says the listener merges
  them into the final report.
* An older attempt that loses the upsert touches nothing, so its run is not rescored
  (`sync_api/main.py:796`), while any later recompute counts the same file: by the code, which
  the models leave out here, the scores depend on the order in which files came.
* OpenVPN's latch is said never to miss a window (`listener/openvpn_responder.py:203-205`);
  bytes of the last five seconds before `stop()` are not in the status file yet, so a
  handshake that late is reported as BLOCKED (`settled` asks for the file to be written).
* `mtproto_orig` has no other signal than its rule, so without CAP_NET_ADMIN it is always
  BLOCKED, cap check or not: `data_counters_available` promotes a handshake, and there is
  none.
* `MTProxyResponder.data_transfer_ok` says that hosts without iptables fall back to
  HANDSHAKE_ONLY (lines 276-279); `finalize` promotes them to OK.
* A "concurrency limited" line of mtg has no start line before it and takes the start of a
  real stream back (`listener/mtproxy_responder.py:216-222`).
* mtg and OpenVPN install their rule after the settle window, the race that
  `listener/mtproto_orig_responder.py:261-265` says was closed there.
* An `ip link` that works and a `wg` command after it that fails leave the interface; the
  next start deletes it.
* `listener/main.py` reads `client_ip` before the drain (line 592), during which `/creds` is
  still served: a client that fetches then ends a session that the report calls
  unconnected, which `core/models.py:475-479` excludes.
* The snapshot is built before `echo_server.stop()` (line 577) and the report reads the
  same live counters after it, although `listener/main.py:575-576` calls them identical.
* `sync_api/main.py:534-536` calls `listener_session_count` the number of sessions joined
  to the run; line 541 counts the listener files, also two attempts of one session, which
  share a row.

* `/creds` spends its serve before it knows that the reply arrives (`cred_server.py:395`): when
  it is lost, the retry is answered 410 and the client gives up, while the report says that a
  client connected (`cred_server.py:235`).
* The docstring at `sync_api/main.py:503-506` makes the check of `reports/` a safety guard against
  wiping the database; if the directory goes away between that check and the listing
  (lines 509-512), what is yet to be listed is taken for empty and the runs are deleted. `Miss`
  of `ReportDb` is this window. They come back with the next pass that sees the files, as
  `Converges` shows.
* `probe_mtproto_orig` promises "BLOCKED — any TCP RST" (`core/protocol_probes.py:2378`); a
  reset during a read raises out of the probe and is an ERROR. It and `probe_mtproto_proxy`
  promise HANDSHAKE_ONLY where the length does not come, and return BLOCKED; a body that does
  not come is promised to be an ERROR, and is BLOCKED where `_TlsRecordReader` has nothing
  buffered.
* `orig_resPQ_body_timeout` is one of the markers of an asymmetric path
  (`core/protocol_probes.py:86-91`), but comes only with an ERROR (lines 2227-2228), while
  `_agreed_verdict` (`client/main.py:1179-1198`) takes the marker of a BLOCKED only: a mtg whose
  answers are dropped from the body on, and whose rule counted them, ends as a final OK.
  `DroppedAnswersAreNotOk` names this case as its exception.
* `_wg_peer_rx_bytes` is to tell a real ping from a faked one by `rx_bytes > 0`
  (`core/protocol_probes.py:477-484`); the peer's handshake response has made it positive
  before the ping is sent, so on a host that fakes pings a tunnel's OK is worth its handshake
  (`spoofs` in `VerdictIsEarned`).
* A protocol that the snapshot lacks is cross-verified as if the listener had counted
  nothing, and not, as `client/main.py:544-548` says, shown without listener data.
* The second Ctrl+C of `listener/main.py:413-418`, which is to abort a stuck `stop()`, is
  handled only while the listener waits: the handlers are removed (lines 442-448) before the
  teardown begins.
* `read_counter_bytes` says that its callers treat 0 as "no measurement"
  (`_iptables_counter.py:173-174`); `echo_server.py` does so with None only, so a first reading
  that fails makes the whole counter the figure (`misread`), and a rule removed during the
  measurement no figure at all.
* The comment at `echo_server.py:394-396` wants a low figure for a client that hung; a
  transfer of more than 30 s leaves the poll no time for a reading, and the figure is None
  (`TooLate`). A peer that hangs up while `wait_closed` waits is recorded with the full body.
* `echo_server.py:452-454` gives the throughput transfer a hard ceiling "so a permanently stuck
  transfer doesn't wedge the handler"; after a `drain()` that timed out the `finally` of
  `_handle` (lines 308-314) awaits `wait_closed()` without one, and a peer that neither reads nor
  hangs up keeps the handler there (the exception of `HandlersEnd`).
* The retries of the TLS handshake are to mitigate "transient packet loss"
  (`modules/tls.py:232-234`), and the last failure decides: a server that rejects the neutral
  SNI and then one lost packet give BLOCKED, and the SNI blocking that the rejection proved is
  no longer attributed (`BlockedIsEarned` excepts it).
* `RUNS_COUNT=0` is accepted; `modules/http.py` then makes no attempt and reports a timeout,
  BLOCKED, for every target (`MeasurementsAssumption` excludes it), where tls makes one.
* `_majority` says that its tie-break makes the outcome order-independent
  (`modules/tcp.py:250-252`); two outcomes of one verdict that differ in the method, one each,
  are decided by which came first.
* `_test_https_domains` says that an owned certificate makes a telegram domain INCONCLUSIVE
  (`modules/telegram.py:441-443`); the code makes it OK. `_capture_cert` resolves the name
  anew, so a page that failed under a poisoned resolver may be fetched from the right
  address and be called OK, although the docstring speaks of the resolved IP (line 532).
* A UDP `sendto` without a route is BLOCKED in `modules/cloudflare.py`, a connection without a
  route INCONCLUSIVE in `modules/telegram.py`.
* `scoring.py:146-148` takes its latencies for kernel-side ones; an attempt that fails has only
  the wall clock, and a tcp module that crashed scores the neutral 50.

## 5. Proofs

`Session_proofs` proves, for any finite set of clients, any set of protocols and any
value of the bounds allowed by the `ASSUME`s of the modules:

* `TypeOKAlways`: Every variable of the session keeps its type, for any number of clients, protocols and attempts.
* `SingleUseAlways`: At most _MAX_SERVES clients ever hold the credentials; the inductive invariant counts serves left, answers being written, answers on the wire and holders.
* `SnapshotIsFinalAlways`: A client only ever reads the committed snapshot, taken with every responder down.
* `LatchedViewsAgreeAlways`: For protocols whose stop() latched the counter, the committed snapshot and the saved report agree.
* `RemoteStopMeansConnectedAlways`: A session ended by a client is reported with client_connected=True.
* `StopperInvAlways`: The inductive invariant of the end of a session: unless the operator ended it, a client that is past its probes did, and the endpoint had merged its numbers before it woke the main loop.
* `NoTeardownUnderProbesAlways`: With _MAX_SERVES = 1 the responders are torn down under a probing client only when the operator signals.
* `RemoteStopKeepsThroughputAlways`: With _MAX_SERVES = 1 the numbers a client measured are in the report of every session that a client ended, whatever became of the answers.
* `PromiseInvAlways`: What the mapping to ProbeSession needs beside the other invariants: when there are responders, who has read the snapshot, and what the draft of the report is.
* `ImplementsProbeSessionAlways`: Session refines ProbeSession: every step of the listener, its threads, the clients and the operator is a step that the session promises or changes nothing of it, for any clients, protocols, serves, retries and signals.

The argument of each:

* **TypeOK** is inductive by itself, one step per action, and every other proof
  uses it.
* **SingleUse** is not inductive: a client may come to hold the credentials from a
  reply that left the server long ago. `ServesBound` counts, for every state, the
  serves left plus the connections that stand between the lock block and a client's
  possession: handlers about to write the YAML, replies on the wire, and clients that
  hold it. No step raises the sum above `MaxServes`.
* **SnapshotIsFinal** and **LatchedViewsAgree** need `SnapshotInv` (the committed dict
  exists only after the responders are down, is written once, and every body, reply and
  client copy is that dict) and `ViewInv` (a latched responder that was stopped has one
  value of `saw` from then on, and snapshot, draft and report were each taken from it).
* **RemoteStopMeansConnected** needs `PeerInv`: a `/stop` handler, a set stop flag or a
  set event implies a recorded first peer, since a client posts `/stop` only with the
  credentials it got from a serve that recorded it.
* **NoTeardownUnderProbes** and **RemoteStopKeepsThroughput** follow from `StopperInv`, the
  chain from a wake-up back to the client that caused it: a `/stop` handler belongs to a
  client that is past its probes (`PostedInv`), it merges that client's numbers before it
  sets the flag or the event, and a main loop that left the wait without a signal was woken
  by such a handler (`HeardInv`). That this client is the only one that ever probes is
  `OneHolder`, from **SingleUse** and `MaxServes = 1`. The two theorems have this equation as
  a hypothesis: it is the value of `_MAX_SERVES` (`cred_server.py:56`), and with a second
  serve a client that stops does end the session under the other one.
* **ImplementsProbeSession** puts these together. `Grant` has a serve left by **SingleUse**
  after the step; `Close` has its cause by `StopperInv`; `Publish` happens once and `Read` reads
  what was published by `SnapshotInv`; the saved report is `True` by `ViewInv` for the settled
  protocols, by `PeerInv` for `connected` and by `StopperInv` for the numbers. `PromiseInv` adds what
  none of them says: nothing is started before `_start_responders` returns, a client holds a
  view only when it is done, and the draft is a report with numbers of started protocols
  only. There is a lemma per action that maps to one of `ProbeSession`, and three for what
  stutters (`ServerStutters`, `MainStutters`, `RequestsStutter`). `MaxServes` need not be 1. The value
  that stands for "no report yet" must not be a report (`ListenerMainAssumption`).

`Importer_proofs` does the same for `Importer`, for any files in any directories:

* `TypeOKAlways`: Every variable of the importer keeps its type, for any workspace.
* `OneAttemptPerSessionAlways`: No session id ever has two rows in one run, inside a transaction or out of it, so scalar_one_or_none never raises.
* `ImplementsReportDbAlways`: Importer refines ReportDb: a pass begins only while reports/ is there, looks at each directory once, at a moment of its own, and every commit is true to these looks, for any files, deletions, directories that come and go between two looks, and dead passes; only attempts of one session need names in the order of their starts.

* **OneAttemptPerSession**: `RowsInv` says that both the tables and the transaction hold one
  row per session id; an import deletes all earlier attempts (`ReplaceAttempts`), and every
  other step only removes rows.
* **ImplementsReportDb** needs `PassInv`: a directory that the pass has yet to visit has in
  the transaction the rows it has in the tables; one that it has visited has a run exactly
  if the listing showed a file in it, and only listed rows; and every report that was
  listed and had rows still has them or has given way to a later attempt (`Kept`), which
  rests on `NamesAreChronological` (`OlderAttempt`), an assumption about the attempts of one
  session only. `PassInv` speaks of what was listed and never of the
  workspace, which has moved on since.

`Responders_proofs` does the same for `Responders`, for any responders of the five kinds,
any families and any number of runs, faults and strangers:

* `TypeOKAlways`: Every variable of the responders keeps its type: no count of handshakes goes below zero.
* `HostInvAlways`: The inductive invariant of the host: every rule and interface is held by somebody, of an earlier run, or the trace of a command that failed.
* `HostLeftCleanAlways`: A listener that ends by itself and whose commands worked leaves no rule, and no interface of a responder that came up, whatever runs came before and whoever scanned it.
* `CountersStartFreshAlways`: No responder counts on a rule of an earlier run unless a host command failed in this one.
* `OkIsEarnedAlways`: No report says OK of a responder that the client did not get through to, for any number of runs, faults and scanners, the four exceptions of the property aside.
* `SnapshotIsReportAlways`: The verdict the client derives from the snapshot is the one of the report, for every responder that finished its stop().
* `ExchangeInvAlways`: The inductive invariant of a completed exchange: what every counter, daemon figure and captured statistic of a responder must show once a client has finished its exchange with it.
* `ExchangeIsOkAlways`: A responder whose client finished the exchange on a host without faults is reported OK, of every kind and at whatever moment its statistics are read.

* **HostLeftClean** and **CountersStartFresh** follow from `HostInv`: `CourseInv` says which
  `pc` values occur in which phase, `HoldingsInv` which families and interfaces a responder
  holds at each of them, and `RulesInv` that in a run without a failed command a family has
  a rule only while its responder holds it or before preflight has seen it. Preflight is
  where the rules of an earlier run go, and `Install` the only step that could count on one. The
  interface has `LinksInv`: a deletion that fails leaves it and is remembered as a fault.
* **OkIsEarned** follows from `CreditInv`, the way of a packet to a verdict: a rule that may
  still be read is silent until there was cause (`QuietInv`), a captured count is zero
  (`CaptureInv`), so are the daemon's bytes, the status file and the latch (`BytesInv`), and
  the report says OK of nothing else (`ReportInv`). `TrafficTicks` and `CreditKept` say what
  one step can add: a tick has a cause, and a cause does not go away within a run.
* **SnapshotIsReport**: between the commit and the report the counters go on. `TakenInv` and
  `ReadingInv` say that what a stopped responder is asked for is frozen by then
  (`StoppedIsStill`, `SameReading`).

* **ExchangeIsOk** follows from `ExchangeInv`, for every kind of responder what a completed
  exchange leaves where the statistics are read from: while the responder runs, its rule is
  there and has counted (`WatchInv`), or its daemon has (`DaemonInv`); once it has stopped,
  the captured figures say so (`CaughtInv`); and a report that was settled on them says OK
  (`SettledReportInv`). `TickRaises`, `TickHolds` and `TotalHolds` say what a tick does to a counter.

`EchoServer_proofs`, for any finite set of connections and any rate, buffer and time limits:

* `TypeOKAlways`: Every variable of the echo server keeps its type: sums of bytes and of waiting units included.
* `FigureIsLinkRateAlways`: No throughput figure is faster than the link, however many handlers overlap and whichever way the figure was made: from the counter, or from wait_closed_duration, also where the poll lost its counter.

* **FigureIsLinkRate** follows from `EchoInv`. A wire figure divides a difference of two
  readings of one counter, which every connection's bytes enter, by the time of the
  measuring handler. `WireRate` bounds what the counter gained since the first reading of a
  measurement by `Rate` times that handler's time, and `QueueRate` does the same for the queue of a
  connection that nobody cut; `Clocks` ties the handler's time to its deadlines. A poll that loses
  its counter falls back to `took`, the time of the wait alone, so `QueueRate` bounds `N` by `took` and
  the buffers from the end of the wait on. For the types, the counter plus what the
  connections may still send (`Left`) is at most the number of connections times `N`
  (`WireBound`), so no reading exceeds that (`ReadingBound`). `Left` is summed over the
  connections, and a tick moves units from several of them to the counter at once: that is
  where `SumLemmas` comes in.
* `SumLemmas` proves what it needs about `FoldSet` by induction over the subsets of a finite
  set. The library's induction theorems have an operator parameter; `SubsetInduction` and
  `NatSetInduction` have a set instead, and follow from `WFMin` on a least counterexample.

`SoloRun_proofs`, for any sets of enabled modules and any bounds:

* `TypeOKAlways`: Whatever replies and losses come in which order, no question is asked more often than RUNS_COUNT, the faults keep their bounds, and only enabled modules are reported.
* `NothingLostAlways`: The saved report has of every enabled module either its name among the failures, once, or all its results in the order of the registry, whichever modules raise and however the gather interleaves them.
* `BlockedIsEarnedAlways`: On a path without a censor a blocking verdict means as many lost attempts as its test allows for, for any RUNS_COUNT and any bound on the losses.
* `CensorIsSeenAlways`: Without losses every test that a censor disturbs reports it with the method that names it, for any RUNS_COUNT and any set of enabled modules.
* `BetterNeverScoresLowerAlways`: No score of the saved report falls when one of its results becomes better, for any weights and any listener reports.
* `QuietUplinkHolds`: While a serial module runs no other module does, for every set of enabled modules, whatever the modules find, lose or raise.

The inductive invariant is `SoloInv`; `SoloStep` has one lemma per action of the runner and of
the modules, and each property follows from it by one lemma of its own.

* **QuietUplink** needs `QuietInv`: the serial modules wait until the gather is over
  (`SerialWaits`), after which no parallel one runs (`ParallelOver`), and the second serial
  module waits until the first one is merged or is not enabled (`InTurn`). A module that is
  not enabled never runs (`OnlyActive`).
* **NothingLost** needs `ResultsInv`: at any time the results are, in the order of the registry,
  those of the modules merged so far that did not raise (`Reported`). A merge appends, so this
  holds only because everything merged earlier comes earlier in the registry: that is what
  `InTurn` is for, and `InOrderJoins` and `AbsorbStep` show it. `FailuresInv` says the same of the failures, and
  `DoneInv` that a module which returned has an answer to all its questions and asks no more.
* **TypeOK** and the next two need `AttemptsInv`, for each question: there are at most `Repeats`
  attempts, each reply is one the path allows or one of a lost packet, and every attempt but
  the last was one after which the code asks again.
* **BlockedIsEarned** and **CensorIsSeen** follow from `AllSound`: the results of a module that is
  done are `Sound`, whatever mixture of replies it got. It rests on one lemma for each decision
  of the code (`SystemFits`, `SynFits`, `OwnSniFits`, `NeutralFits`, `GetFits`, `HealthFits`,
  `TriggerFits` and the tests that ask once). Two are more than a case distinction: for `SynFits`, in a
  majority no outcome is more frequent than the winner (`MajorityIsUnbeaten`), so that a gravest
  verdict that won was at least as frequent as the open attempts, by counting the positions of each, and for `OwnSniFits` and `GetFits`, where the last attempt
  was lost all of them were, as any answer of such a path would have ended the asking
  (`AllAttemptsLost`).
* **BetterNeverScoresLower** is `ScoresRise` of `ScoringLemmas`, a fact about the operators of
  `Scoring` alone. A better result may leave the counted results of `OkPct` or enter them, so the two
  fractions have different denominators; the lemmas compare them through the cardinalities of
  the selected positions, and carry the comparison through weights, penalty and means.

`ClientProbes_proofs`, for any finite set of protocols of any kinds over any paths, and any
numbers of launches and local faults:

* `TypeOKAlways`: Every variable of the probe loop keeps its type, the flags of a ProbeResult agree with its verdict among it.
* `VerdictIsEarnedAlways`: No probe says more of a path than it carries, for any number of protocols of any kinds, local faults and launches.
* `OpenPathIsOkAlways`: Over an open path a launch without a local fault says OK of every protocol, in the probe and in the table, however many killed launches came before.
* `FinalOkReachedListenerAlways`: A final OK was heard by the listener: data, or a handshake where there are no counters.
* `DroppedAnswersAreNotOkAlways`: An MTProto protocol whose answers are silently dropped on a path that is not open is never finally OK, whatever the listener counted, unless its probe read the length of an answer and timed out in the body.
* `NothingLeftBehindAlways`: A probe that ended has no process and, where deleting worked, no device left, those of killed launches included.

* The inductive invariant is a conjunction per protocol, so that a step of one probe is
  checked for that protocol alone: `OthersStay` carries the invariant over for the others and
  `AfterIsEnough` puts the two together.
* **VerdictIsEarned** needs `Way`: what has been exchanged by the time the probe is in a stage.
* **OpenPathIsOk** needs, for the probe, that pre-cleaning without a fault leaves no device
  (`CleanInv`) and that the last stages are only reached with an OK (`OpenInv`); for the table,
  that the listener has heard the second exchange by then.
* **DroppedAnswersAreNotOk** rests on `DroppedInv`, that a BLOCKED over a path that drops in
  silence carries a marker unless not even the first exchange came through, and on `HeardInv`,
  that the listener then counted nothing. Four lemmas, one per step of the MTProto probes,
  show it through `NothingReadFails`. An ERROR carries no such marker into the table; the one that
  leaves an OK, `resPQ_body_timeout`, is the exception in the property.
* **NothingLeftBehind** needs to know where a process may run at all: only in the stages
  `Stripped`, which end in `Down`.
* The rows come from `Finalize` and `Agreed` (`FinalizeTyped`, `AgreedIs`): the final verdict is
  the listener's or HANDSHAKE_ONLY.

Assumptions: the named `ASSUME`s of `CredServer`, `ListenerMain`, `ClientRun`,
`IptablesCounter`, `Responders`, `ReportFiles`, `Importer`, `ClientProbes`, `EchoServer`,
`Measurements`, `Scoring` and `SoloRun`, which TLC evaluates on every run.

Every invariant and every action property of a passing run is stated by a theorem, but for
`TieIsCautious`, which TLC checks. Only model-checked are also the liveness properties, which
are out of the prover's reach, as is anything about `ENABLED`; and no theorem says what a recursive definition
computes for every input. Where an argument needs an induction over a finite set, it is done
with `SumLemmas`.

## 6. Not modelled, and the plan

What is left, in the order in which it would add most:

1. `SnapshotPoll`: the poll of `/snapshot`, about 15 s, against the deadlines of the teardown,
   20 s, with a clock; `Session` has their order but not their durations.
2. `SyncPull`: serve and pull, retried, against a server that may be gone.
3. `ImportRace`: two replicas of the importer on one database, statement by statement,
   with PostgreSQL's read-committed isolation.
4. The read-only HTTP API and the parser's translation of old verdicts.
5. NOTRACK rules and the refresh of the proxy configuration in the listener's preflight.
6. Proofs: what a module of 1 to 4 promises, as it is written. The invariants and action
   properties of the modules that exist are proved.

Left out for good: Grafana dashboards (generated), credential generation and the YAML
parsers (straight-line code that either returns or fails), the rich-text output, and
the bytes and the cryptography of the protocol clients (whether an exchange came through is
what enters the rest).
