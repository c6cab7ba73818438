# A verification project for pi-sensor

pi-sensor watches doors: a Raspberry Pi agent at each door reports OPEN or
CLOSED over MQTT to a server, which keeps the state, tells a dashboard, Home
Assistant and a phone, and archives what it saw. This directory holds TLA+
models of the server, its two pages, the agents and the programs beside the
server (the log forwarder, the guard before its start, the renewal of the
broker's certificate), the TLC runs that check them and TLAPS proofs of the
properties that matter most. Paths below are relative to the repository.

    tlc -workers 2 -config SensorServerFaults.cfg MCSensorServer.tla
    tlapm SensorServerProofs.tla

`PROJECT.json` lists every run with the properties it checks, every modelled
definition with the source lines it stands for, the hazards, and for every
checked property a mutant of a definition that breaks it.

## 1. The system

| part | state it keeps | operations | talks to |
|---|---|---|---|
| agent (`agent/main.go`) | last status in memory and in a status file, an outlet | poll the pin, publish a change, switch the outlet, heartbeat every minute, restart on request | MQTT at QoS 0, a smart plug |
| status and heartbeat handling (`cmd/server.go:117-149, 362-529`) | Redis state keys, `delayTimerMap`, `heartbeatTimerMap`, running timers | handle a status message, handle a heartbeat, the functions of the two kinds of timer | Redis, Home Assistant over MQTT, ntfy, the websocket, Postgres |
| open-timeout configuration (`cmd/web.go:198-251`, `cmd/server.go:102-115`) | table `sensorconfig`, `sensorConfigChan`, `sensorConfigMap` | GET, POST, receive an update, load at startup | Postgres; the status handler reads the map |
| arming (`cmd/web.go:117-180`) | Redis arming keys | set one, toggle one, set all | Home Assistant, Redis; the status handler reads the keys |
| data retention (`cmd/server.go:230-280`) | table `status`, S3 object, local file | count, select, download, append, upload, delete, compare | Postgres, S3 |
| full backup (`cmd/server.go:282-305`) | S3 object, local file | read all rows, write the file, upload | Postgres, S3 |
| dashboard (`cmd/socket.go`, `cmd/web.go:264-302`, `frontend/src`) | one `socketConn`, page state | list on connect, updates afterwards, POSTs | Redis; everyone who stores a status |
| event report (`cmd/web.go:94-115`, `postgres.go:58-114`, `ReportPage.js`) | the page's sensor, page and number of pages | a page by limit and offset, the number of pages | Postgres |
| certificate renewal (`internal/cmd/update-cert`) | a firewall, a challenge server, `/tmp/shutdown` | renew, clean up | DigitalOcean, ssh, certbot |
| log forwarder (`log-forwarder/main.go`) | an unbuffered channel, journalctl's pipe | tail the journal, post lines, stop a unit that restarts too often | Datadog, systemd |
| 1Password rate limit (`internal/pkg/op`, `op-limit-check`, `entrypoint.sh`) | a ticker | parse the limits, wait until the exhausted one is reset, start the server | the `op` command |

**How they interact.** The MQTT client delivers messages in order and one at a
time, so the status handler and the heartbeat handler never overlap each other.
Everything else overlaps them: the functions of `time.AfterFunc` timers, one
goroutine for each HTTP request, the tickers of the two backup jobs, the
goroutine that receives configuration updates. No lock is taken anywhere.
Shared state is either a service (Redis and Postgres, one call at a time), a Go
map, or the WebSocket connection, the last two used without synchronisation.

**What is hard.** Each handler is a sequence of calls to services, any of which
may fail and end it half way; timers are held in a map whose entries are
overwritten; a timer that has fired cannot be stopped; read and write back are
separate calls with other goroutines in between; the process may be replaced
between any two calls; rows are identified by a timestamp of whole seconds;
several goroutines write to one connection; a page is cut by offset from a table
that moves. `PROJECT.json` lists these hazards line by line.

**What makes each part correct.**

* status handling: once the newest report of a sensor has been handled to its
  end, no view of it contradicts another; the timer held for a sensor fits its
  stored state; an opening of an armed sensor is never stored before its push
  was answered; no open-timeout alarm starts for a closed door; the alarm about
  an open one is not lost; a heartbeat timeout is recorded. Seen from outside,
  the server is a monitor of doors (`DoorMonitor`).
* configuration: timers use only timeouts the table held, fall behind it only
  while an update is on its way, and every POST is answered while the channel can still be sent to.
* arming: Home Assistant and Redis agree, "all" means all, a toggle toggles.
* retention: a row disappears only when it is in the backup, up to the
  granularity of timestamps, never under a success message; the backup never
  shrinks; the maximum of rows stays.
* full backup: the object holds the rows the run read.
* agent: what it published last is what the server was told last, it repeats
  no status, and its outlet fits its door, unless something was lost on the way.
* dashboard: the newest page shows the stored status once nothing is under way.
* report: going through the pages passes over no row.
* certificate renewal: success leaves nothing open, no renewal's server is
  stopped by what an earlier one left, Mosquitto loads matching files.
* log forwarder: neither goroutine waits for the other for good; units that loop
  are stopped and others are not.
* rate limit: a start let through finds its quotas, the guard waits only while one
  is used up, and the server is started.

## 2. Modules

| module | models | proofs |
|---|---|---|
| `DoorMonitor` | what the server promises about a door (abstract) | |
| `SensorServer` | status and heartbeat handling | `SensorServerProofs`, `SensorSystemProofs` |
| `Retention` | data retention | `JobsProofs` |
| `FullBackup` | full backup | `JobsProofs` |
| `Jobs` | composes `Retention` and `FullBackup` | `JobsProofs` |
| `OpenTimeoutConfig` | open-timeout configuration | `OpenTimeoutConfigProofs` |
| `Arming` | arming | `ArmingProofs` |
| `Agent` | the agents, their outlets and their link to the server | `AgentProofs`, `SensorSystemProofs` |
| `SensorSystem` | composes `Agent` and `SensorServer` | `SensorSystemProofs` |
| `CertRenewal` | certificate renewal | `ProgramsProofs` |
| `LogForwarder` | log forwarder | `ProgramsProofs` |
| `StartGuard` | 1Password rate limit and the start of the container | `ProgramsProofs` |
| `Programs` | composes `CertRenewal`, `LogForwarder`, `StartGuard` and `Agent` | `ProgramsProofs` |
| `Dashboard` | the WebSocket connection and the home page | `PagesProofs` |
| `Report` | event report | `PagesProofs` |
| `Pages` | composes `Dashboard` and `Report` | `PagesProofs` |

The modules with an `MC` module (`MCSensorServer`, `MCRetention`, ...) are those
TLC runs; the others are checked through the module that composes them.

### DoorMonitor and SensorServer

`handler` is the activation of `handleSensorStatusSubscribe`; its `pc` names the
service call it makes next, so one action is one call together with the local
code up to the next one: `ReceiveStatus`, `ReadState`, `WriteFirst` (the first
report ever, server.go:432-439), `ReadArming`, `PublishHA`, `Push`, `SetTimer`
(the switch at 481-500), `WriteState`, `SendMessage`, `InsertRow`. `RedisFails`,
`PublishHAFails`, `PushFails` and `InsertRowFails` are the early returns; a call
that changes something may have done so before its error was returned.
`sendPushNotification` does not ask for the status of the answer: an error of ntfy
that comes with a JSON body is no early return, and `Push` notes it as `refused`
while `ntfy` is faulty. `timer`
is the heap of open-timeout timers and `delayTimerMap` the server's map into it;
`StartTimer` overwrites the map entry as the code does, `Free` is the garbage
collector, which lets a bounded set of identities stand for unboundedly many
timers. A timer goes from running to `firing`, where `Stop` no longer reaches
it, and `HandleOpenTimeout` is its function. `lapse[s]` is the program counter
of `handleHeartbeatTimeout`. `SetArming` is the last write of the arming
handler, `Restart` the replacement of the process, at any step.

Of a status message the source and the status are kept; timestamps matter only
in `Retention` and `Report`, timeouts in minutes only in `OpenTimeoutConfig`,
and a timer runs out at any moment. `ha`, `ws`, `db` and `ntfy` record what the
services were told last. `reported` and `torn` are history: the last report
received, and the sensors whose last report was not handled to its end.
`Events`, `Reports` and `Faulty` say what may happen in an instance. Messages
that do not parse and heartbeats of type `app` change nothing and are left out.
At most one `handleHeartbeatTimeout` per sensor is in flight: two need five
minutes between their starts.

`DoorMonitor` has neither services nor program counters: the newest report of a
door, the status stored for it, what was notified since that report, and the
clocks that run. `Store` stores the newest report and nothing else, `Announce`
takes an OPEN report over another stored status, `Alarm` takes a clock, and a
clock starts only under an OPEN report and stops only under a CLOSED one.
`Monitor` in `SensorServer` is the refinement mapping: `report` is `reported`,
`stored` is `redis`, `told` is `ntfy` without what was refused, and the clocks of a sensor are its timers
that run or fire. It gives no promise
about a door that is closed in reality while its clock still runs: that is the
server's fault with repeated reports (section 4), and the monitor has it too.

### Retention, FullBackup and Jobs

`job` of `Retention` is a run of `runDataRetention`, one statement or S3 call per
step, while `Insert` goes on. `stamp` gives every row its second: `SameStamp` is
what one `DELETE ... WHERE timestamp = $1` removes, `Oldest` what `ORDER BY
timestamp LIMIT n` may return when ties are broken arbitrarily. A row may get any
timestamp at any time, since heartbeat timeouts insert old ones. Files and the
object are sets of rows: order and repetition of lines are left out.
`DiskCanFill` lets the ignored `Flush` lose rows, of either job, as both write with
`WriteBackupFile`. No statement asks `rows.Err`, so a select of either job may also
return a part of its rows and go on (`SelectsBreakOff` in `FullBackup`).

The local file of `FullBackup` is a sequence of lines and `Overwrite` is what
writing from the start of a file that is not truncated does. Lines have the same
length here, so the cut line between new and old text does not appear. `Trim` is
a retention run's effect on the table.

`Jobs` composes the two. All that passes between them is the table, which
`FullBackup` has with `Trim` and `Insert`; so a behaviour follows one job, named
by `which`, and the other stands still. `Programs` and `Pages` compose parts
that share nothing at all in the same way (`program`, `path`): a product would
multiply their states and show nothing more, as no step of one part reads or
writes another's variables.

### OpenTimeoutConfig

`request` holds the POST handlers: `Post` is the range check, `Store` the
upsert, `Send` the channel send, which waits while the buffer (capacity one,
server.go:29) is full. `Receive` happens once, since the goroutine returns
after its first update. `Load` is the select at startup: it does not ask `rows.Err`
either, so with `SelectsBreakOff` the map may lack any of the rows, and the timers
of those sensors run with the default of five minutes until an update is received.
`stored` and `skipped` are history: what the table has held since the process
started, and the sensors whose row the map lacks since.

### Arming

`request` holds the POST handlers of the three kinds. Home Assistant is told
before Redis is written. `Text` is what a body's `armed` may say: any string, which
is published and written as it is, except that the empty one makes a request for one
sensor a toggle; in a request for all it is a value like others. Errors are as in
the code: a failed read of a toggle counts as a missing key, a failed `KEYS` as no
keys at all (`MissAllArming`, which reports success), a failed `GET` of a request for
all ends it (`ReadAllArmingFails`), a failed publish is only logged, a failed write
ends the request. `misread` notes the two errors that are ignored. `overlapped` and `torn` are history: the requests that ran while
another one did, and the sensors whose last publish or write failed or was an
overlapped request's. The properties speak of the others.

### Agent and SensorSystem

`agent[s]` is the process: the loop reads the pin (`ReadPin`), writes the status
file (`WriteStatus`), compares and publishes (`PublishSensorStatus`) and, with
`OutletEnabled`, switches the outlet on a change (`SwitchOutlet`), each a step at
which it may end (`Exit`). `Start` reads the status file. `Misfortune` says what
may go wrong: a write of the file (which truncates it first), a publish, the
link, an agent that ends half way through a poll. Each marks the sensor
`disturbed`, which is history, as is `behind`, the outlets that missed the last
change. Ending between two polls is not a misfortune: it is what a restart from
the dashboard usually does.

`SensorSystem` instantiates both modules, without outlets. `Deliver` joins the
link's delivery to `SensorServer`'s `ReceiveStatus`; every other step is of one
side and leaves the other unchanged. Nothing forbids a repeated status here: that
agents do not repeat one is what the composition shows.

### CertRenewal

`op` is the command that runs, with a step for every function that `renewCert`
and `cleanup` call; `Fail` ends it at any of them. `server` holds the challenge
servers, `shutdownFile` is `/tmp/shutdown`. `Poll` is the ticker's look at it,
`Shutdown` the main goroutine's call, which closes the listener, and `Exit` the
end, up to five seconds later. `polled` is history and carries the one timing
assumption: when the `sleep 2` of `ensureCertServerStopped` is over (`Sleep`),
every process has looked for the file, which it does every second, and one that
saw it has closed its listener. It need not have ended.

### LogForwarder

Three goroutines and a loop. `reader` is the scanner: a line beyond 64 KB ends it
(`bufio.Scanner` gives up), empty lines and those of systemd are dropped, every
other line is handed over (`HandOver`) on the channel without a buffer. `poster`
is main, which posts (`Post`) or, at a line that does not parse, returns.
`WaitReturns` is the goroutine around `cmd.Wait`: after an error the channel is
closed and the process ends, after a success only that goroutine does and the
channel stays open with nobody to send. `monitor` reads a unit's restart counter
and stops the unit in two commands. A post that fails counts as forwarded: the
code prints a message and does not post again. systemd starts a forwarder that
has ended (`StartAgain`).

### StartGuard

A container runs `entrypoint.sh`: the guard (`LimitCheck`), then `op run`, which
draws on the quotas in `Needed`. The table that `op` prints is data: rows in a
fixed order, each with what is left and, for the exhausted ones, one of several
texts for the reset time (seconds, minutes, both, "N/A", something else), and one
line that is no row at any place. `ParseOPResetDuration` and
`ParseRateLimitOutput` are the two functions over it, written with folds. The
script does not stop at an error, so a guard that panics lets the start through, and
so does one whose maintenance page cannot be served (`MaintenanceFails`, the
`log.Fatal` at op-limit-check/main.go:39): the quota is still used up then.
`ContainerEnds` is the server's end, or the platform's ending of a container that
waits. `excuses` is history: why a start may fail although the guard has run. That
`op run` fails for another reason than the quotas is left out.

### Dashboard

A status is the number of the report that stored it. `Connect` puts the new
connection in `socketConn`; then the handler reads the keys (an error is dropped
and makes an empty list) and the status, takes a writer from whatever connection
is the newest by then (`ListNextWriter`) and writes (`WriteList`). Two goroutines
that store statuses, the MQTT handler and a heartbeat timeout, write their
updates likewise. `NextWriter` ends the message that is open, and two flushes at a
time panic (`ConcurrentFlushPanics`): both are how `src/` uses a library, and are
marked external in `PROJECT.json`. The page takes a list as it comes, lets an
update go before the list, listens for updates of sensors on the list only, and
never reconnects. `StoreFirst` stores the first status of a sensor, which is not
sent. `disturbed` and `unserved` are history, and what `PageShowsStored` excuses.
`disturbed` are the connections on whose way the stored status went astray: it was
the sensor's first (server.go:432-439) and the list was read before; it reached a
page without the sensor, which had no list yet or one that lacks it
(HomePage.js:67-73); it was lost to another writer; it was followed by an older
status or list; or it came in a list the page passed over. `unserved` are those whose
own list was not written, was lost, went to another page, or lacks the sensor as
`KEYS` failed. So a page open when a sensor reports for the first time never shows
it until it is loaded again. The next status stored begins with no connection
disturbed.

### Report

`fetch` holds the fetches under way: `Select` and `Count` are the two statements,
`TakeReply` what the page does with the answer. `FirstRows` gives every set that
`ORDER BY timestamp DESC LIMIT n` may return, so ties fall differently each time.
Rows come and go meanwhile. `walk` is history: a user who goes from the first
page on, and the rows still owed.

## 3. Runs

| run | instance | shows |
|---|---|---|
| `server_faults` | 1 sensor, 2 timers, 3 statuses, repeats, heartbeat timeouts and restarts, failing Redis, Home Assistant, ntfy, Postgres | `TypeOK`, `ViewsAgree`, `TimerMatchesState`, `ArmedOpeningAnnounced`, `MonitorsDoors` |
| `server_live` | 1 sensor, 2 timers, repeats, heartbeat timeouts and changes of the arming, fairness | `OpeningIsTimedOut`, `LapseIsRecorded` |
| `server_orphan` | 1 sensor, 2 timers, repeats | `AlarmOnlyWhileOpen` is violated |
| `jobs` | retention: 5 rows, 3 seconds, maximum 2; full backup: 4 rows, maximum 1; errors, crashes, selects that break off, a disk that does not fill up | `JobsTypeOK`, `LossOnlyByTie`, `StoredMeansBackedUp`, `StoredKeepsMax`, `ObjectHoldsSnapshot`, `BackupOnlyGrows` |
| `retention_disk_full` | 5 rows, the disk may fill up | `StoredMeansBackedUp` is violated |
| `full_backup_stale` | 4 rows, maximum 1, complete selects, a disk that does not fill up | `ObjectIsSnapshot` is violated |
| `config` | 2 sensors, 3 POSTs, minutes 0, 1, 60, 61, a startup select that may break off | `TypeOK`, `TimersUseStored`, `StaleOnlyInFlight`, `PostsAreAnswered` |
| `config_lost_update` | 2 sensors, 2 POSTs, complete selects | `UpdatesReachTimers` is violated |
| `arming` | 2 sensors, 3 requests, 3 texts, overlapping or not, failing Redis and Home Assistant | `TypeOK`, `HAFollowsRedis`, `AllMeansAll`, `ToggleSwitches` |
| `system` | 1 agent, every misfortune, 2 messages in flight; server with 2 timers and restarts | `TypeOK`, `ServerFollowsAgent`, `FalseAlarmTakesDisturbance` |
| `programs` | renewal: 2 processes, 2 files, 2 certificates; forwarder: 2 lines, pipe of 2, 1 restart allowed; guard: 3 quotas; 1 agent with an outlet | `ProgramsTypeOK`, `SuccessLeavesNothing`, `ChallengeUndisturbed`, `PidFileNamesServer`, `LoadedIsNewest`, `LinesAreForwarded`, `StopsOnlyLoops`, `LoopsAreStopped`, `FailedStartsAreExplained`, `WaitsOnlyWhileUsedUp`, `ServerIsStarted`, `OutletFollowsAgent` |
| `pages` | home page: 2 connections, 2 goroutines that store, 3 statuses; report: 4 rows, 3 timestamps, 1 sensor, 2 fetches at a time, pages of 2 | `PagesTypeOK`, `PageShowsStored`, `WalkMissesNothing` |

**Bounds.** Two timers are enough for a running one, its orphan and, through
`Free`, any number of ended ones in sequence; a third adds a second orphan and
nothing else. One sensor has every interleaving of the handler with its own
timers and timeouts; the proofs cover any number. In `system` the server has no
failing calls, heartbeat timeouts or changes of the arming, which touch neither
the link nor the timers and are `server_faults`'s matter; two messages in flight
let one be lost from before or behind another.
Five rows with a maximum of two and three seconds give batches of up to three
with every pattern of ties inside and across the batch, and inserts between the
statements. Four rows of a full backup give an object three rows longer than the
next snapshot. Three POSTs are one that the goroutine receives, one that stays in
the buffer and one that waits for good unless the process is restarted:
`PostsAreAnswered` excuses it by name (`ChannelStuck`), and nothing but it. Three
arming requests let two overlap or fail and a third follow; their texts are the two
the code tells apart and "true", which stands for every other string, as no code
of the server tells "true" from one.
Minutes are the two bounds and their outer neighbours. Two challenge servers
are one that drains and the next; two certificates an old one and a new one;
commands follow one another without a bound. Two log lines let one be in the
pipe behind one that ends the reader, is dropped or is being posted; restarts
are counted up to one beyond the limit, above which the code tells them no
longer apart. Three quotas with periods of 1, 2 and 4 ticks and limits of 1, 2
and 2, of which the start draws on the last two, let an exhausted quota stand
before or behind another with a longer or a shorter wait, and one be exhausted
that the start does not need; a minute is two ticks, so a text can be exact,
mixed or rounded. Two connections are a page and the one that takes its place; two
goroutines are all that store statuses at a time for one sensor; three statuses
are one before, one in and one behind the list. Four rows in pages of two are two
full pages, or three pages once a row is inserted under the walk.

**Deadlock** is checked except in `arming` and `pages`, where a finite set of
requests, or of connections, statuses and rows, comes to an end.

**Fairness.** `FairSpec` of `SensorServer` has weak fairness for the handler's
steps, for the two steps of every timer and for the steps of every heartbeat
timeout: goroutines that can run do run, a timer left alone runs out, and calls
return. The last is an assumption the code does not secure for ntfy, whose
client has no timeout (server.go:547). There is none for reports, heartbeats,
users and failures. `FairSpec` of `OpenTimeoutConfig` has it for the store, the
send and the receive, which is enabled only while it can proceed.
`ForwarderFairness` has weak fairness for the reader, main and the goroutine that
waits, and strong fairness for the monitor's two commands: they are tried every
five minutes, and one that does not fail for ever succeeds in the end. That a post
returns is an assumption here too, as its client has no timeout
(log-forwarder/main.go:152). The units,
journalctl and systemd have none. `GuardFairness` is that time passes, the script
goes on to its next command and the platform starts a container that ended.

## 4. What the runs found

* A repeated OPEN orphans the sensor's running timer (server.go:492); CLOSED
  then stops only the newer one and the user is alarmed about a closed door.
  Agents repeat a status when a CLOSED is lost (at QoS 0, by a failed publish, or
  with an agent that ends between writing its status file at agent/main.go:174
  and publishing at 182) and when they restart without a readable status file.
  `system` shows that it takes one of these.
* The error of `Flush` is dropped (s3.go:178): rows are deleted and reported as
  stored although a full disk kept them out of the backup.
* The full backup's file is not truncated (s3.go:159). In the trace of
  `full_backup_stale` retention has shortened the table since an earlier run wrote
  its rows to the local file: the next run overwrites only the beginning of the file
  and uploads the tail of the earlier rows too, under a message that does not count
  them.
* The goroutine that is to receive updates of the open timeout receives one
  (server.go:113).

Not counted as findings, as nothing in the repository says otherwise: a timer
keeps the arming of the report that started it (server.go:490), so disarming an
open sensor does not silence its alarm; two overlapping toggles can switch once
(web.go:155); a failed renewal leaves port 80 open until a renew or cleanup
succeeds; a restart loses open-timeout and heartbeat timers; a sensor first seen
OPEN has no timer; a heartbeat does not bring a sensor back from UNKNOWN, and
Home Assistant is never told UNKNOWN; only the newest page gets updates, and a
list may go to a page that did not ask for it (socket.go:24-66); of two replies
of the report the later one is shown, whichever question it answers; a select
that breaks off backs up less, or nothing, without a message (postgres.go:176), and
one at startup leaves timers on the default of five minutes (postgres.go:228);
a full backup on a full disk uploads what fitted under a success message
(s3.go:178); the third POST of an open timeout after a start is never answered
(postgres.go:214); an armed opening whose push ntfy refused in JSON is stored
unannounced (server.go:547-560); a request for all whose `KEYS` fails reports success
having written nothing (redis.go:72); any string but "false" and the empty one arms a
sensor, while its page shows only "true" as Armed (SensorPage.js:81); a page open
when a sensor first reports does not show it (server.go:432-439);
the guard waits for the first exhausted quota of the table only (op.go:47), and
panics on a reset time of "N/A", which lets the start through, as a maintenance page
that cannot be served does (op-limit-check/main.go:39).

## 5. Proofs

The theorems hold for every value of the constants that satisfies the module's
assumption: any set of sensors, timers, rows, requests, processes, files, lines,
quotas and statuses, any limit, any events and faulty services. The assumptions
say of which sets the constants are (`SystemAssumption`, `ProgramsAssumption` and
the others; TLC evaluates them in every run); where a theorem needs more, its
ASSUME says so: `~DiskCanFill`, `Alternating`, or that Redis and Home Assistant do
not fail. Every safety property that a passing run checks is a theorem.

`SensorServerProofs`. `TypeOK` alone is not inductive: `Push` and the failures
index by `handler.source`, so `Basic` adds that the handler has a source exactly
when it is not idle (`HandlerInv`) and that a timer in use has one
(`TimerInv`). `ViewsAgree` says nothing while a report is handled, so its
strengthening says how far the stores have come at every step: a sensor without
a Redis key was never shown anywhere (`FirstInv`), the key's existence does not
change under the handler (`KeyInv`), and what the handler has written stands but
for an UNKNOWN written over it (`ProgressInv`). `TimerMatchesState` needs that
map entries are timers of their own sensor (`MapInv`, so that stopping one
leaves the others alone) and that the switch's effect lasts until the state is
written (`SwitchInv`). `Inv` is the conjunction; the step lemmas have one step
per action.

* `TypeCorrect`, `ViewsAgreeAlways`, `TimerMatchesStateAlways` are invariants.
* `ArmedOpeningIsAnnounced` is a step property, from `Inv` and `AnnounceInv`:
  past the push, an armed handler that has just opened has an answer of ntfy. That the
  answer may be a refusal is the code's, and the statement says so.
* `AlternationMeansNoFalseAlarm`: under `Alternating` (no repeats, only OPEN and
  CLOSED, no errors of Redis and Home Assistant) no alarm starts for a closed
  sensor, in spite of restarts, heartbeat timeouts and failing pushes, inserts
  and sockets. `AlarmInv` says that every running timer is the one in the map.
  `server_orphan` shows that the assumption cannot be dropped.

* `ServerMonitorsDoors` is `Spec => Monitor!Spec`, without any assumption on
  repeats or faults. The initial states map, and each action maps to one of the
  monitor's or a stutter. The step that needs an invariant is the push: the
  handler decides that a sensor has just opened by the status it read at its
  first step, the monitor by the one stored now. `LastInv` says that since then
  it can only have become UNKNOWN, over which an OPEN is an opening too.

The steps of the alarm proof are stated for one sensor (`AlarmStep`): it needs
only that the reports of that sensor alternate, which is what `SensorSystemProofs`
can show of a sensor that nothing went wrong about.

`JobsProofs`. Retention: `BackupGrows` needs that between download and upload the
local file holds all of the object. `LossOnlyByTieAlways` needs that the batch
is in the object once rows are deleted, and `StoredMeansBackedUpAlways` the
counting argument: the statements' row counts add up to the number of rows they
removed, these include the batch, and equal cardinalities then mean equal sets.
`StoredKeepsMaxAlways` compares the count with the table, which only grows until
the first delete. The two about loss assume `~DiskCanFill`, which
`retention_disk_full` shows to be necessary, and so does the one about the full
backup's object, whose rows may be missing from a full disk's file too. All hold with selects that break off.
Full backup: `ObjectHoldsSnapshotAlways` from `FullInv`: while a run is under way
no message stands, and once it has written its rows the local file begins with
them, which is what `OverwriteBegins` says of a file that is not truncated.
`TypesCorrect` bounds the count of a message by the number of rows: `OnceInv` says
that a row enters the table once, so neither it nor what a run reads of it has a
row twice (`InsertedDistinct`), and an injection does the counting
(`NoMoreThanRows`).

`OpenTimeoutConfigProofs`. Both speak of what the startup select left out
(`skipped`) by name. `TimersUseStoredAlways` from `StoredInv`: what the
table, the channel and the requests past the store hold has been stored.
`StaleOnlyInFlightAlways` from `StaleInv`, which follows an update through the
request and the channel to the map; that the receiver has not returned means
that at most one value has left the channel.

`ArmingProofs`. `HAFollowsRedisAlways` needs to know how far Home Assistant and
Redis have come (`StepInv`): a sensor that is not torn is in step unless a request
is between its publish and its write, and what an undisturbed request has
published stands until it writes it. It says that the two hold the same string,
and not only that they agree on armed. That of two requests under way both count as
overlapped is `AloneInv`. `AllMeansAllAlways` and `ToggleSwitchesAlways` are step
properties that add what an undisturbed request of each kind has left to do
(`KindInv`).

`AgentProofs`. `TypeCorrect` from `TypeInv`: an agent past its start has a last
status, from the file or UNKNOWN, and one past its read a current one, so that only
OPEN and CLOSED reach the link. `OutletFollowsAgentAlways` from `OutletInv`: the file is
ahead of the outlet only between its write and the switch.

`SensorSystemProofs` composes. It takes the two proof modules as `AP` and `SP`, by
INSTANCE with the agents' reports and the system's events. `SystemRunsServer` shows
that every step of the system is, seen from the server, a step of `SensorServer`
(`ServerPart`: the agent's message is a report it may be sent, with `repeat` among
its events also one it was told before) and a step of `Agent` seen from the agents (`AgentsPart`). So
`SystemKeepsPromises` and `TypesCorrect` are theorems of the parts, cited, and
nothing is proved twice.

Two properties are about both parts. `ServerFollowsAgentAlways`: `Expected(s)` is the
last message in the link or, with an empty link, the server's last report;
`Follows(s)` says at every step of an agent what its memory and its file have to do
with it. Only the link touches both sides, so the server's own steps leave it
alone, whatever they do. `FalseAlarmsTakeDisturbance`: `Follows` also says (`Alternates`) that the
messages of an undisturbed sensor alternate in the link, beginning with the
opposite of the server's last report, so what is delivered is never a repeat
(`ReportsAlternate`); a disturbed sensor stays so (`DisturbedStays`); `UndisturbedStep`
then carries `AlarmInv` of the undisturbed sensors by the server's `AlarmStep`.

`ProgramsProofs`. Certificate renewal: one process at most is past the guard and
the pid file names it (`PidInv`): a process that exits removes the file only while
it is its own. With the file of the last stop removed before the start (`StopInv`)
nothing reaches the new server during the challenge. A command past its stop and
its firewall step has nothing left (`FirewallInv`), and the script restarts
Mosquitto only past the copies of all files (`FilesInv`). Log forwarder:
`StopsOnlyLoopsAlways` from `MonitorInv` (a monitor about to stop a unit read a
counter above the limit, and the counter only rises until it is set back); that what
is in the pipe, with the reader or with main has been logged is `ForwarderInv`.
Agent: `ProgramsRunAgents`, as above, makes `OutletFollowsAgentAlways` a citation.

Guard: `FailedStartsAreExplainedAlways` and `WaitsOnlyWhileUsedUpAlways` are about what
two functions compute of a table. The table may have any length: its first deciding
line is a minimum, which `MinIsLeast` gets from the well-founded order of the
numbers, without induction over the table; the rows before and behind the inserted
message are where `Place` says. The fold that parses a time runs over one or two
parts and is unfolded (`TimeOfOne`, `TimeOfTwo`), so `TimeIsRead`: the time read is
never more than the time meant, and equal to it unless rounded. `OutputIsRead` joins
the two: a positive wait is one a used-up quota needs, and without an excuse one that
every needed quota does with. `GuardInv` carries this over the wait: clock and quotas
tick together, a quota that is used up is not used, and it is to be reset
(`QuotaInv`). A wait that `MaintenanceFails` ends early has an excuse.

`PagesProofs`. `PageShowsStoredAlways` from `CarryInv`: for the newest connection
the stored status is always somewhere on its way (being read for the list, in an
update about to be written, on the wire) or shown, unless it went astray in one of
the ways the property names; `SentInv` adds that an update never carries the empty
status. `WalkMissesNothingAlways` rests on ranks. `FirstByRank` says that a row
tied with no other is among the first n exactly if fewer than n rows are newer. So
the rows a walk still owes have a rank of at least the rows of the pages already
seen (`WalkInv`); an insert only raises a rank, a deletion of older rows leaves it,
and the number of pages counts the page of every row behind (`CountedBehind`). The
fetches of the report carry this over their three steps. `PagesTypeCorrect` adds
that no fetch holds more rows than a page.

Only model-checked: the liveness properties (`OpeningIsTimedOut`, `LapseIsRecorded`,
`PostsAreAnswered`, `LinesAreForwarded`, `LoopsAreStopped`, `ServerIsStarted`), since
fairness and ENABLED are beyond the provers used here. What a fold computes over
data of any length is beyond them too, as the induction theorems take an operator
as a parameter; the one fold of the models runs over the parts of a time, of which
the texts that op.go:76-84 lists have two at most. The four properties that runs find violated are
theorems of nothing; `AlternationMeansNoFalseAlarm` and the ASSUMEs of the
retention theorems say where two of them do hold.

## 6. Not modelled

Sessions and login are a library's cookies; metrics, encryption, Tailscale and
bucket statistics are stateless calls; deployment scripts have no run-time state.
Of modelled parts these are left out: the GET of the open timeout, which reads one
row, and the sensor page's form that shows it; the arming shown with the list; the
report's blank choice and the grid's own pagination (whose row ids are the
timestamps); the hourly Tailscale check of the agent, which only logs; the
firewall entry of the start script; two renewals at a time, and the contents of
firewalls and certificates.

## 7. Plan

Done: all parts of section 1, the abstract monitor with its refinement, and the
proofs of section 5. Left, in this order:

1. The sensor page's form over `OpenTimeoutConfig`, and two renewals at a time.
2. The safety halves of the liveness properties as theorems, where they say
   something of their own.
