# A verification development for Privateerr

Privateerr registers a WireGuard key with Private Internet Access (PIA), saves
the resulting configuration for Gluetun, and, with automatic recovery enabled,
watches Gluetun and replaces the registration when the tunnel stays down. These
modules model the parts of it in which order, failure and time matter: the
two-file publication, the recovery timers, the choice of servers, the upstream
scripts that register and what is made of their output, the HTTP requests and
their deadline, the start of Privateerr up to its readiness, and the
conversation between the supervisor, Gluetun and the files they share.

All paths below are relative to the repository root; line numbers are those of
the modelled commit.

## 1. Inventory

| part | state | operations | hard behaviour |
|---|---|---|---|
| `settings.py`, `Store` | `wg0.conf`, `privateerr.env`, their `.new` files, `.privateerr-commit` (journal), `.privateerr-pending`, a `ready` marker in each directory | `retain`, `publish`, `resume`, `connection_settings` | a crash between any two file operations, half-done removals, ignored errors, retries |
| `supervisor.py`, `step` | `failed_since`, `next_attempt`, `delay` | one observation per interval | threshold and cooldown measured from different instants |
| `supervisor.py`, `select_endpoint` and `recover` | `failed_ips` | choose a server, rotate | preference, restriction, starvation |
| `supervisor.py`, `run`, `resolve_pending`, `recover` | the pending candidate | compare, confirm, publish, submit | uncertain updates; each API call is an interleaving point |
| `gluetun-entrypoint-wrapper.sh` | waiting, or past its loop | wait for the pair, source the metadata, exec Gluetun | races with a publication, waits for the supervisor |
| Gluetun (external) | running settings, health, VPN status | API, health listener, restart | late updates, restarts on the saved pair |
| `generation.py` | staging directory, process group, token file, deadline, the line being read | run the upstream scripts, read their output, write the metadata | cleanup on every exit, orphans, shared deadline, lines that arrive in pieces |
| `client.py` | the alarm, SIGALRM's handler | `get`, `apply`, `healthy`, `catalog` | an alarm that expires before or after any statement, a server that stalls or truncates |
| `main`, `config.py`, `diagnostics.py`, `privateerr-healthcheck.sh` | readiness marker, modes | start in one of four modes | stale marker, degraded directory |
| `scripts.py` | two installed scripts | stage and replace | two replacements that are not atomic together |
| `qbittorrent-port-forwarding.sh` | qBittorrent's port and interface | `up`, `down` | a late `up` after a `down` |
| `log.py` | the credentials to mask | redact | credentials that contain each other or that terminal sequences interrupt |
| `data.py` | none | narrow JSON | none of order or time |
| `scripts/compose`, `scripts/awk`, `.github/scripts`, `test` | none of their own | operator and CI commands | outside the program |

How they meet: the supervisor is one thread. It calls the generator (which runs
child processes), the store, and Gluetun's API through the client. It shares the
published files and the commit directory with the wrapper, which only reads
them. Gluetun is told of a new registration twice: at once through the API, and
at its next start through the files. The pending directory is the supervisor's
memory of what it told Gluetun; the journal is its memory of what it was saving.

What makes each part correct:

* Store: a restart always finds one complete version; a candidate is not
  forgotten before it is saved; no reader sees a file half written.
* Timers: attempts are neither too close nor too late, need a real outage, and
  announce doubling delays.
* Selection: the best permitted server, every server in the end.
* Generation: one script at a time, the token of its own attempt, an end to every
  attempt whatever its scripts do; the server name of the registration, however
  its script's output is cut into chunks; metadata that describe one server.
* Requests: no alarm outlives its request, no request outlives its deadline, no
  truncated answer counts, and none is taken for Gluetun's refusal.
* Log: nothing of a credential is left in a line.
* Startup: readiness means a saved pair and scripts of the running release; a
  restart neither spends a registration it need not spend nor fails because a
  saved pair cannot be replaced.
* Recovery: nothing is saved that Gluetun was not seen to run, nothing new is
  registered while it is unknown what Gluetun runs, outages end, and Gluetun
  comes up again.

## 2. Modules

| module | models | role |
|---|---|---|
| `SavedPair` | what `publish` promises | abstract register: begin, commit, end; `Store` and `Stack` implement it |
| `Store` | `settings.py`, at file-operation level | implements `SavedPair` |
| `Monitor` | the timers of `Supervisor.step` | |
| `Rotation` | `select_endpoint`, `failed_ips` | |
| `Generation` | `generation.py`: scripts, process group, token, deadline, shutdown | |
| `Client` | `client.py` and the alarm of `deadline` | |
| `Transcript` | the reading loop of `run_script`, `redact` | |
| `Metadata` | `write_metadata`, `enrich_metadata`, `contains_settings` as functions | |
| `Attempt` | one recovery attempt, from the script's output to the decision about its candidate | composes `Client`, `Transcript` and `Metadata` |
| `Stack` | supervisor, wrapper, Gluetun and files together | composes the parts; `Store` has the detail of its phases, `Monitor` its timers, `Rotation` its choice of server, `Generation` its `Generate`, `Attempt` its requests |
| `Startup` | `main`, `run`, `scripts.py`, `privateerr-healthcheck.sh`, the containers' life cycle | |
| `StoreProofs`, `MonitorProofs`, `RotationProofs`, `GenerationProofs`, `TranscriptProofs`, `AttemptProofs`, `StackProofs`, `StartupProofs` | | theorems about the module of that name; `AttemptProofs` has those about `Client` too |
| `MCStore`, `MCRotation`, `MCAttempt`, `MCStack` | | instances for TLC |

### Store

A generated pair is reduced to the *version* both files come from;
`connection_settings` compares the endpoint the two files name, so `Valid`
compares `Endpoint[...]`, and two registrations at one endpoint are, as in the
code, not told apart. A file is a version, `None`, or `Torn` between being
opened and completely copied. Each action is one system call of the code:
`rmtree` removes one entry at a time in any order (`RemoveEntry`), `copyfile` is
an open and a write, `touch`, `rename` and `mkdir` are single steps. `op` is the
caller (`resume`, the first generation, `recover`, or one of the three ways
`resolve_pending` leaves) and decides source, target and what an exception does:
it ends the process during startup and during the removal of an incomplete
candidate, and ends the step elsewhere. `Crash` is SIGKILL, or SIGTERM's
`Shutdown`, which no handler in the store catches. `ClearIgnoresError` and
`DropIgnoresError` are the two `ignore_errors=True`.

`Supervisor.run` chooses between reuse and generation (`mode`, chosen anew at
each restart). What makes `resolve_pending` publish or reject is Gluetun's
answer, which is free here and explicit in `Stack`. `settings.json` is written
but never read and is left out. A rename is durable when it returns: loss of
power without fsync is outside the model.

### Monitor

One action per way through `step`: `Unreachable` (no answer, or an unknown
status: `failed_since` is reset), `Deferred` (the VPN is stopped or changing
state, or a pending update cannot be checked: timers kept), `Healthy`, `Unhealthy`,
and `Attempt`, which stands for every outcome of `recover` because all of them
reach the same three assignments. `resolve_pending` makes requests of its own
before a step probes: an unanswered one, or a healthy probe, resets no timer, and
`Resolving` gives every step that reaches it the choice of having seen one.
`ProbeTime` and `RecoverTime` bound how long a step takes; the code's one hour
is the constant `MaxDelay`, and `cooldown`, the configured first delay, may lie
above it. The variables after `delay` are history for the properties and
influence nothing.

### Rotation

A server is its place in the catalog: the number of its region and its number
in that region's list. `Eligible` is the set of places `select_endpoint` would
append, `Precedes` the order its stable sort gives them (the preferred region
first, else the catalog's order), and `SelectEndpoint` takes the first untried
place, else the running server if it is permitted.
The actions follow an outage: `recover` adds the *running* endpoint to
`failed_ips`, not the one it tries; a healthy probe clears the set, and so does
the end of the process (`Restart`), in the middle of an outage or not. A server
that a restart of Gluetun leaves (`Reload`) is not added. `Dead` are servers
whose registration always fails.

### Generation

`mode` is what `run` does with the attempts: recovery, which reuses a saved pair
or sets up a new one and then steps for ever; keepalive, which sets up and then
only waits (`supervisor.py:504-508`); or one-shot, which ends. `pc` names the next operation of `generate`, `run_script` and `stop_group`; each
is a step, so that the scripts, the clock, a shutdown and a crash come between
any two. A *process* is a script's direct child or a helper in its group, and
carries the attempt and script it belongs to: a child that exits while its
helper runs, a helper that holds the pipe, and an orphan adopted by PID 1 are
states of `live`, `dying` and `zombies`. `KillGroup` hits the whole group, but a
process dies later (`Dies`), so that `Reap` may run before it. `Shutdown` leaves
an operation for where the code's handlers lead (`Unwind`); the three places
that no `finally` covers (between `Popen` and the `try`, and at both `killpg`
calls of `stop_group`) go straight to the removal of staging. The end of PID 1
ends every process of the container. `token` is the file at the fixed path: it
survives a restart. Timeouts are counted by `Tick`, only where the code waits;
the catalog request may outlast its timeout by up to `Overrun`, for the reasons
module `Client` has (the resolver, and every address after the first).

The scripts may do anything: run for ever, close their output, ignore SIGTERM,
fail after writing a token, be silent for ever with the output open. The one thing assumed of them is that `get_token.sh`
does not report success without having written one. Their output, which
`run_script` reads and redacts, is left out but for its end and its errors;
module `Transcript` has it.

### Client

One request after another. `pc` names the statements of `deadline` (install the
handler, arm the alarm, the body, disarm, restore) around those of `open` and
`read`, and `Expire` may come between any two of them as long as an expired
alarm is armed. The library is external and modelled from its use: the
resolver's call is not interrupted, a wait for a socket is; `create_connection`
takes every `OSError`, the alarm's `TimeoutError` included, for the failure of
one address and tries the next (`AddressFails`). An alarm that hits `deadline`
itself, before its `try` or in the first statement of its `finally`, skips what
is left of it. A body is a number of chunks, `document` the chunk in which its
JSON object is complete: `Parses` is what `get` and the first line of `catalog`
make of a body that ended early. Time passes only in a wait (`Tick`), and a
server that sends a byte in time starts the wait anew (`Drip`, `ReadChunk`).

### Transcript and Metadata

A script's output is a sequence of symbols: text, delimiters, terminal
sequences, the prompt, and server names. A symbol stands for a word where
its parts play no role, and for a character where a credential is made of
several. `taken` is what was read, `first` where the buffer begins, `dropping`
that the line in front of it is being discarded; `Take` reads a chunk of any
length, `SplitLine` and `KeepRest` are the two ways through the inner loop, and
`EndOfOutput` records what has no delimiter. `Plain` removes terminal sequences
from a line, and `Redact` replaces the credentials, longest first; the replacement
is one symbol, `Mark`, that occurs in no output and no credential. `Metadata` has the functions that
need no state: the metadata of a registration, `Enrich` from the first catalog
entry with its address or its name, and the comparison with Gluetun's settings.

### Attempt

`phase` is where the attempt is: the script's output, the catalog request, the
candidate's retention, its submission, and the rounds of read-back and health
probe until the candidate is saved or discarded. While a request runs, `Client`'s
variables hold it, and `Receive`, `Apply` and `Respond` let Gluetun take over the
update before or after it answers or the client has given up, wholly or in
part, and answer a read-back from what it runs at that moment. What the caller
makes of each outcome is in `WriteMetadata`, `Submitted`, `Compare` and
`Decide`. The server's name is what `run_setup.sh` reported, or that of the selected
endpoint (`Selected`), whatever the scripts of a recovery print. `ForgetOutput` and `catalog' = <<>>` drop what no later step reads.
`Abandon` stands for the status and health requests before the submission,
whose interleavings with Gluetun are in `Stack`.

### Startup

`pc` names the next operation of `main` and `run` in the order of the code, with
the publication as five steps (module `Store` has the file operations of each,
so `Sweep`, which Store shows to be interruptible, is one step here). `scripts`
holds the release (`image`) each installed script comes from; `pair` is `half`
when only `wg0.conf` exists and `mixed` when the two files differ, which
`connection_settings` and the wrapper's test of the metadata treat apart.
`marker` belongs to Privateerr's container and survives its restarts, the other
files belong to the shared volume. `broken` are the places that cannot be
written; `Fails` is `filesystem_operation` at any operation that writes there.
The operator removes or stops the containers, keeps or loses the files, and
creates the containers again with other settings or a newer image (`Remove`,
`Create`); Compose starts Gluetun when the health check passes, and Docker
restarts it without asking. `saved` is history. Storage does not break while a
confirmed candidate is saved, which `Store` and `Stack` have.

`Config.from_environment` is one decision: recovery without keepalive is
rejected; every other invalid setting has the same effect and is not told apart.

### Stack

Every API call and every phase of a publication is a step, so that Gluetun and
the wrapper move between them. A directory cut short in its making is
`Incomplete`; one cut short in its removal may instead be `Broken`, with its
`ready` marker and without a copy, because `rmtree` takes the entries in any
order (`Removing`, `Replacing`). A broken journal ends every start of Privateerr
(`BootFails`), and a broken pending directory makes every step return before it
recovers anything (`PendingUnreadable`): nothing in the code removes either, but
the retry of a save does the first. Gluetun is external: `active` is its connection, `names` the server name the wrapper
exported, `late` an update that it applies after the client has given up, `live`
the registrations that PIA serves. A submission is applied (whether or not the
response arrives), lost, or applied late. `Bounds` is a set of
budgets, one count per fault, of which each behaviour has one; the bound of every
run is in its configuration.

`Due` leaves open when the timers expire (module `Monitor`), `Generate` which
server is registered (module `Rotation`), and the phases of publishing leave out
the individual files of a directory (module `Store`).

`SavedVersion` is what a restart would establish, the published version or the
one in a complete commit directory, and `PublishedJob` the publication that is
running: with them `Stack` implements `SavedPair`, as `Store` does in detail.

## 3. Runs

| run | states | checks | shows |
|---|---|---|---|
| `store` | 104 000 | `MixedPairIsJournaled`, `ReadyHoldsOneVersion`, `PublishIsAtomic`, `PublishedFromJournal`, `PendingKeptUntilSaved`, `MixedPairIsRepaired` | the saved pair is one register across crashes anywhere and storage errors anywhere except while a confirmed candidate is saved |
| `store_ready_marker` | | `ReadyMarksCompletePair` | **violated**, see below |
| `store_retry` | | `InterruptedSaveCanBeFinished` | **violated** |
| `monitor` | 865 000 | `OutageIsAnswered`, `AttemptsAreSpaced`, `AttemptNeedsOutage`, `DelayDoublesToOneHour` | the timers, in every order of observations by `step` and `resolve_pending` |
| `rotation` | 142 000 | `SelectionIsBest`, `EveryEndpointGetsItsTurn` | selection against a set definition; the rotation when every server accepts registrations, with restarts of Gluetun and of the supervisor |
| `rotation_dead` | | `EveryEndpointGetsItsTurn` | **violated** when one server refuses |
| `generation` | 154 000 | `OneInvocationAtATime`, `TokenIsOwn`, `DeadlineIsShared`, `AttemptEnds`, `ExitedAreCollected` | two attempts in each mode over scripts that do anything or nothing, with a catalog request that is late and a shutdown or crash anywhere |
| `client_addresses` | | `TotalDeadline` | **violated** when a name has two addresses |
| `attempt` | 812 000 | `AttemptTypeOK`, `AlarmStaysInside`, `RequestIsBounded`, `AcceptedIsWhole`, `LinesAreWhole`, `NameIsLastReported`, `SecretsAreMasked`, `SavedIsRun`, `DiscardedIsNotRun`, `MetadataDescribesServer`, `RecoveryEnds` | one attempt: names, logs and saved settings are what was reported and run, and it ends |
| `startup` | 139 000 | `HealthyIsPrepared`, `SavedIsReused`, `GluetunStartsOnValidPair`, `SavedPairIsServed` | every mode, with kills, removals, an upgrade and unwritable storage anywhere |
| `stack` | 296 000 | `SavesAreAtomic`, `ReconciledBeforeGenerating`, `OnlyReadBackIsSaved`, `WrapperPassesOnMatchingPair`, `OutageEnds`, `GluetunComesUpOnGoodStorage`, `ConfirmedIsSaved` | the processes together, with restarts of each, storage errors, and lost, late and unconfirmed updates |
| `stack_circular` | | `GluetunComesUp` | **violated** with a storage error and a restart of Gluetun |

The type invariants of `Store`, `Monitor`, `Rotation`, `Generation`, `Startup`
and `Stack` are theorems (section 5) and are not repeated by their runs.

Bounds and why they are enough:

* `Store`: three versions (published, pending, and the one being saved) over two
  endpoints, so that a mixed pair may or may not be told apart from a matching
  one. Three faults: one interrupts a save, one its repair, and one may be an
  ignored error. Storage errors come in every caller but the publication of
  `resolve_pending`: with them `MixedPairIsJournaled` is false, which is the run
  `store_retry`, and what holds nevertheless is proved for every set of
  `StorageFaults`. The publication has no loop over versions, so a fourth plays
  no part that one of the three does not.
* `Monitor`: threshold 2, delay bound 5, and a cooldown of 2 or of 7: the delay
  goes 2, 4, 5, 5 or 7, 5, 5, so the run sees it double, meet its bound, stay,
  and fall to it from above; eighteen seconds hold three attempts and a restart.
  The theorems remove these bounds.
* `Rotation`: two regions over three servers, with empty, overlapping and
  reordered lists and a malformed entry: every pair of them is a catalog. Two
  restarts, of Gluetun, of the supervisor, or one of each.
* `Generation`: two attempts, so that the second meets what the first left
  behind, with one shutdown or crash and a restart between or within them;
  timeout 2 and grace 1 let time pass before, at and after the deadline; the
  catalog request lasts up to 2 beyond it, longer than a grace period.
* `Startup`: two releases, so that installed scripts may be older than the image;
  three kills or removals, so that a start, its repair and the start after it may
  each be interrupted; one storage failure, repaired or not, and one save.
* `Attempt`: a timeout of 2 and a socket timeout of 1, so that a request meets
  either, and a resolver that takes 3, longer than both. One chunk is the limit of
  a body, two and three are beyond it. Five requests: the
  catalog, the submission, the read-back and its probe, and one repetition. The
  output has up to three of all seven symbols, up to four of text, delimiters and
  terminal sequences, and up to six of text, delimiters and a name; a line and a
  chunk hold three, so that lines are cut anywhere, dropped, and end a chunk
  early, in time or late. One credential begins with the other. The catalogs list
  up to two servers of two regions, with and without usable fields.
* `Stack`: three registrations (running, pending and new) and five budgets: an
  outage with one restart of Gluetun and one of the supervisor; an outage with
  two storage errors; a storage error with a restart of each; a late update with a
  stop by the operator and a restart of the supervisor; a late update with a
  restart of Gluetun. The generator returns
  a version nothing else holds, so with fewer versions it would have none to
  return. The safety properties are proved for every budget.

Two properties of `stack` are stated for a part of the budgets. A storage error
makes `GluetunComesUp` false (see `stack_circular`), hence
`GluetunComesUpOnGoodStorage`. `OutageEnds` excepts storage errors and late
updates, because an update that is applied late, or one whose save failed, takes
a version of its own, and with three registrations the generator of the model
may have none left for another attempt: it would fail by the bound.

Three properties of `stack` except what a kill within `rmtree` leaves: with a
broken journal Privateerr never starts, so that Gluetun, once down, stays down
and nothing more is saved; with a broken pending directory no outage ends. Each
exception is needed (TLC violates the property without it), and so is that of
`WrapperPassesOnMatchingPair`: after a storage error between the two replacements
and a kill in the retry of that save, Gluetun begins on a mixed pair (`torn`).

Deadlock is not checked in the `Store`, `Monitor`, `Generation` and `Startup`
runs: a store whose process idles has nothing to do, the timers stop at `MaxTime`,
keepalive only waits, and a one-shot container ends.

## 4. Fairness

* `Store`: the running process continues and the container is restarted
  (`restart: unless-stopped` in `docker-compose.yml`). Nothing obliges a
  recovery to start or an error to happen.
* `Rotation`: the retries go on during an outage (`step`), and a server that is
  selected again and again and accepts registrations is applied at last.
* `Generation`: the supervisor goes on where it need not wait for anybody, recovery
  keeps stepping, time passes and what SIGKILL hit dies (weak fairness). What a
  script, the catalog's server or the file system may do, or never do
  (`Outside`), is not fair: the end of a script's output, an error while it is
  read, the catalog's answer. No recovery is obliged to begin, and no container
  to be started again.
* `Attempt`: the supervisor goes on, time passes where a request waits, a wait
  that is over and an expired alarm are noticed, and the reading loop splits
  what it has and looks at its deadline (weak fairness). Nothing is assumed of the
  script, of a server's answers or of Gluetun.
* `Startup`: the process goes on and Docker restarts it unless it is one-shot
  (weak fairness of `Proceed`). No repair, removal or start of Gluetun is assumed.
* `Stack`: both processes continue and are restarted (weak fairness). A tunnel
  that is down again and again at a probe is due again and again (strong
  fairness of `Due`; `OutageIsAnswered` is the timers' side of it). Of
  registrations attempted for ever one works, and of the submissions of working
  registrations one takes effect (strong fairness): this is an assumption about
  PIA and Gluetun, without which no outage need end.

## 5. What is proved

The theorems hold for every set of versions, every assignment of endpoints and
every number of faults (`StoreAssumption`, `StackAssumption`), all whole-second
settings, durations and times (`MonitorAssumption`), all catalogs and
restrictions (`RotationAssumption`), all timeouts, grace periods, limits and
numbers of attempts, requests, shutdowns and crashes (`GenerationAssumption`,
`ClientAssumption`), every output, line limit, division into chunks and finite set
of nonempty credentials (`TranscriptAssumption`), all registrations, catalogs and rounds of an attempt
(`AttemptAssumption`, `MetadataAssumption`), and all numbers of releases, kills, storage failures
and saves (`StartupAssumption`).

| theorem | property | assumption beyond the module's |
|---|---|---|
| `TypeCorrect` | `TypeOK` of `Store` | |
| `ReadyCopiesAgree` | `ReadyHoldsOneVersion` | |
| `PublishedComesFromJournal` | `PublishedFromJournal` | |
| `InterruptedSaveIsRecoverable` | `MixedPairIsJournaled` | no storage error while a confirmed candidate is saved |
| `StoreImplementsSavedPair` | `PublishIsAtomic` | the same |
| `CandidateIsKept` | `PendingKeptUntilSaved` | |
| `Spacing` | `AttemptsAreSpaced` | |
| `OutageBeforeAttempt` | `AttemptNeedsOutage` | |
| `AttemptInTime` | `OutageIsAnswered` | |
| `DelayDoubles` | `DelayDoublesToOneHour` | |
| `TypeCorrect` (`GenerationProofs`) | `TypeOK` of `Generation` | |
| `ScriptsNeverOverlap` | `OneInvocationAtATime` | |
| `TokenOfItsAttempt` | `TokenIsOwn` | |
| `AttemptIsBounded` | `DeadlineIsShared` | |
| `TypeCorrect` (`StartupProofs`) | `TypeOK` of `Startup` | |
| `ReadyIsPrepared` | `HealthyIsPrepared` | |
| `SavedIsNotRegistered` | `SavedIsReused` | |
| `WholePair` | `GluetunStartsOnValidPair` | |
| `TypeCorrect` (`MonitorProofs`, `RotationProofs`, `StackProofs`), `RequestTypeCorrect`, `TranscriptTypeCorrect`, `AttemptTypeCorrect` | the type invariant of each | |
| `BestIsSelected` | `SelectionIsBest` | |
| `AlarmConfined` | `AlarmStaysInside` | |
| `RequestBounded` | `RequestIsBounded` | |
| `AcceptedWhole` | `AcceptedIsWhole` | |
| `WholeLines` | `LinesAreWhole` | |
| `LastNameCounts` | `NameIsLastReported` | |
| `CredentialsAreHidden` | no credential occurs in a line of the log | |
| `NoFragmentShown` | `SecretsAreMasked` | no credential begins with the end of another or of itself (`Overlap`) |
| `RequestsOfAttempt` | every behaviour of `AttemptSpec` is one of `RequestSpec` | |
| `PartsOfAttempt` | the requests' and the transcript's properties hold of the attempt | |
| `NoFragmentInAttempt` | `SecretsAreMasked` of the attempt | the same as `NoFragmentShown` |
| `SavedRuns` | `SavedIsRun` | |
| `DiscardedDoesNotRun` | `DiscardedIsNotRun` | |
| `MetadataOfOneServer` | `MetadataDescribesServer` | |
| `StackImplementsSavedPair` | `SavesAreAtomic` | |
| `SavedWasReadBack` | `OnlyReadBackIsSaved` | |
| `ReconciledFirst` | `ReconciledBeforeGenerating` | |
| `BeginsOnMatchingPair` | `WrapperPassesOnMatchingPair` | |
| `NoCircularWait` | while the wrapper waits for a commit directory, the supervisor is publishing, starting or down | no budget has a storage error |

`ReadyHoldsOneVersion` is not inductive: while a directory is being refilled
nothing in it is ready, and what has been copied so far must agree with the
source. `ReadyInv` adds, for each point of `retain` and `publish`, what the
target already holds, that `.new` holds the journal's version before a rename,
and that the pending directory a publication reads does not change meanwhile.
`JournalInv` adds, for the commit point, that the published files are the
journal's version up to the file the loop has reached, and that outside a
publication they are equal or the journal is ready and complete; it is here that
a storage error in `resolve_pending`'s publication would break the induction
(run `store_retry` is the counterexample). For the refinement, `AtomicStep` maps
`MarkReady` of the journal to `Commit`, the first step of a publication to
`Begin`, its end, error or crash to `End`, and every other step to a stutter.
`CandidateIsKept` needs to know, at every step of `recover` and `resolve_pending`
that removes a pending candidate, why it may: a rejected one has no `ready` marker,
and of a published one both files are the saved pair's (`CandidateInv`).
The timers' invariant relates `failed_since`, `next_attempt` and `delay` to the
instants the history remembers. `AttemptNeedsOutage` is about what `step` saw, and
about what `resolve_pending` saw as long as no outage was running (`ignored`); for
`DelayDoublesToOneHour` the invariant says which delay the next attempt will
announce, given the one before it in its process and whether `step` has found the
tunnel healthy since.

`Generation`'s invariant has one part per property. `TokenInv` follows the token
from the exit of `get_token.sh` to its use, and needs `OwnInv`: were a process
of an earlier attempt alive, it could write the file after it was read.
`DeadlineInv` separates the grace period of a script that succeeded, which is
collected already and takes no time, from that of a failed one, after which no
other script starts; the catalog is requested after the last script, so that what
a late request adds meets no grace period.

`Startup`'s invariant says what each operation finds: half a pair never stands
without a complete commit directory (`PairInv`), which is used up before it is
made again (`JournalInv`); after it was cleared, the marker is back only at the
end of `run` (`MarkerInv`); installed scripts are the image's from then on
(`ScriptsInv`). `SavedIsReused` needs that a saved pair is complete or in the
commit directory in every state, across all that interrupts it.

`Rotation`'s theorems rest on lemmas about `SelectEndpoint`: every set of
eligible places has a first one in the order of the stable sort (`FirstIsFirst`,
from the well-founded order of the numbers), and `Selection` says of which set
the returned server is the first. `Client`'s invariants say where the alarm may
be armed and where its handler is installed (`AlarmInv`), and that what has
elapsed and what is left on an armed alarm add up to the timeout, unless the
resolver holds the signal back. `Transcript`'s `LinesInv` says that everything
before the buffer is recorded or was too long or dropped, and that the buffer
begins at the start of a line or inside a dropped one; `NameInv` adds that lines
are recorded in their order.

What a log line shows is a fold of `Replace`, itself a recursive function, over
the credentials. No induction principle with an operator parameter is available
to the provers, so the proofs argue from the last position of a text, or the first
place in the order, at which the claim fails (`Backward`, `Forward`). `Traces`
says of each symbol left by one replacement which position it comes from (`Embeds`)
and that every other position was inside an occurrence (`ReplaceTrace`). A
credential in the result would have stood undivided in the text before, as the
mark is part of none (`OccursBefore`); so a replacement brings back nothing that
was replaced earlier, whatever the order and the overlaps: `CredentialsAreHidden`.
That no fragment stays either needs the order: `MaskStep` shows that a replacement
marks exactly what its occurrences cover provided they meet an earlier credential's
only inside it (`Fits`), which longest first gives (`LongestFirstIsOrdered`,
`ApartOrInside`) where no credential begins with the end of another. The
assumption is needed: of `ab` and `ba` in `aba` one replacement leaves a letter.

`Attempt` interleaves its parts, and its first theorem is that it does no more:
each of its steps is a step of `Client` or leaves the request alone, so that
`RequestsOfAttempt` is an implication between specifications, and each is a step
of `Transcript` or forgets the output as a whole, for which `LinesInv` and
`NameInv` hold trivially (`ForgottenOutput`). Its own invariant says which
request belongs to which phase and where the candidate is (`PhaseInv`), that the
metadata are of the registered address and, once kept, name a server
(`MetadataInv`), that Gluetun never returns to the old key and that an answer
with the new key is what it runs for good (`GluetunInv`), and that a candidate
being probed or saved was read back (`DecidedInv`). The response to the
submission plays no part in it: the code decides by the read-back alone, and the
proof shows that this is enough. `EnrichedByMatch` is what `Enrich` computes: the
region and the name of one entry that has the address or the name.

`Stack`'s theorems are small invariants over one type invariant, which also says
where a directory holds a version. `ReadBack`: what the commit directory holds
has been read back. `Compared`: between the comparison and the end of its step a
pending candidate is not unread, across a crash that makes startup resume a
publication with another candidate pending. `MixedInJournal`: of two files that
differ there are complete copies in the commit directory, unless the retry of
their save was cut short (`torn`), and the wrapper passes only without a commit
directory. `SavedSoFar`, for this and for the refinement of `SavedPair`: the
files are the journal's up to the place the publication has reached. `SavesAreAtomic` excepts
one step, stated in it: the retry of a save that failed half way, which removes
the commit directory that a restart needed (the situation of run `store_retry`);
with that exception it holds whatever fails, and the theorem has no assumption.
`CommitInUse` is the safe side of `GluetunComesUpOnGoodStorage`: without storage
errors a commit directory is there only while somebody will remove it.

Only model-checked: all liveness (`MixedPairIsRepaired`, `OutageEnds`,
`GluetunComesUpOnGoodStorage`, `ConfirmedIsSaved`, `SavedPairIsServed`,
`EveryEndpointGetsItsTurn`, `AttemptEnds`, `ExitedAreCollected`,
`RecoveryEnds`), because the proof system does not reason about fairness. Every
safety property of a passing run is a theorem, `SecretsAreMasked` with the
assumption above.

## 6. Where code and text disagree

* `store_ready_marker`. A `ready` marker does not always identify a complete
  pair (`settings.py:287`): the `rmtree` that ends a publication may die after
  it removed a copy and before it removed the marker. Startup then fails at
  every restart although both published files are complete, and Gluetun, once it
  restarts, waits for that directory for ever. The pending directory is removed
  in the same way (`supervisor.py:247` and `256`): cut short, it makes
  `candidate_settings` fail in every later step, which then returns before it
  recovers anything, also after a restart.
* `store_retry`. The commit directory is not always retained
  (`settings.py:258-259`): when a publication that failed half way is retried,
  `retain` removes it first. A crash there leaves a mixed pair and nothing to
  finish it from: the next start discards what is left of the directory, and
  Gluetun begins on the mixed pair until a later recovery replaces both files.
* `rotation_dead`. "Already attempted" endpoints (`supervisor.py:78`) are those
  Gluetun ran; one whose registration fails is selected again for ever.
* `stack_circular`. A commit directory left by a storage error and a restart of
  Gluetun make the wrapper and the supervisor wait for each other; the start
  order of `architecture.md:40` does not cover it.
* `client_addresses`. The deadline does not bound connection setup
  (`client.py:72`) for a name with several addresses: the alarm is one-shot, and
  while an address before the last is being connected its exception is taken for
  the failure of that address. What follows is bounded by the socket timeout of
  each operation only.

Seen while modelling and not made a property:

* the failure need not be continuous (`docs/automatic-recovery.md:176`), because
  a step that finds the VPN stopped or changing state leaves `failed_since`
  running (`Deferred`), and so do the requests of `resolve_pending`: after one
  that is not answered (`supervisor.py:241`), or a probe that finds the tunnel
  healthy before the save fails (`supervisor.py:251-257`), an attempt may follow
  within the threshold, or at once (`ignored`);
* in keepalive mode a helper that dies after startup's reaping stays a zombie:
  nothing calls `reap_children` again (`supervisor.py:504-508`);
* "every exit path stops the process group" (`generation.py:204`) does not hold
  of a shutdown at the three places named under `Generation`, after which a
  script may still write while its staging directory is removed, and a staging
  directory that a crash left is not removed by any later start;
* a publication that begins after the wrapper's loop has ended can give Gluetun
  the server name of one pair and the connection of another until its next
  restart (`SourceMetadata`, `ReadConfig`);
* the health probe that confirms a candidate may be answered by a Gluetun that
  restarted after the read-back;
* an update applied after its candidate was discarded leaves Gluetun on keys
  that are saved nowhere (`DiscardedIsNotRun` is about the answer it was
  discarded on);
* in a directory that has become unwritable, `resume` leaves an incomplete
  commit directory behind (`settings.py:291`), and Privateerr reports ready on
  its saved pair while the wrapper waits for that directory to go, which no
  later step of Privateerr brings about, against "without preventing Gluetun
  startup" (`architecture.md:40`; `SavedPairIsServed` excepts the state);
* between a restart of the container and `Clear` the health check still passes
  on the old marker (`HealthyIsPrepared` begins after it);
* a process killed between the creation of the scripts directory and its `chmod`
  (`scripts.py:37-38`) leaves it private for good, because a later start does
  not change a directory that exists;
* the alarm does not interrupt the resolver's library call, so that a request
  may last as long as the resolver blocks (`RequestIsBounded` says so);
* a request that was completed may be reported as timed out, when the alarm
  expires after its last byte and before it is disarmed; SIGALRM then keeps the
  request's handler, which is harmless as no alarm is armed (`AlarmStaysInside`);
  the submission that was reported as failed is read back like any other;
* a script that reports no server name leaves an empty one, which a catalog entry
  with an empty name matches (`Nameless`): the attempt then fails on the missing
  name although a later entry may have the registered address;
* a configured cooldown above one hour, which `config.py:112` accepts, makes the
  delay fall to one hour at the second attempt (`DelayDoublesToOneHour`).

## 7. Plan

Written, in this order: `SavedPair` and `Store` with its theorems, because every
other part relies on the saved pair; `Monitor` with its theorems; `Rotation`;
`Stack`, which composes supervisor, wrapper, Gluetun and files; `Generation` and
`Startup` with their theorems; `Client`, `Transcript` and `Metadata`, and
`Attempt`, which composes them into what one recovery does; the theorems about
`Client`, `Transcript`, `Rotation` and `Stack`; those about `Attempt`, and the
refinement of `SavedPair` by `Stack`; those about redaction.

Next:

1. `Stack` with `Monitor`'s threshold in place of the free choice of `Due`.
2. Properties of an operator who stops the VPN between the last probe of
   `recover` and its update, with Gluetun's own status transitions.
3. The port-forwarding hook with overlapping `up` and `down` commands.

## 8. Not modelled

* The port-forwarding hook: a program of Gluetun's container that shares neither
  state nor calls with the others. Its hazard, a late `up` after a `down`, is
  listed.
* In `log.py`: masking by the name a value is assigned to, the handlers and the
  format of a line. `data.py`: type checks without state, folded into what reads
  the data.
* The headers of a request, the handlers that refuse redirects and proxies, and
  the texts of diagnostics.
* The compose, awk and CI scripts, and the test harnesses.
* The upstream PIA scripts: their output is free in `Transcript`, their processes
  in `Generation`, and their outcome is a pair or a failure.
* The wrapper's API authentication file (constant in a deployment), dedicated-IP
  selection (left to upstream by the code), `prepare_ipv6`, and the
  forwarded-port report of `resolve_pending` (logging).
* Loss of power without fsync.
