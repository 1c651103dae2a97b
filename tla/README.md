# Philips Home Access: a verification project

TLA+ models of the Home Assistant integration in `src/custom_components/philips_home_access`
and of the client library inside it (`homeaccess/`), the TLC runs that check them on small
instances, and TLAPS proofs of what matters most for instances of any size. `PROJECT.json`
maps every modelling definition to the lines it stands for and lists runs, hazards, findings
and theorems; this file explains them.

Run `tlc -workers 2 -config <Run>.cfg <Module>` for a run and `tlapm <Module>Proofs.tla` for
the proofs, in this directory.

## 1. The system

A deadbolt talks to a cloud. Home Assistant sees it in two ways: frames pushed over a
WebSocket per datacenter, and a poll of `device/list`. Everything runs on one asyncio event
loop, so interleaving happens at awaits only, and each model splits its code exactly there.

| component | state it keeps | operations | talks to |
|---|---|---|---|
| Lock-state tracker, `tracker.py` | bolt, door, battery, pending command, connectivity; per facet the ordering key last applied; 128 seen bodies | `apply` (event), `apply_poll`, `set_pending`, `expire_pending` | called by the coordinator |
| Event stream, `coordinator._on_event`, `models.LockEvent` | none of its own | one frame in, one tracker step | realtime → tracker |
| Account session, `session.py`, `transport.py`, `tokens.py` | the tokenset, the login lock, the time of the last login attempt | login, re-login after a 444, token access, one retry | every request goes through it; the cloud keeps one session per account |
| Realtime listener, `realtime.py` | `connected`, the reconnect delay | the endless `listen` loop with its callbacks and the token check | session, coordinator |
| Coordinator, `coordinator.py` | the poll interval, trackers, listeners | the poll, callbacks on connect and disconnect, events | Home Assistant's `DataUpdateCoordinator`, discovery, listeners |
| Discovery, `api.py` | hosts known, the pinned datacenters, the device list | `_ensure_datacenters`, `_scan`, `async_discover`, `async_locks` | transport, one datacenter after another |
| Commands, `lock.py`, `api.py` | the timers of the entity, the learned routes | lock and unlock | session, tracker, coordinator |
| State file, `state.py` | one JSON file per account | load, save, clear in worker threads | session, discovery |
| Entry lifecycle, `__init__.py` | the entry's coordinator | setup, reload, unload, remove | all of the above |
| Config flow, `config_flow.py` | none of its own | sign-in, password and options forms | a client of its own over the same state file; the entry |
| Entities, models, constants, crypto, settings, CLI | little or none | views, pure functions | |

What is hard, and what makes each part correct:

- **Tracker and stream.** Stamps run backwards, frames are reordered, lost and sent again, the
  numbering restarts, and polls overtake events. Correct: what is shown is what the newest
  frame heard says; no command stays pending towards a state already reached; the poll
  repairs the rest.
- **Session.** Several requests fail at once on one displaced token, and each login
  displaces the one before. Correct: one login serves them all, retries use a newer token,
  no failure leaves the lock taken, the rate limit neither leaks nor starves.
- **Realtime.** A displaced token is refused without a reason, or let in and closed at once.
  Correct: the listener comes back, and never hammers the cloud.
- **Coordinator.** Polls are requested by callbacks, scheduled by a timer, dropped while
  another runs, and rescheduled by events. Correct: a next poll is always coming, the slow
  one is used only while sockets cover every lock, and what was missed is caught up.
- **Discovery.** The same lock is listed by its host and by stale mirrors, some datacenters
  fail in the middle of a scan, and two scans may overlap. Correct: the live copy wins, an empty list
  comes of a full scan or leads to one, and a lock is lost only while the pinned datacenters
  leave its home out and still list something.
- **Commands.** They overlap, fall back along routes, and may never be confirmed. Correct:
  what is shown in flight is in flight or will be given up on.
- **State file.** Tokens, datacenters and devices are parts of one file that every writer
  reads, changes and writes back whole, from threads that no cancellation stops. Correct: a
  part saved later does not lose the tokens saved before, a torn file does no harm, and
  nothing is left of an entry that was removed.
- **Entry and forms.** Setup may fail in the first discovery, in the second, and while the
  platforms are set up with the listeners already running; unload, reload, restart, an option
  or a password may come between any two steps. Correct: an entry that is loaded has one listener
  per datacenter and shows one of a lock's two entities, and one that is not comes up again or
  asks for what it needs.

`PROJECT.json` lists every hazard at its line, those without a property with the reason.

## 2. The modules

| module | models | state ↔ code | actions ↔ code |
|---|---|---|---|
| `LockTracker` | `LockTracker` as operators from tracker to tracker | `order` = `_order`, `seen` = `_seen`, the rest = `LockState` | `Apply`, `ApplyPoll`, `SetPending`, `ExpirePending` |
| `LockStream` | one lock, the cloud and the tracker | `lock`, `boot`, `nextMid`, `sent` = the world; `tr` = the tracker; `report` = the poll in flight; `recent`, `newest`, `source`, `polled` are ghosts | `Deliver` and `Redeliver` = `_on_event`; `PollReply`, `PollFails` = `_async_update_data` |
| `Session` | the account under concurrent requests | `tokenset`, `queue` = `_login_lock`, `since` = `_last_login_attempt`, `req` = each task's place in `HttpClient.request` | one action per stretch between awaits: `UseToken`, `AskLogin`, `UseRenewed`, `RateLimited`, `StartLogin`, `LoginReply`, `Saved`, ...; `CloudLists` = the answer to a poll, whose token is not looked at; `CloudChecks` = that to a token check or a command |
| `SharedAccount` | what the account session promises its requests (abstract) | `mine` = the tokenset; `coming` = the reply under way; `used` = the sessions a request has been sent with; `asking` = requests that found no session at all | `Send` = a request or its retry; `Login`, which needs a `Reason`; `Adopt` = the reply; `Over`, `Lost` = its end |
| `Realtime` | `Realtime.listen` per datacenter | `pc`, `up` = `connected`, `delay`, `lasted` = `STABLE_AFTER` reached | `TokenReady`, `Connects`, `ConnectsInVain`, `Drops`, `Parted`, `Wakes`, ... |
| `Coordinator` | the coordinator, composed with `Realtime` (EXTENDS) | `interval` = `update_interval`; `timer`, `debounce`, `polls` = `DataUpdateCoordinator`; `off`, `stale` = what is shown | `Connect`, `Disconnect`, `Notify` in `MoveHeard`/`LinkHeard`, `PollApplied`, `PollFails`, `PollRefused` |
| `Discovery` | discovery by concurrent callers | `known`, `checked`, `active`, `devices`, `scan` | `Begin`, `Learn`, `Answers`, `Errs`, `Escapes`, `GivesUp`, `Rescans`, `Installs` |
| `DeviceList` | what discovery promises the readers of its list (abstract) | `devices` = `_devices`; `pinned` = `_active_codes`; `asked`, `saw` = what a scan asks and has been told | `Start`, `See`, `Widen` = the re-scan of all, `Publish`, `Drop` = a failure |
| `Command` | overlapping commands on one lock, over `LockTracker` (EXTENDS) | `cmd`, `learned` = `_command_routes`, `timers` = `async_call_later`, `tr` | `Call`, `Accepted`, `NextRoute`, `Refused`, `Unreachable`, `Crashes`, `Expires`, `Poll` |
| `LockDisplay` | what the tracker promises its entities (abstract) | `truth`, `said` = the world; `shown` = the facets of `LockState`; `at` = the newest event heard | `Hear` = `apply`, `Correct` and `Lose` = a poll that succeeds or fails |
| `StateFile` | the state file under its writers | `file` = the file; `io` = each writer's load and save; `kept` is a ghost | `Loads` = `async_load`; `Opens`, `Writes` = `async_save` in its thread; `Clears` = `clear` |
| `Entry` | the life of one config entry, composed with `StateFile` (EXTENDS) | `entry` = where the entry stands; `inst` = its client and coordinator; `job` = what the poll, a command and a form are doing; `mine` = `_ws_tasks`, `listeners` = all that run, `aborted` is a ghost; `faces` = the registry's `disabled_by`; `wanted` = the option | `Setup`, `FirstRefreshFound`, `StartRealtime`, `AddFace`, `ForwardSetups`, `ForwardFails` = `async_setup_entry`; `Reload`, `RemoveEntry`; `Submit`, `FlowDone`, `ChangeOption` = the forms; `CheckDatacenters` to `Listed` = a discovery |

How they compose: `LockStream` and `Command` EXTEND the tracker, `Coordinator` EXTENDS
`Realtime`, `Entry` EXTENDS `StateFile`. `LockStream` implements `LockDisplay` (INSTANCE, with
the mapping at its end): the facets shown are those of the tracker, what was said of a facet is
what the frames sent claim of it, and the answer on its way is the poll's. `Session` implements
`SharedAccount`: the lock, its queue, the rate limit, saving the file and a request's way to and
from the cloud are hidden, and what is left are the sends, the logins and their replies.
`Discovery` implements `DeviceList`: the fetch of the datacenters, the order of a scan, its
errors and its running merge are hidden, and what is left are the sightings of each scan and
the list published from them. Concurrent discoveries stay visible, since each clears or sets
the pinned datacenters under the others.

`MC*` modules give constants their small values; the modules `*Proofs` hold the proofs. Operators next to a definition whose comment begins with
"Mutant of" are plausible bugs of that definition. They are used by nothing: putting one in
the place of its original must break the property `PROJECT.json` names, which shows that the
property can fail.

External, modelled from how the code uses it: the cloud, the locks, the network, the clock,
and Home Assistant's `DataUpdateCoordinator` with its debouncer (a request runs at once, waits
for a cool-down, or is dropped while another runs; `async_set_updated_data` and the start of
any poll cancel a waiting one). Home Assistant versions differ in whether a scheduled poll
holds the debouncer's lock; `RequestRefresh` allows both.

## 3. The runs

Bounds are named constants of the `.cfg` files. Seconds are scaled: `ReorderWindow` is 1 for
10 s, `PendingTimeout` 1 or 2 for 30 s, which keeps the order of the instants the code compares.

Runs that pass:

| run | bounds | shows |
|---|---|---|
| `LockStream` | 2 frames of every kind, a memory of 1 frame, re-deliveries, 1 power cycle that restarts the numbering at 0, clock 4, fair | `NewestWins`, `NoPointlessPending`, the inductive invariant, `Converges`, `ImplementsDisplay` |
| `Session` | a background task (polls and token checks) and a command, 3 sessions, interval 1, 2 datacenters of which each task asks one, fair | `OneLoginAtATime`, `NoSelfDisplacement`, `RetryIsFresh`, the inductive invariant, `NoRetryLoop`, `ImplementsAccount`, `EveryRequestEnds`, `SessionRecovers` |
| `CoordinatorTwo` | 2 listeners, 2 changes | `PollAlwaysComing`, `SlowOnlyWhenCovered` |
| `CoordinatorLive` | 1 listener, delays 1 and 2, 1 displacement (refused, or let in and closed), 1 change, fair | `MissedIsRepaired`, `RealtimeReturns`, `BackoffIsEarned` |
| `Discovery` | 3 datacenters of which one has no host at first and one is a mirror, 2 locks, a poll and a lookup, 1 failure of any kind, 1 move, 1 shutdown, fair | `LiveCopyWins`, `EmptyOnlyAfterFullScan`, `ImplementsList`, `LostOnlyWhileOthersShow` |
| `Command` | 2 commands, 2 fallbacks, 1 frame, clock 3, uncaught errors, fair | `PendingIsWatched`, `ShownUntilSettled`, `EveryRouteTried`, `PendingEnds` |
| `Entry` | one entry with one lock, 2 acts of the user, 1 rejection, failure or restart, fair | `TokensKept`, `OneListener`, `OneFace`, `EntryComesUp` |

For each module one of the runs also checks the types (`TypeOK`).

Why the bounds are enough. A reordering fault needs two frames, a fault of memory a frame,
its successor and its re-delivery, a full memory one frame more than it holds, a fault across a power cycle one frame before and one after.
A session fault needs a login of ours, one that displaces it, and two requests that see it; a
token the login did not bring needs a second datacenter. The coordinator's faults need two polls and one change
between them. A discovery fault needs a host, a mirror and a datacenter with neither, and a lock that keeps the
pinned set from coming back empty while another is missing.
An entry's faults need one thing that goes wrong in one setup and what the next setup, or one
act of the user, makes of it; the second act is one that undoes the first.
The proofs below remove the bounds from every safety property.

Runs that show a disagreement between the code and what it says of itself (`findings` in
`PROJECT.json` quotes the words):

| run | what happens |
|---|---|
| `LockStreamFirstFrame` | msgId 0, the first after a power cycle, counts as missing, so a stamp decides |
| `CoordinatorBlind` | a failed poll leaves the slow interval while the socket is down |
| `DiscoveryRetired` | a pinned datacenter that is down raises before the re-scan |
| `CommandCrash` | an uncaught error leaves the command spinning |
| `EntryRemoved` | a save under way when the entry is removed writes the file again |

Seen while modelling, and the reason for some of the restrictions below; no run is kept for them:

- a re-delivery whose original was lost passes for a new event (`BlindRedelivery = TRUE`
  breaks `NewestWins`);
- a poll answer overtaken by an event takes the bolt back until the next poll;
- logins for an expired token are not spaced by the rate limit;
- a resync asked for while an answered poll is still in flight is dropped, and one waiting for
  the cool-down is cancelled by an event that moves the interval;
- the pinned datacenters are looked beyond only when they list nothing. One query that fails while
  they are pinned leaves that host unasked for good, if another host answered, or pins a mirror,
  whose stale copy is then listed; with no failure at all, a lock that moves to a datacenter that
  is not pinned stays lost while another lock keeps the list from being empty. `async_locks` says
  "Enumerate all locks" (`api.py:214`); `LostOnlyWhileOthersShow` excuses these
  states (`Overlooked`) and is violated without the excuse;
- a timeout or an `AuthError` at one datacenter ends the whole discovery, whatever the others
  served, though a datacenter that fails "must not hide the locks the others serve" (`api.py:162-163`);
- a setup whose platforms fail (`__init__.py:46`) leaves running the listeners it started before
  (`__init__.py:43`): nothing stops them, the next setup starts its own, and removing the entry
  does not end them either;
- a socket closed at once passes for a session that lasted if the callbacks of its connect and
  disconnect take `STABLE_AFTER` (60 s): `connected_at` is taken before the first and looked at
  after the second (`realtime.py:145`, `:185`), so that its displaced token is not checked, and
  the listener goes round in this until the callbacks are faster (`RealtimeReturns` without
  `lasted` is violated);
- of two discoveries that go dry together, one installs its empty list, and the next one scans
  everything;
- two saves that overlap lose one of their parts, and may leave a file that is neither; the
  tokens lost are replaced at the next sign-in;
- an error in the second discovery of a setup whose first listing was empty strands the entry
  until it is reloaded, and a lock found only then has no entities until the next setup;
- an option changed while the platforms are being set up has no effect until the next setup;
- another client's command is shown in flight until the next poll: its `setLock` frame arms no
  timer.

### Fairness

- `LockStream`: polls are answered and, infinitely often, applied. The coordinator reschedules
  them after success and failure alike. Nothing is assumed of the stream.
- `Session`: a started request takes its next step: the event loop runs every ready task and
  aiohttp ends every call by its total timeout. `SessionRecovers` states its own premise,
  `KeepTrying`: time passes, background requests keep coming, the token checks among them keep
  reaching the cloud (a listener checks its token after every refusal), and neither their
  rejections nor logins are lost for ever; without that no session can come back. Nothing is
  assumed of the answers to polls, since `device/list` serves a dead token too, nor of users.
- `Coordinator`: timers and cool-downs run out, the listener's loop runs until it is on its
  socket, polls end; polls, handshakes with a live token and token checks do not fail for
  ever. Nothing is assumed of how long a socket stays open, but one that the cloud closed at once
  ends; and no poll repairs the token, only token checks do.
- `Discovery`: polls go on and queries end. Failures are bounded, so they stop.
- `Command`: time passes, timers fire, the poll comes round.
- `Entry`: every job goes on at its awaits (asyncio runs ready tasks, a worker thread ends, a
  request ends by its timeout), and Home Assistant tries again a setup that is to be retried,
  carries out a reload it has scheduled, and removes what the user deleted. Nothing is assumed
  of the user, of polls, or of failures.

### Restrictions that matter

- `LockStream` takes timestamp and body to identify an event (`Fresh`, from `models.py:153`),
  stamps to run back by at most the reorder window, and a power cycle to last longer than
  window and jitter. A clock that comes back a day wrong after a battery swap (a known issue
  of the README) is outside. The numbering restarts at 0 (`FirstMid`), as the documents say;
  the passing run starts its first numbering at 1 (`StartMid`: the lock was up before Home
  Assistant), takes no stamp to run back behind that of a frame numbered 0 (`SteadyStart`, which
  `LockStreamFirstFrame` shows to be needed), and has the cloud send again only frames that
  are among the last `SeenMax` heard (128 in the code; `BlindRedelivery = FALSE`).
- `SlowOnlyWhenCovered` excuses the time after a failed poll (`blindly`), which
  `CoordinatorBlind` shows to be needed. It is stated for when no poll is under way or queued.
- `LostOnlyWhileOthersShow` excuses a datacenter that is shut down (`DiscoveryRetired`) and pinned
  datacenters that list something but leave the lock's home out (`Overlooked`, see above): it
  says that nothing else loses a lock or leaves it stale for good.
- `RealtimeReturns` counts a socket taken for a session that lasted (`lasted`) as up (see above).
- `OneListener` allows one stray listener for each setup whose platforms failed since the last
  start (`aborted`, see above). What a stray listener does then, its token checks among it, is
  not modelled, nor are the commands of entities such a setup added.
- `TokensKept` is about writers one after another: `kept` is 0 once two of them overlap.
- `EntryComesUp` counts an open password form, an entry that could not be unloaded
  (Home Assistant's `FAILED_UNLOAD`, which only a restart ends) and a stranded setup as ends.
- `Entry` has one lock, in a datacenter with a WebSocket; a sign-in is one step at the cloud, and
  its rate limit is left to `Session`. A new setup begins when the save of the last instance's
  cancelled poll has ended, which the code does not wait for. A save cancelled before its thread has opened the file is
  taken not to run.
- `PendingIsWatched` excuses a command ended by an uncaught error, which `CommandCrash` has.
  Other clients' commands are frames of `LockStream`, not of `Command`.
- `PendingEnds` is bounded by the clock: a command whose timeout lies beyond `MaxClock` is
  excused, since time stops there.
- A bounded clock and bounded counters let a run stop where the system would go on. The deadlock
  check is off in `Entry` and `EntryRemoved` only, where the entry is removed and nothing is left
  to do.

## 4. The proofs

TLAPS proves, for every value of the constants that satisfies the named assumptions:

| theorem | states |
|---|---|
| `StreamInvariant`, `StreamTypes` | `IInv` and `TypeOK` of `LockStream` |
| `NewestAlwaysWins` | `NewestWins` |
| `NeverPointlessPending` | `NoPointlessPending` |
| `SessionInvariant`, `SessionTypes` | `IInv` and `TypeOK` of `Session` |
| `NeverDisplacesOurselves` | `NoSelfDisplacement` |
| `RetriesAreFresh` | `RetryIsFresh` |
| `LoginsAreSerialized` | `OneLoginAtATime` |
| `RequestsOnlyAdvance` | `NoRetryLoop` |
| `SessionImplementsAccount` | `ImplementsAccount` |
| `StreamImplementsDisplay` | `ImplementsDisplay` |
| `FileKeepsTokens` | `TokensKept` of any system of writers (`FileSpec`) |
| `EntryTypes`, `EntryKeepsTokens` | `TypeOK` and `TokensKept` of `Entry` |
| `EntryHasOneListener`, `LockHasOneFace` | `OneListener`, `OneFace` |
| `CoordinatorTypes`, `PollsGoOn` | `TypeOK` and `PollAlwaysComing` of `Coordinator` |
| `SlowMeansCovered`, `ListenersBackOff` | `SlowOnlyWhenCovered`, `BackoffIsEarned` |
| `DiscoveryTypes`, `LiveCopiesWin` | `TypeOK` and `LiveCopyWins` of `Discovery` |
| `EmptyMeansAsked` | `EmptyOnlyAfterFullScan` |
| `DiscoveryImplementsList` | `ImplementsList` |
| `CommandTypes`, `PendingWatched` | `TypeOK` and `PendingIsWatched` of `Command` |
| `RoutesAllTried` | `EveryRouteTried` |
| `ShownTillSettled` | `ShownUntilSettled` |

**Stream.** `NewestWins` is not inductive: it says nothing of the keys the next frame is
compared with. `SentOrdered` says how the lock numbers and stamps (`Before`: within a power
cycle the msgId counts up and the stamp runs back by at most `Jitter`; across one the stamps
are further apart than the window). `MemoryMatches` says that the key of a facet is that of
the newest frame heard, and that the seen bodies are, one by one, those of the last `SeenMax`
frames heard (`recent`), so the theorems hold for streams longer than the memory. The lemma
`AcceptFollowsSending` is the ordering rule's correctness: of two frames, `_accept` takes the
later after the earlier and refuses the earlier after the later. `StreamInvariant` and
`NewestAlwaysWins` assume `FirstMid >= 1 \/ SteadyStart` and `~BlindRedelivery`, the conditions
whose failure section 3 shows; `StreamTypes` and `NeverPointlessPending` assume nothing.

**Session.** `NoSelfDisplacement` needs to know that a rejected token stays rejected while its
task waits for the lock, so `IInv` follows each task (`TaskInv`) through its request; that
sessions only move forward (`SessionsOrdered`), so that a renewed token is a newer one; and
that the queue of the lock holds exactly the tasks that wait or hold (`QueueInv`). The steps
are grouped by what they do to the queue: not at all, enqueue, release, log in.
For the refinement `IInv` has two more parts, proved on top of these (`Base`): `OnceMore` follows
what a second attempt rests on (the session of the first stays dead, the attempt is the last, and a
token that was missing or old when a login began still is when the cloud makes it), and
`ReplyAwaited` says that a reply on its way has a task in the lock waiting for it, so that no
login is made meanwhile. The reason of a login need only hold when the login is made, not when
the task joined the queue; that is where looking again under the lock matters. `NoRetryLoop` is a
measure (`Rank`) that each step of a request lowers: a request has four stages (signing in, its
attempt, the re-login after a 444, the retry), it never goes back to one, and it logs in at most
once in each. What the lock and the cloud owe it, so that it takes these steps, is
`EveryRequestEnds`, which stays with TLC.

**Display.** The refinement needs `MemoryMatches` again: a frame the tracker takes for news is
one that tells a facet something newer than the newest heard, and one it refuses is not. Frames
that tell no facet anything (`setLock`, `wifiState`) and everything the tracker does about the
pending command are stutters. It assumes what `StreamInvariant` does.

**Entry.** `TokensKept` speaks of moments at which no save is open. `OneInside` says why it
holds in between: while the file owes us tokens at most one writer is past its load, and what it
holds has them too. It is proved once for `StateFile` alone, of which every step of `Entry` is a
step or a stutter. `OneListener` speaks of entries that serve; `ListenersFit` adds that a setup
has no listener of its own before it starts one, and that the coordinator's listeners are among
those running, so that stopping them leaves only what failed setups left. `FacesFit` follows the registry through a setup, from `SetEnabled` before the
platforms to `ForwardSetups`.

**Coordinator.** `SlowOnlyWhenCovered` speaks of quiet moments and `PollAlwaysComing` of any.
`TimerFollows` joins them: an armed timer is armed with the interval in force, so a change of the
interval is a change of the next poll. `RunningPolls` says that a request the debouncer counts
as running is a poll in flight, whose end arms the timer.

**Discovery.** The invariant is one of each scan (`ScanOK`). The code merges answers as they
come: a copy replaces another or not, a datacenter goes to the hosts or to the mirrors. The ghost
`seen` keeps the sightings themselves, as a set, and `Gathered` says that what the scan has
gathered is a function of that set (`Best`, `Owning`, `Echoing` of `DeviceList`): the order of the
answers does not matter. That a sighting comes from a datacenter the scan is done with makes one
answer per datacenter out of the steps. The theorems follow from it: a live
copy wins, a list is empty only if nobody listed a lock (`SeenByAll`), so the datacenters worth
polling are empty only then, and the list installed is the abstract one. The refinement goes step
by step: an answer is `See` even if it lists nothing, a scan that begins is `Start`, the re-scan is
`Widen`, whose scan asks all without a new listing having begun, and skipped or failing
datacenters, the fetch and shutdowns are stutters.

**Command.** `PendingIsWatched` is inductive with two more facts: a pending command was marked no
later than now (`Sane`), so that a timer armed now fires late enough; and, for `EveryRouteTried`,
the routes a call has tried and those it has left are together all routes, each once
(`RoutesOK`). The tracker's part is that no poll and no frame but `setLock` marks a command
(`Calms`). `ShownUntilSettled` is the other half, what may take a command off: of a poll, only the
bolt at its target or the timeout (`PollClears`); of a timer, whichever call armed it, only the
timeout of what is shown now (`ExpireClears`). It excuses the failure of any call, since the code
clears what is shown without asking whose it is (`lock.py:75`).

Model-checked only: every liveness property (TLAPS here has no liveness or ENABLED):
`Converges`, `EveryRequestEnds`, `SessionRecovers`, `MissedIsRepaired`, `RealtimeReturns`,
`LostOnlyWhileOthersShow`, `PendingEnds` and `EntryComesUp`.

## 5. Not modelled

- Event parsing (`parse_event`, `_classify`) and the extraction of fields from cloud records:
  tables of codes without state, whose results are the input sets of `LockTracker`.
- Gateways (their paths, their locks' covers), the configured single datacenter,
  `async_status`: other data through the same control.
- `_register_devices` and the placeholder states `_set_enabled` cleans up: Home Assistant's
  registry and state machine, written once per setup and read by nothing modelled.
- The removal of a lock entity and its timers (`async_will_remove_from_hass`): `Command` and
  `Entry` do not meet.
- The values the entities show, crypto, settings, the CLI, the exceptions: views and pure code.

What Home Assistant does is external throughout: it retries a setup that raised
`ConfigEntryNotReady`, opens the password form on `ConfigEntryAuthFailed`, reloads an entry with
an entity enabled anew, cancels an entry's poll when it is unloaded, and needs a restart for one
that could not be unloaded.

## 6. The plan

Done: tracker, stream and display, session and shared account, listener, coordinator, discovery, commands, state
file, entry and forms; the atomic listing that discovery implements; the proofs of every safety property.

To come, in this order:

1. `Coordinator` with gateways and with locks that come and go; `Discovery` with locks added.
2. `Command` over `Entry`: an entity removed with a command under way.
3. `_classify`, `parse_event` and `from_device_record` as functions, checked against a reference
   over every shape of frame.
