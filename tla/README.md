# A TLA+ verification of claude-credentials-manager (ccm)

ccm keeps OAuth credentials of several Claude (and Codex, Grok) accounts in
files, refreshes them, switches the account Claude Code uses, and forwards
Claude Code's API traffic through proxies that may balance the load over a pool
of credentials or translate it for another provider. This directory models the
parts of it whose correctness depends on the order in which concurrent actors
act or on long sequences of legal events: TLA+ modules, TLC configurations and
TLAPS proofs. Line numbers refer to the files of this repository.

1. [The system](#1-the-system)
2. [Modules](#2-modules)
3. [Runs](#3-runs)
4. [Proofs](#4-proofs)
5. [Not modelled](#5-not-modelled)
6. [Observations](#6-observations)

## 1. The system

| component | state it keeps | operations | talks to |
|---|---|---|---|
| Rotating pool (`internal/share/pool.go`) | entries with status, failure counter, cached usage, captured headers; the `activated` slot; the `wake` channel, all under `p.mu` | Fresh, activatedView, MarkProbe, Promote, UpdateActiveFromHeaders, SignalActivatedFailed, failEntryInvalidGrant | request handlers, scheduler |
| Scheduler (`scheduler.go`) | snapshot of the tick | Run (ticker, wake), runOnce: probe, rank, capture, promote; sticky: probe, refresh feasibilities, evict | pool; usage endpoint; `claude` process for the capture |
| Sticky pool (`sticky.go`) | session pins, feasibilities, the same entries | routeCandidate, commitPin, signalEntryFailed, noteEntryUsage, dropPin, noteSuccess, evictSessions | share proxy, scheduler |
| Pool builder (`pool_builder.go`) | none | refresh, probe, rank and capture at start-up | token sources, pool |
| Passthrough entries (`passthrough*.go`, `usage_endpoint.go`) | ticket of another share | probe of its usage, forwarding | another ccm share |
| Share proxy (`proxy.go`) | mode capturing / serving / closed, token source, pipeline | handleCapture, Transition, handleServe, director, ModifyResponse, Close | pool, upstream API |
| Launch proxy (`localproxy.go`) | token source or pool | serveWithToken, director | pool, upstream API |
| Token source (`credstate.go`, `refresh_timer.go`) | credential in memory, mtime of its file | Fresh, reloadIfPeerWrote, refresh timer | refresh flow, store |
| Refresh flow (`internal/credflow`) | none of its own | RefreshCredential: resolve, lock, reload, rotate at the provider, save | OAuth server, store |
| Store (`internal/store`) | one JSON file per credential, lock files | Load, Save (temporary file and rename), Delete, WithCredentialLock | all processes |
| Active credential (`internal/claude`, `internal/codex/switch.go`) | the entry the CLI reads, its backup | Use, Restore, Sync, Migrate, the capture's stub | store, keychain or file |
| Session (`session.go`, `tunnel.go`, `capture.go`) | proxy, capture child, tunnel process, goroutines | StartSession, Stop, retry of cloudflared | proxy, pool |
| Dashboard server (`internal/serve`, `cmd/serve.go`) | running shares, login handshakes, pid file | Start, Stop, Shutdown, login start and finish | sessions, store |
| Codex and Grok providers | token, identity bundle, prompt sizes and turns of a conversation | request terminals with retry, forced compaction | their upstreams |
| Responses translation (`internal/responses`) | state of one stream | event by event translation, classification, assembly | providers |
| Pipeline, aliases (`share/middleware`, `share/pipeline`, `share/alias`) | semaphore, alias table | overlap check at boot, per-request middleware | share proxy |
| Usage recording (`internal/usage`, `share/usage_tee.go`) | one record per response | tee the body, parse it, decompress it, append once | share proxy, `ccm stats` |
| Command line (`cmd`) | none | login, relogin, rename, logout, use, restore, backup, refresh, share, launch, serve | all of the above |

What makes it hard:

* **Locks released in the middle.** A request reads the slot, refreshes a token
  without the lock, and comes back. The scheduler probes without the lock, ranks
  under it, releases it to capture headers, and re-takes it to promote. A sticky
  request selects, refreshes, pins and charges the answer in separate critical
  sections. The dashboard's manager starts a session between two looks at its map.
* **Late answers.** Upstream answers arrive after the pool has moved on.
* **Failure counters with two writers.** Probes reset them, requests raise them;
  the ranking uses the maximum of a snapshot and the current value.
* **Recovery.** A pool that answers 503 must come back; degraded entries revive
  only by a probe, and probes are skipped while a usage report is cached.
* **Several processes over the same files**, some of which lock and some do not,
  with refresh tokens that are rotated at the server before they are saved, and
  commands that may be killed between any two writes.
* **Life cycles** of sessions, child processes, tunnels, logins and servers that
  race with their own shutdown.
* **Protocols translated on the fly.** A terminal turns one provider's stream
  into another protocol's, in which every block that opens must close, while
  either end may go away; the tee sees the stream in arbitrary pieces.

`PROJECT.json` lists these hazards at their lines, with the properties that
cover them or the reason why none does.

What makes each component correct:

* rotating pool: the slot and the statuses agree; only healthy candidates are
  promoted; an activated entry is demoted only for cause; the pool leaves 503
  as soon as some credential works;
* sticky pool: a session leaves its credential only when that one fails it (as the
  README promises; the code keeps this once a session's requests agree, not while
  they overlap, see the findings in section 3); a used-up or dead credential is
  left; pins do not outlive their use; a working credential returns to the selection;
* refresh flow and store: a valid refresh token is never lost, never used twice,
  and the published file is never half written;
* active credential: no order of commands loses an account's tokens or mixes two
  accounts, and the backup is the login from before ccm;
* session: it is started once, stopped once, and gives back its listener and its
  processes; the capture's child is gone before the proxy serves and its requests
  stay on the machine (in a codex or grok session one of them can slip out, see
  section 6); nothing is forwarded by a proxy that is not set up;
* server and logins: what is listed is what runs, one server per pid file, every
  grant is saved exactly once;
* terminals: the client sees one well-formed finished message; a retry carries
  the new token; a context overflow is told; compaction is not forced for ever;
* aliases and usage: one rule covers a model; a record says what the answer said.

## 2. Modules

| module | what it is |
|---|---|
| `PoolEntries` | the entries and the state machine of one entry, shared by both pools: `MarkProbeOk`, `MarkProbeErr`, `DegradeInvalidGrant`, the ageing of usage reports, cache hits, the order of the ranking |
| `RotatingPool` | `pool.go`, `scheduler.go` and the single-active branches of `proxy.go`, `localproxy.go` |
| `ServingSlot` | the abstract specification `RotatingPool` implements: one slot, a set of entries believed healthy |
| `StickyPool` | `sticky.go` and the sticky branches of `proxy.go`, `scheduler.go` |
| `CredStore` | one credential file of `internal/store`: `Open`, `Write`, `Publish` (the three steps of Save over the shared temporary file), `Delete`, the lock, what load and save do to a credential in memory |
| `CredRefresh` | the processes over it: sessions (`credstate.go`), `RefreshCredential`, rename, relogin, logout, the OAuth server, kills and restarts |
| `ActiveBlob` | the entry the CLI reads and everyone who writes it: `use`, `restore`, `refresh`, `relogin`, `logout`, `backup` with the migration and the Sync each begins with, the CLI itself, sessions, the capture's stub |
| `ShareSession` | one session from StartSession to Stop: proxy, pipeline, capture child, cloudflared, goroutines, requests |
| `SessionLifecycle` | the abstract specification `ShareSession` implements: the promise of the Session interface |
| `Dashboard` | `ccm serve`: pid file, manager, start and stop handlers, shutdown |
| `LoginFlow` | the dashboard's login dialogs, `ccm login` and `ccm relogin` over one store |
| `StreamTranslation` | the reducer of `internal/responses/stream.go` as an operator: one upstream event in, the emitted events and the next translator out |
| `ProviderTerminal` | the codex and the grok terminal over it: token, retry, classification, streaming or assembly, prompt sizes |
| `MessageStream` | the abstract specification `ProviderTerminal` implements: the Anthropic event protocol |
| `AliasTable` | `--model-alias`: the overlap check over a product of automata, the lookup |
| `UsageTee` | the tee, the three sinks, the goroutine and the pipe of the gzipped one, Append |
| `MessagePath` | composes `AliasTable` and `UsageTee` with the request's rewrite: a request through the proxy and its answer back |
| `RotatingPoolProofs`, `StickyPoolProofs`, `CredRefreshProofs`, `ActiveBlobProofs`, `ShareSessionProofs`, `ServeProofs`, `ProviderTerminalProofs`, `MessagePathProofs` | the proofs about the module each one names; `ServeProofs` about `Dashboard` and `LoginFlow` |
| `MCRotatingPool`, `MCStickyPool`, `MCCredRefresh`, `MCActiveBlob`, `MCShareSession`, `MCServe`, `MCProviderTerminal`, `MCMessagePath` | the instances for TLC |

How they fit together: the two pools share `PoolEntries` and see a token source
as something that succeeds, fails or answers invalid_grant; `CredRefresh` is what
happens inside. `ActiveBlob` takes a refresh as one step and looks at the files
around it. `ShareSession` sees a pool only as something to start; `Dashboard`
sees a session only as `SessionLifecycle` describes it, and `ShareSession` is
shown to be such a session. `ProviderTerminal` is what a request meets at the end
of `ShareSession`'s pipeline for two of its five kinds.

### How state and actions correspond to the code

**The pools.** An action is one critical section of `p.mu`, with everything the
handler does up to the next time it releases or takes the lock. A request handler
is a record with a program counter that says where it is outside the lock:
`RotatingPool` has `fresh` (slot read, token being refreshed), `dead` (the
refresh answered invalid_grant), `token` (view not read yet) and `upstream`;
`StickyPool` has `route`, `fresh`, `dead`, `commit`, `upstream` and `spent`
(429 noted, pin not dropped yet). The scheduler has the program counter `spc`:
`probe` while jobs are left, then the ranking, and `promote` during the capture
(rotating), or `refresh`/`evict` as the two critical sections that follow the
probes (sticky).

| variable | code |
|---|---|
| `status`, `fail`, `usage` | `poolEntry.status`, `.consecutiveFail`, `.lastUsage` with the age of `.lastUsageAt` |
| `activated`, `wake`, `captured` | `credPool.activated`, `.wake`, entries whose `.captured` is set |
| `todo`, `preFail`, `winner` | `jobs`, `preFail` and `winner` of `runOnce` |
| `pins`, `feas`, `override`, `spent` | `credPool.sessions`, `poolEntry.lastFeasibility`, `.feasibilityOverride`, entries whose `.lastUsage` reports a used-up quota |
| `dead` | the OAuth server: entries whose refresh token it rejects |
| `capped` | auxiliary, for `SpentEntryIsLeft`: which entry's quota 429 last moved a session |

**`CredRefresh`.** An action is one system call on the store's files or one
exchange with the OAuth server; everything a process does to its own memory in
between belongs to the step. `pc` says where a process is:

    idle -> resolve -> lock -> load -> provider -> open -> write -> publish -> unlock -> adopt
                                 |        |  \-> reread ------------------------^
                                 +--------+--------------------------------------^

| variable | code |
|---|---|
| `file`, `tmp` | `<id>.credentials.json` and its `.tmp`: missing, torn, or whole with an access and a refresh token |
| `fd` | the handle of a process inside os.WriteFile; it follows its inode, which another process may have renamed or replaced |
| `lock` | the holder of flock on the side file |
| `resolved`, `out` | the access token Resolve saw; the credential about to be saved or returned |
| `cred`, `seen` | `credState.cred`; `credState.mtime` equals the file's mtime |
| `live`, `issued`, `expired` | the OAuth server: refresh tokens it honours, tokens handed out; tokens expired or expiring within the margin |

Tokens are numbered as they are issued. A credential in memory carries `exp`,
the token whose expiry its field `expiresAtMillis` holds: that is how the model
tells a cached expiry that moved along from one that did not. The mtime is
modelled by whether a session has seen the file as it is (every rename over the
file and every write into it clears `seen`); the load that follows a stat in
reloadIfPeerWrote is one step with it, since a write in between only causes one
more reload.

**`ActiveBlob`.** A command is a process with a `pc`, its arguments in `job`, the
backend it has found in use in `be` and the login it carries in memory in `held`.
Every read and write of the file system is a step, and the command may be killed
before any of them. A login is the marker (`ccmSourceId`) and a token; a token is
an account and a version, since an account's server honours its latest one only.

| variable | code |
|---|---|
| `path`, `key`, `home` | `~/.claude/.credentials.json` or `~/.codex/auth.json`: none, file, torn, or a symlink into the store; the keychain item; which of them Claude Code uses |
| `backup`, `sidecar` | `bk.credentials.json` or `bk.auth.json`; the legacy `active.json` |
| `store`, `owner`, `live` | the token each stored credential holds; the account it was made for; the version each account's server honours |
| `stub` | EnsureFileStub of the capture and its cleanup, each a check and an act |
| `clean`, `gone` | auxiliary: nothing was killed and no two actors overlapped; accounts the user gave up |

**`ShareSession`.** `pc` is the step of StartSession, `stop` that of Stop; each
request slot is a program counter of the handler chain with what it has read
of the proxy's fields (`seen`). The setters that StartSession calls on the
running proxy are the elements of `wired`.

| variable | code |
|---|---|
| `open`, `done`, `mode` | the listener, `Proxy.done`, capturing or serving |
| `captured`, `closes`, `child` | the headers the proxy replays, how often `captureC` is closed, the `claude -p` process |
| `attempt`, `cloudflared`, `url` | the loop of StartSession over StartTunnel, the processes, the address |
| `goroutines` | refresh loop, refresh timers, scheduler |

**`Dashboard`.** `proc` is the step of runServe of a process (`read`, `truncate`,
`write` on the pid file; `listen`, `running`, `shutdown`, `drain`, `exit`), `map`
is `Manager.sessions`, `call` a handler (`check`, `start`, `insert` of
Manager.Start; `wait`; `stop` of Manager.Stop), `sess` the sessions started so far,
`late` those that were entered after Shutdown had taken the map.

**`LoginFlow`.** A handshake is a PKCE pair and a grant is named by its handshake
and the number of the code it was exchanged for, so that a grant can be followed
through the store. `dialog` is the dashboard's two maps, `codes` the OAuth server,
`actor` a finish request or a process, with the grant it has in hand.

**`ProviderTerminal`.** One connection, request after request: `call` is the
request and where its handler stands, `up` the upstream's answer, `tr` the
translator, `out` what has been translated and not written, `client` the message
as Claude Code has received it (phase, open block, next index), `ctx` and `turns`
the grok terminal's maps, `token` credState's token counted in refreshes. Texts,
ids and counts are left out; an event is its name, its index and its kind.

**`MessagePath`.** `rules`, `boot`, `pair`, `queue`, `visited` are the overlap
check, one product state a step; `sink`, `up`, `copy`, `sse`, `pipe`, `file` the
tee: the copy loop hands a chunk (a line, or a part of one) to the sink, and a
gzipped stream goes through an unbuffered pipe to a goroutine. `said` is what the
upstream has said so far, and what the record is compared with.

Data is abstracted to what the properties tell apart. `consecutiveFail`
saturates at 2: the code compares it with 0 and with 2, increments, resets and
maximises it, and saturation preserves all of these. A usage report is absent,
fresh or stale. In the rotating pool the feasibilities are computed from the
reports at the moment of the ranking, so any ranking can come up: the model
chooses one, and the properties hold for all. In the sticky pool
`lastFeasibility` is stored and read later, so it is state, a level in
`0..MaxFeas`. An entry is a number whose order is that of the ids, which break
ties.

## 3. Runs

`Inv` (`LoginInv` in `LoginFlow`) is, in each module, the type invariant and the
safety invariants named in parentheses.

| run | instance | shows |
|---|---|---|
| `rotating_share` | share: 2 local entries, 1 passthrough seeded degraded, 1 request; entry 1 may be revoked, entry 2's capture and the passthrough's probe may fail | `Inv` (`SlotMatchesStatus`), `ActivatedHasHeaders`, `OnlyCandidatesArePromoted`, `NoDemotionWithoutCause` |
| `rotating_launch` | launch: 2 local entries, 2 requests; entry 1's probe may fail, entry 2 may be revoked; fairness | `NoRestingOutage`, `KeepsThePromise` (refinement of `ServingSlot`), `Recovers` |
| `sticky_pins` | 2 local entries, 2 concurrent requests of one session; entry 1's probe may fail and its quota run out | `Inv` (`StatusTracksFailures`), `SpentEntryIsLeft`, `SettledSessionStays` |
| `sticky_recovery` | 1 local entry, 1 passthrough that may be seeded degraded, revocation of the local one, 1 request, fairness | `ColdPinIsReleased`, `WorkingEntryComesBack` |
| `cred_refresh` | grok: a session that may be killed, a `ccm refresh`, a process that renames, re-authenticates or logs out; 3 tokens; fairness | `Inv` (`PublishedIsWhole`), `PresentsWhatIsStored`, `GrantIsKept`, `CheapPathIsTaken`, `RefreshReturns` |
| `active` | claude and codex, both homes, every legacy layout: 2 commands, 2 credentials, 3 accounts with 2 tokens each | `Inv` (`StoreHoldsItsOwn`), `GrantIsKept`, `SnapshotIsTheOriginal`, `LogoutDeactivates` |
| `session` | all five kinds, tunnel or LAN, pinned token or random: the capture child, 1 other request, 2 cloudflared attempts; fairness | `Inv` (`OneTunnel`), `CaptureStaysLocal`, `ForwardedIsConfigured`, `ImplementsLifecycle` (refinement of `SessionLifecycle`, liveness included), `GoroutinesEnd` |
| `serve` | 2 servers that may be killed, 1 credential, 3 requests, 2 sessions; 1 dialog of either provider finished by 2 requests, 1 `ccm login` or `ccm relogin`, 2 codes a handshake, clock; fairness of the sweeper | `Inv` (`MapIsExact`), `ShutdownStops`, `OneServer`, `LoginInv` (`NoTwins`, `CodexLogsInOnce`), `NoGrantIsLost`, `TypoIsForgiven`, `AbandonedGo` |
| `terminal` | codex and grok: answers of up to 3 items, 1 further turn, 1 refresh, 1 other request's prompt size; fairness; deadlock checked | `Inv` (`ItemsArriveWhole`), `OverflowIsTold`, `StreamsAreMessages` (refinement of `MessageStream`), `RejectionsGiveWay` |
| `path` | every table of up to 2 rules over 6 patterns, every model name of up to 4 letters; answers of up to 2 events, plain, streamed or gzipped; fairness | `Inv` (`OneRuleCovers`), `RecordIsExact`, `AnswerEnds` |
| `sticky_race` | 2 local entries, 2 concurrent requests of one session | `PinMovesForCause` is violated |
| `stale_bundle` | codex, 1 refresh | `RetryCarriesFreshBearer` is violated |

**Bounds.** In the pools `Entries`, `Requests`, `Sessions` are the sizes above;
`Flaky`, `CaptureFlaky`, `Revocable`, `Capped`, `DegradedSeeds` say which entries
can misbehave (an entry outside them shows that the others do not drag it down);
`MaxFeas` is the number of feasibility levels (two levels tell a used-up entry
from one with quota); `MaxFailovers` bounds the failover loop, as
`maxInvalidGrantFailovers` does. Two entries are the smallest pool that rotates;
the third one of `rotating_share` lets a rotation happen among entries while
another is degraded. Two handlers are enough for a late answer to meet a pool that
another request has changed; the scheduler is a third actor. In `cred_refresh` two
callers of RefreshCredential are the smallest race, one process without the lock
is the smallest disturbance of it (its role is chosen by its first step), and
`MaxTokens = 3` allows two rotations, or one and a relogin.

In `active` two commands are the smallest race; `MaxVer = 2` lets each account's
token be rotated once, which is what makes a copy stale. Two bounds keep the
state space small: commands of claude run one after the other there
(`Together = {"codex"}`: side by side they are covered by the proof of
`NoForeignTokens`, which has no such bound and is about every history of claude),
and the user does not log in at the CLI while a backup is pending
(`LoginOverBackup = FALSE`).
`session` needs one client beside the child, as requests meet each other only
through the proxy; `MaxAttempts = 2` has a first, a retried and a last attempt.
`serve` has two halves, `Dashboard` and `LoginFlow`, which share no variable: a step
of one is explored only while the other rests in its initial state. It needs three
requests for a Stop to meet two Starts of one credential; what they do to each other
they do in one slot of the manager's map (several credentials: proved). Its
symmetry is over the servers and their requests, which rest while logins are made.
Two codes per handshake are a first visit and a second one, `TTL = 1`
tells young, old and swept. In `terminal` three items cover an item of every kind
before and after another one; a second turn is what a forced compaction is about.
In `path` the six patterns have no star, one at either end, one in the middle, two
around a letter, and adjacent ones; a name of four letters passes each of
them, and one letter is in no pattern's alphabet. The safety properties proved in
section 4 hold without these bounds.

Distinct states: `rotating_share` 2,093,400, `rotating_launch` 237,240,
`sticky_pins` 1,001,644, `sticky_recovery` 214,824, `cred_refresh` 446,289, `active`
2,024,945, `session` 93,026, `serve` 247,506 (up to symmetry),
`terminal` 531,489, `path` 266,762.

`PublishedIsWhole`, `PresentsWhatIsStored` and `GrantIsKept` of `CredRefresh`
speak of the time before a command without the lock touches the file (`Quiet`):
such a command may sit at any of its earlier steps, and once it writes, all three
can fail. That is what the code does, and no text of the repository promises
otherwise. In the same way `GrantIsKept` and `LogoutDeactivates` of `ActiveBlob`
speak of commands that are neither killed nor overlapped (`clean`), whatever
their order; `StoreHoldsItsOwn` speaks of every history of claude and of the clean
ones of codex (section 6), and `OneServer` of servers that do not start at the same
moment.

**Fairness.** `Tick` and the scheduler's steps are weakly fair: `Run` is a
goroutine that loops over a ticker and has no exit but shutdown, and every
probe and capture has a timeout. `Age(e)` is weakly fair: time passes, so an
entry's usage report that no answer renews crosses its TTL. A session's pin
either cools or its session succeeds again and again. In `CredRefresh` the steps
of a call are weakly fair as one action per process: a running process goes on,
the HTTP clients have timeouts (60 s and 30 s), and the poll for the lock ends
with the lock or at its deadline. The lock itself is not fair: a process may
lose it to others every time, which is why the deadline matters. In
`ShareSession` StartSession and Stop go on (every wait in them has a timer), the
goroutine that kills cloudflared runs, a goroutine that has been told to end
ends, and a process that was killed dies; a process that was merely asked to end
need not. In `LoginFlow` the sweeper's ticker fires. In `ProviderTerminal` and
`MessagePath` the handler, the copy loop and the goroutine go on and the upstream
sends or closes in the end: the code sets no timeout there, and without that the
properties would be about the upstream. Nothing is assumed of requests, of
revocations, of users or of which entry ranks first; `ActiveBlob` and `Dashboard`
have no fairness, all their properties being safety ones.

**Deadlock** is checked in the terminal's runs, where the connection can always
take a next request. Elsewhere the system may rest: a pool nobody sends requests
to, processes that have ended, a stopped session, a spent bound.

**Where the code and its documentation disagree** (`findings` in
`PROJECT.json`):

* `README.md:150` says that "a session is re-pinned only when its credential can no
  longer serve it". A request selects its entry and commits the pin in two critical
  sections with a token refresh between them, and `commitPin` (`sticky.go:357`) does
  not look at the pin that is there. Two first requests of one session, routed on
  both sides of a tick, pick different entries; the later one moves the pin off an
  entry that is as able to serve as before (run `sticky_race`).
  A late answer violates the property as well. `signalEntryFailed` (`sticky.go:130`),
  `failEntryInvalidGrant` and `dropPin` delete a session's pin without comparing it
  with the entry whose answer they handle: a request still waiting for the session's
  old entry gets its 401 and drops the pin to the new one, which has failed nobody,
  although `ccm.1:610-618` gives failures of the session's own credential as the only
  causes.
* After a 401 the codex terminal lets credState refresh the token and asks the
  identity bundle for the headers of the second attempt, as
  `internal/codex/middleware/terminal.go:243-244` explains; but the bundle keeps the
  credential object of the session's start (`identity/bundle.go:43`), while a refresh
  puts a new object in credState, so the retry carries the old token (run
  `stale_bundle`).

## 4. Proofs

The theorems hold for every value of the constants that meets the module's
assumptions. `PROJECT.json` lists them.

`RotatingPoolProofs` proves, for every set of entries, every number of
requests and every choice of misbehaving entries (the assumptions are
`EntriesAssumption` and `RotatingAssumption`), the invariants
`Inv`, `ActivatedHasHeaders` and `NoRestingOutage`, the
action properties `OnlyCandidatesArePromoted` and `NoDemotionWithoutCause`, and
that `RotatingPool` implements `ServingSlot`.

`SlotMatchesStatus` is not inductive: `Promote` runs long after the ranking, so
one must know that the winner is still a candidate and not the entry in the
slot. The inductive invariant `IInv` adds `WinnerIsCandidate` and
`SingletonRests` (a singleton pool never leaves `idle`). The argument for
`WinnerIsCandidate` is that while the scheduler is in its capture the only
statuses that change are those of the entry in the slot: `MarkProbe` is called
by the scheduler itself, and the request path degrades the activated entry
only. This holds because `failEntryInvalidGrant` is called with an empty id in
this mode, the same fact behind the first observation of section 6.

`WakeIsNotLost` assumes `SkipCapture \/ CaptureFlaky = {}`: a failing capture
ends the tick over an empty slot, and the next one comes with the ticker.
`ImplementsServingSlot` assumes `DegradedSeeds = {}`: a degraded entry may be
seeded into the slot (section 6).

`StickyPoolProofs` proves, under `EntriesAssumption` and `StickyAssumption`,
`Inv` (inductive together with `HandlersAreSound`: a handler past its selection
holds an entry, one that fails over has failovers left) and two more theorems:

* `SettledSessionsStay`, about any number of concurrent requests of a session, with
  no further assumption. `PinMovesForCause` fails because some request of the
  session was sent elsewhere than its pin points. A session is
  `Settled` when none was; such a session stays settled, on the same entry, until
  the sweep runs, the entry no longer serves, or it fails one of the session's
  requests with an invalid_grant, a counted 401 or a quota 429 (`Cause`). The proof
  goes by who touches a pin: the ticks' and other sessions' steps leave it alone
  (`HandlerTouchesOwnPin`), a new request follows it (`HandlerKeepsSettled`), a commit
  writes what is already there, and a drop comes from the pinned entry's own failure.
* `SpentLocalsAreLeft`: if only local entries run out of quota, a session does
  not return to a used-up entry while a clean one has quota left. The invariant
  `CappedIsSpent` follows a quota 429 through every later tick: the report it
  cached is what `refreshFeasibilities` recomputes the level 0 from. For a
  passthrough entry the override is used instead (section 6).

`CredRefreshProofs` proves, for every set of processes of each role, every
provider and every number of tokens (`StoreAssumption`, `RefreshAssumption`),
`Inv`, `PresentsWhatIsStored` and `GrantIsKept`, and
`CheapPathIsTaken` for `Provider = "grok"`. None of the safety properties is
inductive. `Holders` ties the variable `lock` to the program counters, so that
two callers are never inside the locked section together; `SaveIsPrivate` adds
what that buys while nobody else writes: no handle but the writer's is open, the
temporary file is torn exactly until the writer has written, and what is renamed
is what the writer holds. The temporary file a killed process leaves behind is
harmless because the next holder truncates it first. `GrantIsKept` also needs
`SavedIsLive`: only the holder of the lock spends a token and it does so before
it saves, so what is being saved is honoured by the server.

`ActiveBlobProofs` proves all four properties of `ActiveBlob`, for every set of
commands. `SnapshotIsTheOriginal`, and `StoreHoldsItsOwn` for claude, hold with
commands side by side and kills anywhere; `GrantIsKept`, `LogoutDeactivates`, and
`StoreHoldsItsOwn` for codex, are about clean histories. The argument is in four
layers, each inductive given those before it.

* `IInv` (for `Inv`, that is `StoreHoldsItsOwn`) follows the markers. A stored
  credential is written by Sync from a login whose marker names it: `Marks` says
  that a login marked with a credential holds tokens of that credential's account
  wherever it is (the entry, the keychain, the backup, a command's memory), and
  `Sure` what a command has made sure of before it writes to the store.
* `SInv` (for `SnapshotIsTheOriginal`) follows the logins without marker. They are
  from outside, given up, placeholders of the capture, or an older ccm's entry;
  `Legacies` and `Originals` say that such an entry meets the first Migrate, which
  recognises it, before any command can back it up, `Stubs` where a placeholder is.
* `QInv` (for `LogoutDeactivates`) is about a clean history, in which a command
  runs alone. `Layout` says what may lie in the entry, the keychain and the backup
  while nothing runs, `Stage` how far a command has got in putting it in order
  and what it holds meanwhile; `Issued`, `Roles` and `Symlinked` that no token is
  newer than its server's last one and which provider's commands pass where.
* `Kept` (for `GrantIsKept`) says that the token a server honours is deposited: in
  an entry, the backup or the store. A step may only overwrite a token that is
  `Safe`, that is also somewhere else, of an account given up, or superseded; the
  renewing step puts its new token where the old one was.

`GrantsAreKept` proves `GrantIsKept` for `~LoginOverBackup`, and without that
hypothesis `OthersKept`, the same for every account but the CLI's own first one.
The hypothesis is the code's: who logs in at the CLI again while a backup is
pending has the new login overwritten by the restore.

`ShareSessionProofs` proves `Inv`, `CaptureStaysLocal`, `ForwardedIsConfigured` and
the safety half of `ImplementsLifecycle`, for every number of clients and
attempts. The inductive invariant has one part per concern: `Steps` (which
resources exist at which `pc`; the child lives only while it is waited for),
`Captures` (the one request that captured its headers announces it, once),
`Wiring` (the order of the setters), `Requests` (what a handler has seen is wired,
the child is never authenticated), `Tunnels` (a cloudflared that lives belongs to
the attempt under way), `Stops` (what Stop has already taken down). Where the
token is only in the ticket a request can be authenticated only once the address
is known, which is after the setters: that is `ForwardedIsConfigured`. An
unauthenticated request is forwarded only by a pipeline that has the handlers and
not the secret, which only a codex or grok session ever has, between the two
setters: that is `OnlyEarlyPipelinesLeak`.

`ServeProofs` proves, about `Dashboard`, `Inv`, `ShutdownStops` and `OneServer` for
any number of servers, credentials, requests and sessions. `OneServer` rests on
`OneStarter`: as long as no two servers have been starting at once, one process at
most is between the reading of the pid file and the start of serving, and the file
names every server that is up. `MapIsExact` rests on `SessionsAreHosted`,
`CallsAreHosted`, `StartsAreOwn` (the session in the hands of a Start belongs to it
alone) and `ListedOnce`.

About `LoginFlow` it proves `LoginInv`, `NoGrantIsLost` and `TypoIsForgiven`; the
inductive invariant is `LoginIInv`. `OwnGrants` says that a grant is in one pair of
hands, and not under the old id before its relogin has got there; `Issued` that it
was given for a spent code; `Minted` that a minted file holds the grant it is named
after, or none; `Relogged` and `Moved` follow a relogin between its graft and its
clean-up, when two files do hold one grant; `Taken` and `Once` that a codex
handshake is with one finish request, or gone.

`ProviderTerminalProofs` proves `Inv` (that is `ItemsArriveWhole`), `OverflowIsTold`
and the safety half of `StreamsAreMessages` for answers of any length. What makes it
hard is the gap between three parties: the upstream is ahead of the translator's
client by whatever the classifier holds back or the writer has not flushed.

* `Abreast` relates a client that has received everything translated so far to the
  translator and the upstream: the block it has open is the translator's, the
  translator's is what the upstream's stage of the item says (`Translating`), and
  the client has been told what the upstream has said of it (`Tells`). A grok
  reasoning item keeps its block open until it is done, so that the signature its
  end carries (`seal`) goes out before the block closes.
* `Progress` is the step: whatever the upstream sends next, the events that `Apply`
  emits bring such a client to one that is abreast again. It is proved event by
  event, from the block operations up (`Brings`), as is what the safety net adds
  when the stream ends (`NetConcludes`).
* `Leads(c, s, d)` follows a sequence of events from client to client, each event
  one the client expects (`Expects`). `Answering` says that what waits in `out`
  leads the real client to one that is abreast (`Awaits`), and while the handler
  drains to one whose message has ended or never started (`Concluded`). Translating
  appends to such a sequence (`LeadsOn`), writing takes its head (`LeadsOff`).
* So an event that is written is one `MessageStream` allows (`Delivers`), which is
  the refinement; and when `out` is empty the client itself is abreast, which gives
  `ItemsArriveWhole`. `OverflowIsTold` is `Overflowing`: the classifier lets through
  what has acted, has ended without overflow, or is late.

`MessagePathProofs` proves `RecordIsExact` for every length of the answer. The
inductive invariant compares two readers of one stream: what the upstream has said
and what the sink has parsed. `Kept` says that they agree once what is on its way
has arrived, first the chunk the goroutine has taken from the pipe, then the one
in the copy loop (`Ahead`); `Halves` that a line begun is one that was awaited,
`Copying` and `Plumbing` who waits for whom, and `Recorded` that a line is
appended when, and only when, the sink has finished. The state space of the run is
a small part of this; the theorem covers every cut into pieces.

It also proves `Inv`, that is `OneRuleCovers`, for every alphabet, every table and
every name (`OneRuleRewrites`). The boot check never looks at names: it searches the
pairs of states of two compiled patterns. Three facts join it to what the
rules say. The states of an automaton after n letters are those of the pattern's
beginnings that can stand for them (`StatesAreStatesOf`), so the matcher accepts the
names that the pattern covers (`MatchesWhatItCovers`). A pair of states the search
has seen is one that some name leads to (`Reached`), so a refused table has two
rules that share a name. And a search that ends without a common last state has
closed its set of pairs under every letter of the table; any other letter leaves a
state where it is or leads nowhere (`ForeignStays`): no name is shared.
`Booted` carries this through the search, pair after pair of rules, `Looked` through
the requests. The refused half names a shared name, so it needs that name among
`Names`: the hypothesis `Seq(Letters) \subseteq Names`; `OnlyRule`, what an accepted
table promises, is proved without it.

The recursive functions of `AliasTable` and `Covers` take induction over sequences.
It is done with a set of naturals in place of a predicate (`SetInduction`, `UpTo`),
from the least element that the well-founded order of the naturals gives every such
set (`LeastNat`); a theorem with an operator parameter could not be used.

Every safety property of the passing runs is proved, some under the hypotheses
named above. Model-checked only are the liveness properties `Recovers`,
`ColdPinIsReleased`, `WorkingEntryComesBack`, `RefreshReturns`, `GoroutinesEnd`,
`AbandonedGo`, `AnswerEnds`, `RejectionsGiveWay` and the liveness half of
`ImplementsLifecycle` and of `StreamsAreMessages`: liveness under fairness, and
ENABLED, are beyond the prover.

No module declares a RECURSIVE operator.

## 5. Not modelled

* The content of requests and answers, header replay and rewriting, HTTP itself,
  the Via check, wording of logs, the dashboard's pages and listings, tracing,
  logging and shell aliases: I/O without state that the properties depend on.
* `computeFeasibility`'s floating-point arithmetic (the pools' properties hold for
  every ranking), the jittered delay of the refresh timers, the aggregation of
  usage for `ccm stats`; `Demote`, which only tests call.
* `TranslateRequest`, which turns one JSON document into another without state:
  it succeeds or fails. Tickets' encoding, PKCE, and name resolution in the store.
* The rotating pool's preflight tick in `StartSession`/`StartPoolBackground` is
  the tick of the scheduler, run before it starts; `Init` is the state before. The
  pool builder is the choice of initial states.
* In `CredRefresh`: Windows locking, the profile and usage requests made during a
  refresh, names of credentials (rename is modelled for the tokens it writes
  back), several credentials (locks and files are per credential).
* In `ShareSession`: the download of cloudflared, the tokens (see `CredRefresh`),
  the pools' routing (see the pools).
* Codex's `UsageTee` and `QuotaCache`: no code path of the program uses them.

## 6. Observations

What was noticed while modelling. What became a finding is in section 3; none of these has
a run of its own: the models
above take the code as it is, these behaviours included where they are in scope.

**Pools**

* `handleServe` (`proxy.go:807`) and `serveWithToken` (`localproxy.go:347`) call
  `failEntryInvalidGrant` with empty ids after a refresh made without the lock: an
  invalid_grant that arrives after a rotation degrades the healthy entry activated
  meanwhile, and empties the slot.
* A pool of one entry is not promoted again after an invalid_grant: its tick
  returns early (`scheduler.go:236`), though `sticky.go:259-260` expects it.
* A degraded bootstrap entry is put in the slot (`pool_builder.go:236`).
* A quota 429 of a passthrough entry (`sticky.go:189`) is forgotten at the next
  tick, which restores the override from before it.
* A refreshed claude or codex credential keeps the cached expiry of the token it
  replaced (`store/credential.go:239`), so its session asks the OAuth server again
  on every later call and its timer does not pause (`refresh.go:162`).
* `handleServe` reads the token and the view in two critical sections.

**Active credential**

* A managed entry may be behind its stored credential after a session's refresh;
  the codex CLI's original login is not renewed in the backup.
* Use writes the backup in place: a kill leaves it torn. A claude Restore killed
  between Put and Remove leaves the backup beside the login it has put back.
* migrate overwrites an unmarked entry. The capture's stub can be taken for the
  original login when it meets a command. `restore` says "Restored" for a no-op
  (`cmd/restore.go:24-26`). `IsActive` and `WriteActive` are a check and an act.
  `ccm backup` may import a grant the store already has. The README
  (`README.md:365`) describes a symlink on Unix where the code writes a marked
  file everywhere.
* codex Restore writes with os.WriteFile, which follows a symlink that a
  concurrent `ccm use` has just made: foreign tokens land in a stored credential.
  (`StoreHoldsItsOwn` for codex is therefore about clean histories.)

**Session**

* `capture.go:25-26` says that `claude -p` is killed as soon as the capture completes
  "so that no in-flight request leaks into SERVING mode". Killing the child does not
  end its requests in the proxy. In a codex or grok session `SetCodexHandlers`
  (`session.go:304`) runs before `SetSharedSecret` (`session.go:313`): a request whose
  pipeline is built between the two is forwarded without an auth check, and may
  still be under way when the mode becomes serving. The run `session` reaches this;
  `CaptureStaysLocal` says that it is the only way out.
* The setters run after Start although `proxy.go` asks for the opposite;
  Transition sets ModifyResponse after it has unlocked. With a pinned token on the
  LAN, requests are served in that window.
* After model_not_found the proxy is dead and nobody is told: `Err()` is always
  nil, `proxyErrC` is never read.
* `--max-concurrency` has no effect: the semaphore is built for each request
  (`proxy.go:452`).
* RunCapture's select may report a failure after a capture; on the LAN a remote
  request can be the captured identity. StartTunnel kills without waiting; the 5 s
  deadline of Shutdown lets streams outlive Stop.

**Dashboard and logins**

* Ctrl-C does not stop sessions that are still starting; Stop during a Start is a
  no-op; an error of `srv.Serve` returns without Shutdown; `mgr.Shutdown` precedes
  `srv.Shutdown`, so that a share can be started in between.
* Two servers starting together can both go on, and the loser removes the winner's
  pid file.
* Abandoned codex handshakes are never evicted; a failed codex exchange consumes
  its handshake.
* A claude relogin that is killed or fails between its graft and its delete leaves
  two credentials with one grant. A bare grok code skips the state check.

**Terminals and usage**

* codex with `stream: false` writes the raw event stream as `application/json`;
  an overflow there is not translated. The end of the stream before
  `response.created` is an empty 200; after a scan error message_stop is followed
  by `error`; a top-level `error` that is no overflow is swallowed; a cancelled
  context skips finalize.
* Fresh does not refresh an unexpired token on a 401. Two concurrent grok requests
  may both be rejected for one recorded size, and the compaction request itself
  records a size over the threshold again.
* rewriteModelField replaces the first `"model"` of the text, which may be a nested
  key; a body without a model is looked up as "" and matched by `*`.
* installUsageTee compares the content type case-sensitively while NewSink parses
  it. The header comment of `usage_tee.go` lists "no Content-Encoding" among the
  conditions, while a comment in the body and the code accept gzip; the model follows
  the code. A `message_start` or `message_delta` line beyond 32 KiB would be dropped.
