# A TLA+ verification of chat-overlay

chat-overlay (Elixir/OTP) merges the live chats of Twitch, YouTube and Kick into
one feed per profile and serves it over SSE to a reader page and to a
transparent overlay for OBS. Deleted text must disappear everywhere and stay
away, a viewer that was cut off must end up with what a fresh viewer sees, and
connectors must run exactly while somebody watches. Those promises are kept by
small state machines that work concurrently: cursors, a replay ring, deletion
barriers, leases, timers that cannot be taken back once they fired. This
directory models them in TLA+, checks them with TLC and proves the central ones
with TLAPS. Alert media that users upload go through a second system, written in
Python: a coordinator with a journal between quarantine and public bucket, a
container that decodes them, and a store on the local disk for installations
without a bucket. There the promises are about crashes and about requests that
arrive late: nothing deleted comes back, nothing in use disappears, nothing stays
that nobody pays for.

Paths below are relative to the repository (`src/` here).

## 1. Inventory

| Component | State | Operations | Talks to | Hard behaviour |
|---|---|---|---|---|
| **Store** `lib/chat_overlay/store.ex` (one GenServer per profile) | visible messages, source states, epoch + local sequence, replay ring, deduplication window, deletion barriers, admitted sources | ingest of six event types, `read` with a cursor, `update_sources`, `expire`, restart | called by Source, webhooks, Stream, Profiles | order of messages and deletions, replay vs. snapshot, limits of four tables, crash |
| **Stream** `stream.ex` and the **page** `priv/static/app.js` | per connection: cursor, bytes on the wire; in the page: message list, states, last event id | connect/admit, poll every 50 ms, filter, write; apply batch, paint, reconnect | Store, Admission, Config, Profiles (revocation), browser | lost batches, reconnect with an old cursor, filter changes, revocation between check and registration |
| **Admission** `admission.ex` | leases by monitor, viewers per profile | acquire, release, `:DOWN`, demand | casts to Source; called by Source, Stream and webhooks | a lease can change before a cast is handled |
| **Source** `source.ex` (one per upstream channel and credential) | demand, worker, retry timer, grace timer, next attempt, gap | acquire/release, idle, retry, result, defer, restart | Admission, Store, connectors | timers that already fired, worker results, demand that changed, upstream gaps |
| **Profiles** `profiles.ex` | the profile document, revocation table, media objects, token mutations | save, delete, regenerate capability, revoke session, media jobs, token writes | Config, Stores, Sources, Tokens, Stream, Persistence | persist / publish / supervise in steps, one failing |
| **Tokens** `tokens.ex` | token cache, running refreshes, waiting callers | get, invalidate, clear, worker done | Profiles, OAuth | one refresh for many callers; unlink during a refresh |
| **Session** `session.ex` | signed cookies, epoch, revoked ids | create, verify, authorize | Profiles | revocation table at its limit |
| **OAuthFlow** `oauth_flow.ex` | pending authorization states | register, consume | OAuth, Web | single use, deadline |
| **Media ledger and cleaner** `media_ledger.ex`, `media_cleanup.ex`, `media.ex`, `media_coordinator.ex`, and the media operations of Profiles | one entry per object: pending, processing, ready, active, retired, being deleted; the key the cleaner did last | reserve, begin and finish a validation, use, retire, claim and finish a cleanup | Profiles, coordinator, browser | late results, activation racing the cleanup, a crash between claim, remote deletion and release |
| **Media coordinator** `scripts/media_coordinator.py`, `scripts/local_media_coordinator.py` | journal (requests, results, artifacts, cancellations, doubts), the two buckets | normalize, delete, sealed start, compaction | ledger (HTTP), buckets, sandbox | a PUT that outlives its timeout, crash between commit and call, retry, limits of the journal |
| **Local object store** `scripts/local_media_store.py`, `scripts/compact_local_media.py` | files, SQLite index with tombstones | PUT, GET, HEAD, DELETE, offline compaction | coordinator, ledger | crash between file and index, budget, reuse of a key |
| **Media sandbox and validator** `scripts/media_sandbox.py`, `scripts/media_validator.py` | one container per job, its log, its output | launch, poll, read, check, remove | Docker, FFmpeg, coordinator | the container ends between two looks, deadline, untrusted output |
| **Operator and deployment scripts** `scripts/check_*.py`, `audit_image.py`, `decoder_vex.py`, ... | none of the running system | checks of images, backups, isolation | Docker, git | sequential |
| **Persistence** `persistence.ex`, `postgres.ex`, `profile_storage.ex`, `recovery.ex` | the stored document and its digest | load, replace, back up, restore | Profiles | compare-and-replace, partial writes |
| **Connectors** `connectors.ex`, `adapters.ex`, `net.ex`, `socket.ex`, `transport.ex` | sockets, continuation tokens | three protocol clients | Source, Store | I/O and parsing |
| **Kick webhook** `kick_webhook.ex` | a counter of requests per second | verify, check demand, publish | Admission, Source, Store | two reads of shared state before it publishes |
| **Custodian** `custodian/*` | connections between two OS processes | relay requests and streams | Web, Stream | framing, I/O |
| **Web, resolver, configuration, crypto** | none of their own | routing, validation, encoding | all | stateless |

What makes the modelled components correct:

* Store: no visible or replayable text under a remembered deletion; the ring is
  a gapless suffix of the history; every visible change moves the cursor; the
  four tables stay within their limits and agree with each other; barriers do
  not go back.
* Stream and page: a page that holds the current cursor shows what a snapshot
  would show, in the same order; it only ever shows something the store really
  held, never mixes two instants, never goes back; it catches up.
* Admission and Source: a source runs if and only if it is watched (after a
  grace); no change of demand is lost; a source never waits for a timer nobody
  set; nothing deleted during a gap survives the reconnection.

* Ledger and coordinator: every stored byte has an entry; an alert in use and an
  output offered for use exist; what was reported deleted is never there again;
  whatever a job may still publish is in the journal; a due entry is removed
  although others before it cannot be.
* Local store: written once, whole or not at all, within its budget.
* Sandbox: what comes out is a canonical file, whatever ran inside; the verdict
  of the decoder is not lost; the launcher ends.

The hazards, each with its line, are listed in `PROJECT.json`.

## 2. Modules

```
   +----------------- ChatViewProofs
   v                      v
StoreProofs --> Store <-- ChatView --(refinement mapping)--> Feed
                  ^           ^
               MCStore   MCChatView

TokensProofs --> Tokens <-- MCTokens       DemandProofs --> Demand <-- MCDemand

CoordinatorProofs --> Coordinator <-- Media <-- MCMedia
       ^                                ^
       +------------------ MediaProofs--+

DiskProofs --> Disk --(refinement mapping)--> WriteOnce
                 ^
               MCDisk         SandboxProofs --> Sandbox --> Formats
                                                   ^
                                               MCSandbox
```

An arrow is EXTENDS, from the module that extends.

### Store

One GenServer, so one handler is one action. `Ingest(e)` is
`handle_call({:ingest, e})` (store.ex:73-89): source admitted, key not seen, then
one of `IngestMessage` (message and replace, with the capacity eviction that
announces itself as a deletion), `IngestState` (with the 30 s suppression),
`IngestDeletion` (barrier, removal, purge of the replay and the gap in the
sequence) and `CompactBarriers` (a deletion that finds the barrier table full).
`UpdateSources`, `Expire` (the `:expire` tick; `read` begins with the same
step), `Restart` (the supervisor, with the arguments frozen in the child
specification) and `Tick` complete it.

| Code | Model |
|---|---|
| `messages` (ordered list) | map from key to message, ordered by `pos`, the local sequence it entered under |
| `ring`, entries `{seq, deadline, event}` | sequence of records |
| `seen` MapSet, `seen_q` queue | `seen`, `seenOrder` |
| `barriers` `%{key => {deadline, at}}` | function from barrier keys |
| epoch (random) | number of epochs so far: two epochs never collide |
| monotonic and wall clock | one clock `now`; the provider's `occurred_at` is free |

Text, display names and badges are left out: an event is its identifiers and
times. An identifier stands for the pair with the emission session that the
code compares. `configured` is what Config holds and outlives a store.

### ChatView and Feed

`ChatView` extends `Store` with the SSE loop and the page: `Connect` (from the
page's Last-Event-ID), `Poll` (one turn of `poll/6`: expire, read, filter,
write), `Deliver` (the "batch" listener: apply all, paint, remember the id),
`PageClock`, `Drop` (what was on the wire is lost), `ReloadPage`, `SaveProfile`.
`ReadBatch` is `handle_call({:read, cursor})`: nothing, a replay or a reset with
a snapshot; `ApplyToList` and `ApplyToStates` are `apply(e)` of app.js. The filters
and the loops over a batch are recursive functions (`Picked`, `ListAfter`,
`StatesAfter`) and the store's list is the messages by their position
(`Listed`), so that the proofs can follow them.

`SaveProfile` changes Config and the store in one step although the code does it
in two (profiles.ex:1159-1161): no viewer can tell the orders apart, because the
loop reads the filter from Config and the store refuses events of a source only
at its own step. No adapter emits `replace`; the store would move an edited
message to the end and the page leaves it in place (app.js:1137-1140), so the
run that compares the order has no edits and the others do.

`Feed` is the abstract promise: each viewer has a content, past contents on
their way and one on the screen; a content may be lost on the way, items grow
old for everybody at once, nothing else happens. `ImplementsFeed` says
`ChatView` implements it. The history field `upto` of a batch records what its
viewer could have seen when it was read; no action reads it.

### Demand

Admission's leases, the sources and the part of Profiles that starts and stops
them. The interaction is asynchronous in one direction (`GenServer.cast`) and
synchronous in the other (a source asks Admission for the demand while it
handles the cast), so a source acts on a later demand than the one it was told
about. A mailbox is a sequence of messages; a timer that has fired is in it and
`Process.cancel_timer` no longer reaches it (`live` holds those it still
reaches). `Rest`, `WantedAlready`, `WantedLater` and `WantedNow` are the four
outcomes of `handle_cast`; `Idle`, `RetryUnwanted`, `RetryLater`, `RetryNow` and
`Ignore` those of the timers; `Result` and `Defer` come from the worker. A result
needs no place in the mailbox: the moment a worker ends is free, and
`Task.shutdown` removes the reply of a worker it kills. `Save`, `StartSource` and
`StopSources` are the steps of a profile save or deletion; Admission and the
sources run between them. `CrashSource` and `CrashAdmission` follow the
supervision tree (application.ex:51, 75-86). What the stores hold of a source is
reduced to: nothing, something (`held`), something the upstream has deleted
unheard (`stale`), per profile. Delays are timer periods. Statuses and the
attempt counter, which only sets a delay, are left out.

### Tokens

The coordinator (`tokens.ex`), the account operations of Profiles, the OAuth
provider and the reader in `net.ex` that looks at the binding before and after
it asks.

| Code | Model |
|---|---|
| an access token and its refresh token | the number of the grant that issued them; `binding` says for which binding, `fresh` whether it is far from its expiry, `valid` what the provider still accepts |
| `account_version` (unique, monotonic integer) | `links + 1`; a version never comes back within one run of the node |
| `tasks`, `refs` | `tasks`: both are changed together everywhere |
| mailbox of Profiles | `inbox`, the requests of workers only: they outlive a killed worker. A user's request that waits there is one not made yet |
| `invalidate_tokens` after a write | `busy`: Profiles waits, and everybody else already reads the new accounts |

`GetCached`, `Coalesce`, `GetRefused`, `GetStored` and `StartWorker` are the
outcomes of `handle_call({:get_access_token, ...})`; `Granted`, `Refused` and
`Unanswered` what becomes of the worker's request; `SaveTokens`, `SaveStale`,
`SaveFails` and `Mark` what Profiles does for it; `WorkerDone`, `Down` and
`Invalidate` the other handlers. The coordinator's check of the binding and its
reply are one step: whatever Profiles changes between them it changes before the
reader's second look. `Refused` is not the provider's verdict on the refresh token but
what the code takes for one: every 401, whatever it is about, and every 400 that says
`invalid_grant` or whose description mentions "revoked" or "expired" (oauth.ex:369-428).
So it may come while the provider accepts the token; the history `misjudged` holds the
accounts it came for, until they are linked again or a grant is saved for them. `unsure`
and `cut` are history too: where a granted refresh got lost. A worker that is killed may have been served by the
provider already (`MayHaveServed`). `Crash` follows `rest_for_one`
(application.ex:51): a coordinator that dies while Profiles waits for it takes
Profiles with it, since the exit of the call is caught nowhere; a new Profiles
draws a new session epoch, so every login ends. Left out: `clear`, which only
tests call, and an invalidation sent by a worker, which none sends (all pass
`invalidate_cache: false`); a reader that gives up after 15 s, whose reply OTP
drops. Whether the mark reached the disk (profiles.ex:1655-1668) does not show
until the node restarts.

### Coordinator

One request is served at a time (HTTPServer), but its journal is committed between
the steps, so each commit and each call to a bucket is an action: `AcceptNormalize`
(refusals and the row of the job), `Recheck` (a job that is done is answered from
the journal), `Decode` (input read, decoded, artifact journaled), `Mark`, `Put`,
`Confirm`; `AcceptWithdraw` and `AcceptDelete` (cancellation first), `Remove`,
`Verify`; `Fail` and `Restart` may come between any two and may leave a call half
done (`Interrupted`).

| Code | Model |
|---|---|
| `jobs`, `artifacts`, `cancelled`, `uncertain` | `request`, `result`, `artifact`, `cancelled`, `uncertain` |
| both buckets, and the local store behind the same interface | `store`: absent, there, or, locally, gone for good. That a local object is written once is what `Disk` shows |
| a presigned URL in use, a PUT whose connection was cut | `flying`: `Land` at any later time, any number of times, until `Drain` |
| `MEDIA_UPLOADS_SEALED` | `sealed`, chosen at `Restart`. A sealed start is an operator's word that nothing is in flight, so remotely it requires just that |
| the local subclass, which deletes as if sealed | `Settled` |
| keys: `<handle>/<kind>/<random>_name`, `<handle>/validated/<job>/<sha256>.<ext>`, `.../pending` | an input, a pair of job and hash, and `Pending` |

`released` and `spent` are history: what was reported deleted, and which jobs a
compaction has forgotten. `MayAsk` and `MayDelete` are what the coordinator relies
on once it has forgotten a job: names are random, and nobody asks again for a job
that is over. Module `Media` shows the application keeps to it (`RequestsSafe`).

### Media

The ledger, the users and the cleaner, EXTENDing the coordinator. Profiles
serializes what touches the ledger, so `Reserve`, `BeginJob`, `FinishJob`, `Use`,
`DeleteProfile`, `FinishCleanup` are one step each; between `BeginJob` and
`FinishJob`, and between `Sweep` (the timer with the claim) and `FinishCleanup`, a
request goes to the coordinator and an answer comes back (`Serve`, `GetResult`,
`CleanerAnswer`). Both ends may stop meanwhile: `UserGivesUp`, `CleanerGivesUp`
(30 s), `CrashApp`, `RestartCoordinator`, `CallFails`. An abandoned request stays in
the accept queue (`backlog`) and its answer is dropped (`DropAnswer`). An upload and
its output share their deadline (`age`), since the output's entry is a copy of
the input's. `CompactRemote` and `CompactSettled` are the operator's two
compactions with what each requires of the ledger.

One of the two alert slots is modelled, and one validation at a time per upload;
sizes and quotas are left to the limit on entries (`MaxObjects`). Entries without
a bucket, from before the quarantine, are left out. So are transactions of SQLite
that fail for want of space.

### Disk and WriteOnce

One lock serves one request at a time, but file and index cannot change together:
`WriteFile` then `InsertRow`, `Tombstone` then `Unlink`, with `Fail` or `Crash`
between them; of a file that was being written there may be nothing, a part, or
bytes of the right number that never reached the disk. `Served` is what GET
returns. `Compact` is the offline compaction. `WriteOnce` is the promise: a key is
written once, never changes, and once withdrawn or left half written is neither
read nor written again until an operator forgets it offline. The coordinator's
`Write` and `Erase` with `local = TRUE` are this promise; its `gone` is WriteOnce's
`Gone`.

### Formats and Sandbox

`Formats` is `validate_output`: the size of the file against `LIMITS`, then the loop over
the chunks of a PNG or of a WAV (`PngTurn`, `WavTurn`, applied to one chunk after the
other, `ValidOutput` the whole), beside a description of the whole file
(`WellFormedPng`, `WellFormedWav`). A file is what a reader finds in it:

| Code | Model |
|---|---|
| the eight bytes of a PNG, `RIFF` and `WAVE` | `signature`: they are there or not |
| `len(data)` | `size`; of an image the chunks account for all of it, since a chunk that is cut short takes up what is left |
| `data[4:8]` of a WAV, the length the header states | `riff` |
| a chunk of a PNG | kind, size, what it adds to the stream; one that is truncated, unknown, of another pixel format or with a wrong checksum is `Bad`, of any size |
| a chunk of a WAV | kind and stated length, which may lead past the end (`After`); a format other than mono, 16 bits, 48000 Hz is another kind |
| the pixels | pieces of a stream, in order; `Streams` are those with just the pixels the header tells of and known filters, for the one header a file has |
| `LIMITS`, 480000 frames | `Limits`, `MaxLength` |

`Sandbox` is one job: the launcher's commands `Run`, `Logs`, `Inspect`, `LogsAgain`,
`Exec`, `RemoveContainer`, each of which can fail or meet the deadline, and a
container that prints, exits or is killed between any two. With `honest = FALSE` it
may also report anything. `Decode` is `normalize` with all it calls, the rewriting of
decoded audio into two chunks (media_validator.py:176-193) included: whatever file that
leaves is checked. `Static`, the search for animations before FFmpeg runs, is part of
its guard; no property is about it, because an input can always be rejected and the
output is checked whatever it was made of. Inputs are within their limits: the checks of
their size and hash only lead to a rejection. `Fetched` is the limit of bytes that
`--read-output` and the launcher each put on what is read. A `docker run` whose client was stopped may take effect
later (`Appear`).

## 3. Runs

| Run | Question | Bounds and why they are enough |
|---|---|---|
| `store` | Do deletion, replay, deduplication, eviction, flood, expiry, source changes and crashes keep the invariants in every order? | Two sources, three messages of two authors, a redelivery without date, an edit, each kind of deletion, one of them older than the deletion it repeats. Two visible messages, three ring entries, three keys, two barriers: each limit is passed. Time 3 with a history of 2: content enters late and expires. One further epoch: a flood or a crash, not both. |
| `view` | Does a page that follows by replay show what a snapshot shows, and is it the abstract feed? | One viewer (viewers share only what they read); two platforms; two visible messages, a ring of two and one barrier so that evictions, gaps and floods occur between two reads; a cut or a reload; one batch on the wire. |
| `view_saves` | Does deleted text leave the screen when the filter changes at any time? | Edits, one visible message (every second message evicts), two batches on the wire, a filter that a save installs or removes. |
| `view_live` | Does every viewer catch up again and again, and does expired text leave? | Smaller limits; all fairness below. |
| `demand` | Do sources follow the demand through late timers, failures, saves and crashes? | Two viewers; a source shared by two profiles (webhooks) or private to one that is deleted and created again (worker); one failure or deferral, a crash, and up to three messages or live timers when a viewer moves, which is enough for an idle message that was overtaken and a timer left behind. |
| `tokens` | Does everybody get an answer, and only ever a token of the binding it asked for? | Two readers, so that one joins the other's refresh; one account of a provider that replaces refresh tokens (the coordinator treats keys alike and apart); two bindings and three grants: an old and a new binding and one refresh; one fault, which is a crash or a refusal of a token the provider accepts. The proofs have any number of both together, and forced refreshes. |
| `media` | Does the media pipeline keep its promises through lost answers, late uploads, crashes, sealing and compaction? | One upload, which has two objects, and two artifacts a decoder may come to; both storage backends; two disturbances (`MaxFaults`: failed calls, timeouts, crashes, restarts, deletions of the profile; sealing an idle coordinator and opening it again costs none), enough for a PUT that lands after a retry. Two objects meet only in the limits, the alert slot and the order of the cleaner; a journal for one job, so that cancellations reach the limit; two entries, so that the ledger does. |
| `disk` | Is the local store a write-once store within its budget? | Two objects and a placeholder, four contents of lengths 0, 1, 2, 2: a torn file may have the right length. A budget of 3 and two rows are both exceeded. |
| `sandbox` | Is the verdict right and not lost, and does the launcher end? | Two categories, honest and dishonest containers, five images and four audio files they may leave (good, cut short, too large, wrong RIFF length, another format), two failing commands. The check itself is compared on all images of up to four chunks of ten kinds and sizes and of five well-sized ones, and on all WAV files of up to three chunks, of right and wrong RIFF length, that end at the last chunk, before it or behind it: two pieces of pixels with a header and an end take four. Limits of 92 and 50 bytes lie among these sizes. |
| `store_restart`, `shared_source`, `token_link` | The disagreements of section 6. | The smallest instance that shows each. |

The limits of the code are 100 messages, 512 ring entries, 4096 keys and
barriers and 100 viewers. The invariants compare neighbours (an entry and the
next, a table and its limit), so they break at small limits or not at all; for
all of them the proofs of section 5 remove the question. `MaxLag = 0` stamps an event when it is
ingested; the proofs hold for any lag. Other bounds: `MaxTime`, `MaxSequence`,
`MaxEpoch`, `MaxPipe`, `MaxDrops`, `MaxPeriods`, `MaxDues`, `MaxMail`,
`MaxCrashes`, `MaxLinks`, `MaxGrants`, `MaxJobs`, `MaxObjects`, `MaxFaults`,
`MaxBytes`, `MaxRows`. Store and view runs stop when time and
sequence are used up, and `tokens` when nothing is linked and no link is left, so
they do not check for deadlock, nor does `sandbox`, which ends; `demand`, `media`
and `disk` do.

`MoveShared = FALSE` in `demand` restricts saves to sources that no other
profile has. `shared_source` lifts it and shows why it is needed.

### Fairness

* `Expire`: the timer re-arms itself every second (store.ex:120-123). `Tick`: time
  passes.
* `Poll`, `Connect`, `Deliver`: the loop turns every 50 ms (stream.ex:281), the
  browser's EventSource reconnects on its own and hands over what it received.
  A refused connection (capacity, revoked capability) ends EventSource for good;
  `ViewersCatchUp` is about viewers that are admitted.
* `Handle(s)`, `Fire(s)`, `Elapse(s)`, `StartSource(s)`, `StopSources`: a process
  handles its mailbox, a timer fires, time goes on, a save is carried through.
* `Get(c)`, `Report(p)`, `Serve`, `Invalidate(k)`: the coordinator and Profiles
  handle their messages. `Work(p)`: a request to the provider ends, `net.ex` has
  timeouts.
* `Step`, `Serve(r)`, `DropAnswer`: the coordinator serves what has reached it, each
  of its calls has a timeout (5 s, the decoder 10 s). `GetResult`, `CleanerAnswer`,
  `FinishCleanup`: clients take their answers. `Sweep`: the timer fires every 30 s.
* `Launch` and `Deadline`: the launcher goes on and time passes. Of the container
  nothing is assumed.
* Nothing is assumed of users, operators, uploads in flight, compactions.
* Nothing is assumed of viewers leaving, workers failing, upstream events,
  saves, crashes or cuts.

## 4. Properties

Every property is stated above its definition; these carry the weight:

* `NoDeletedMessage`, `ReplayHoldsNoDeletedText`: no visible message, and no entry
  of the replay, is one that a deletion still remembered has taken, in every
  order of message, redelivery, edit, deletion.
* `BarriersPersist`: a barrier ends by its deadline or by a compaction that leaves
  a channel barrier on every source.
* `ChangesMoveCursor`, `RingContiguous`: a viewer with the current cursor misses
  nothing, and a recoverable cursor finds every event after it.
* `ReplayEqualsSnapshot`, `ReplayKeepsOrder`, `ImplementsFeed`,
  `DeletedLeavesScreen`, `ViewersCatchUp`: the same from the side of the page.
* `DemandIsCurrent`, `TimersArmed`: what makes `WatchedRuns` and `UnwatchedStops`
  true; `ConnectedShowsNoStale` for upstream gaps.
* `WaitersHaveWorker`, `WaitersAnswered`: the stampede protection, and that nobody is
  forgotten in it. `AcceptedOfItsBinding`, `CacheIsCurrent`: old bindings leave
  nothing behind, although three processes check the version at three different
  times. `HealthyStaysActive`: no refresh token is spent twice. It does not say that only
  unusable accounts are marked: a misjudged answer marks a healthy one (section 6).
* `PublishedIsJournaled`, `ReleasedStaysAbsent`: a retry, a restart or a write that
  arrives late finds the journal it needs and brings nothing back. The doubt
  about an earlier PUT has to survive a retry that succeeds; the mutant
  `ConfirmForgets` shows what happens otherwise.
* `AlertsPlayable`, `BytesAccounted`: the two sides of the cleaner, which may neither
  take what is used nor release what may still be written.
* `DueIsRemoved`: entries only the operator can settle (an input in a remote
  quarantine, a doubtful PUT, a full list of cancellations: `Decidable`) do not
  keep the others from being removed, because the cleaner goes round.
* `ServedIsWhole`, `ImplementsWriteOnce`; `CheckIsExact`, `ResultIsSound`,
  `VerdictNotLost`, `LauncherEnds`.

## 5. Proofs

`StoreProofs` proves, for every number of sources, messages and barriers, every
limit, history and lag:

| Theorem | Property | Argument |
|---|---|---|
| `StoreTypeCorrect` | `TypeOK` | inductive; one lemma per handler |
| `StoreReplayIsSuffix` | `RingContiguous` | inductive with `TypeOK`; pushing one entry keeps a suffix a suffix (`PushEndsAt`), an eviction pushes two |
| `StoreHidesDeleted`, `StoreForgetsDeletedText` | `NoDeletedMessage`, `ReplayHoldsNoDeletedText` | proved together as `NoDeletedText`: an admitted message is covered by no barrier (`AdmittedStands`), raising a barrier takes exactly what it covers and purges the ring, expiry only removes barriers |
| `StoreSeenWindow` | `SeenWindow` | inductive; the evicted key is the head of the queue and occurs once |
| `StoreOrdersMessages` | `PositionsOrderMessages` | inductive; a new position is ahead of the sequence |
| `StoreChangesMoveCursor` | `ChangesMoveCursor` | each step; an expired message makes the replay stale, which moves the sequence |
| `StoreBarriersPersist` | `BarriersPersist` | needs the strengthening `DeadlinesAhead`: no deadline lies more than a history ahead of the clock, so a renewed deadline is never earlier |
| `StoreWithinLimits` | `WithinLimits` | inductive over the four tables; assumes finitely many sources and at least as many barriers as sources, because a compaction writes one barrier per source (the code: at most 3 sources, 4096 barriers) |

Assumptions on constants are `LimitsAssumption` (limits are natural numbers, at
least one visible message and one ring entry) and `InputAssumption` (events are
well formed, as `Event.valid?` ensures, and name known sources). That the oldest
message exists is derived from the well-foundedness of the naturals
(`NatMinimum`, `OldestIsOldest`).

`TokensProofs` proves, for every number of accounts, callers, workers, bindings,
grants, crashes and misjudged answers, and for forced refreshes too, which the run
leaves out:

| Theorem | Property | Argument |
|---|---|---|
| `TokensInvariant` | `IInv` | inductive: the types, and the four facts below |
| `TokensTypeCorrect` | `TypeOK` | an answer from Profiles reaches a worker that exists and waits for just this answer (`InboxOwned`); a reply reaches callers that asked for this key (`WaitingAsked`) |
| `TokensStoredOfItsBinding` | `StoredOfItsBinding` | a token is of the binding it is held with at every place it passes: worker, mailbox, account, cache (`TokensOfBindings`) |
| `TokensAcceptedOfItsBinding` | `AcceptedOfItsBinding` | strengthened to accounts that are not active, since a save makes one active again (`RepliesOfBindings`); a new link has a version no caller has read |
| `TokensCacheIsCurrent` | `CacheIsCurrent` | inductive above `IInv`; what Profiles still has to invalidate is excepted until it has |
| `TokensWaitersHaveWorker` | `WaitersHaveWorker` | two facts above `IInv`: a key is in flight exactly while one worker holds it (`WaitsAreWorked`), and a caller is in the waiting set of the key it asked for exactly while it waits (`WaitsAreRegistered`); that the workers of a key number one follows |
| `TokensHealthyStaysActive` | `HealthyStaysActive` | above both: a worker asks with the refresh token its account held when it was started (`AskingWithStored`), a request in the mailbox of Profiles tells what the provider did, or was misjudged (`RequestsSound`), so what is marked was spent, or misjudged since the account got it (`MarkedSpent`, `TakenForSpent`), except where a grant got lost on its way to the account |

Its assumption is `TokensAssumption`: the rotating accounts are accounts, the
bounds are natural numbers, and `None` is no value of the other kinds (no set of
callers, account or worker).

`DemandProofs` proves, for every number of profiles, sources, viewers, due times and
crashes, without a bound on the mailboxes:

| Theorem | Property | Argument |
|---|---|---|
| `DemandInvariant` | `IInv` | inductive: a fact about each source (`SourceOK`) that a step of another source cannot disturb (`StepOfSource`, `UntouchedOK`), the counters, and what a save under way allows to run (`SyncOK`) |
| `DemandTypeCorrect` | `TypeOK` | a source has finitely many timers, so a new one is always found (`TimerIsNew`, by the pigeonhole principle); the retry timer is never the idle timer (`TimersApart`) |
| `DemandCountsLeases` | `CountsMatchLeases` | a lease that comes or goes changes the set counted by one element |
| `DemandTimersArmed` | `TimersArmed` | conjunct of `IInv`; handling a message takes that one out of the mailbox and no other (`HandlingTakes`) |
| `DemandIsKept`, `DemandShowsNoStale` | `DemandIsCurrent`, `ConnectedShowsNoStale` | for `~MoveShared`: a source that a save adds is one nobody has, so it does not run yet, and one that a save removes is one nobody has any more (`SaveKeeps`) |

Its assumption is `DemandAssumption`: profiles and saves name known sources, handles
and viewers are finitely many, bounds are natural numbers, and `None` is no value of
the other kinds. Without `~MoveShared` the last two do not hold; `shared_source` shows
what then goes wrong.

`CoordinatorProofs` proves, for any jobs, uploads, artifacts and limit of the
journal, with remote buckets and with the local store:

| Theorem | Property | Argument |
|---|---|---|
| `CoordinatorInvariant` | `IInv` | inductive. Of a job being promoted: not cancelled, not compacted, artifact and doubt journaled before the PUT (`PromotionOK`). A PUT that may still arrive is doubtful (`FlyingOK`). A removal runs only when nothing can arrive behind it (`DeletionOK`, `WithdrawalOK`). What was released belongs to a job that is cancelled or compacted and nothing of it is in flight (`ReleasedOK`) |
| `CoordinatorPublishedIsJournaled`, `CoordinatorReleasedStaysAbsent` | the same names | conjuncts of `IInv`; each action is reduced to what it makes appear in the buckets, takes off the air and leaves gone (`Effects`) |

`MediaProofs` proves, for any number of uploads and faults:

| Theorem | Property | Argument |
|---|---|---|
| `MediaIsCoordinator` | `CSpec` | every step of `Media` is a step of the coordinator or leaves it alone, so the theorems above hold of the whole (`MediaPublishedIsJournaled`, `MediaReleasedStaysAbsent`) |
| `MediaInvariant` | `MInv` | inductive, with the coordinator's `IInv`: answers and results fit the requests they belong to (`AnswerFits`, `ResultFits`), the entry of an output knows its hash as soon as it is offered (`OutkeyOK`), an object offered for use has no deletion under way (`ReadyOK`, `DoomedOK`), an entry leaves when its object is gone for good (`CleanedOK`), a compaction forgets only jobs nobody can ask for in a harmful way (`SpentSafe`) |
| `MediaAlertsPlayable`, `MediaRequestsSafe` | the same names | conjuncts of `MInv` |
| `MediaBytesAccounted` | `BytesAccounted` | follows from `CleanedOK` and `IssuedOK` |

`DiskProofs` proves, for any keys, contents and limits:

| Theorem | Property | Argument |
|---|---|---|
| `DiskServesWholeUploads` | `ServedIsWhole` | a row is live only over a complete file (`LiveFits`, in the invariant `DInv`) |
| `DiskIsWriteOnce` | `ImplementsWriteOnce` | one lemma per action maps it to a step of the promise or to a stutter |
| `DiskWithinBudget` | `WithinBudget` | the bytes in use are a sum over the keys. That the sum exists, and does not depend on the order its elements are taken in, is shown by the smallest counterexample (`SumsExist`, `SumTakesOut`, `SumsAgree`). A request that was let in has its bytes and its row until it is over: an interrupted upload only shrinks, and while a PUT is half done the index has room for it (`BudgetInv`) |

`SandboxProofs` proves, for any outputs a decoder may leave, of any size with any number
of chunks, and any limits:

| Theorem | Property | Argument |
|---|---|---|
| `SandboxInvariant` | `SInv` | inductive: the shapes; while the launcher looks there is a container, and its last look is at one that has exited (`LookFits`); a verdict rests on what the container can no longer change (`VerdictFits`) |
| `SandboxKeepsVerdict` | `VerdictNotLost` | from `VerdictFits`: between the log and the state the container may still print, which is what the second look at the log is for |
| `SandboxCheckIsExact` | `CheckIsExact` | what the loop holds after n chunks is described for every n (`LoopExists`, and `EveryTurn` for the n), and compared with the description of the whole file, its size and RIFF length included |
| `SandboxResultIsSound` | `ResultIsSound` | from `SInv` and the theorem before |

`ChatViewProofs` proves, for any number of viewers, sources, messages and batches on
the wire, and any limits:

| Theorem | Property | Argument |
|---|---|---|
| `ViewersFollowStore` | `ViewersFollow` | there is a past of the store, a content for the cursors it has had in this epoch and in earlier ones, such that a page shows the content at its last id, a batch leads from the id before it to its own, a loop stands where its last batch leads, and every entry of the ring leads from one cursor to the next. The past is not a variable: the invariant says that one exists, and each step of the store extends it (`PastStep`) or keeps it |
| `ViewReplayEqualsSnapshot`, `ViewReplayKeepsOrder` | the same names | a page at the store's cursor shows the content of this cursor. The work is in `ReplayCarries` (a suffix of the ring, filtered, makes of the list at its start the list at its end) and in what a list shows of a content (`Shows`): all that is fresh, nothing else, in the order of the positions |
| `ViewImplementsFeed` | `ImplementsFeed` | one lemma per action: a poll serves or does nothing, a delivery shows what was on its way or what was lost before, a cut loses, time makes items old for everybody, a step of the store changes the content |
| `ViewPagesSwept`, `ViewDeletedLeavesScreen` | `DeletedLeavesScreen` | an invariant of its own, `PagesSwept`: there is a cut in the sequence, before which no cursor can be replayed from, such that no page, snapshot or replay since the cut holds what a barrier takes. A deletion moves the cut ahead of every cursor there is (`CutMoves`), because it leaves a gap in the sequence that the ring starts behind |

The first four assume `SavesKeepPlatforms` and `NoReplacement`. No adapter makes a
`replace` (section 2). A save that changes the platforms of a viewer leaves on its
open page what the old filter let through until the next reset, so what the page
shows is no content of the store under the new filter; the theorems are about the
time between such saves and allow all others. The instance of the run `view`
satisfies both. `ViewDeletedLeavesScreen` assumes
neither: deleted text leaves under every save and every edit.

The assumptions are those on constants: `CoordinatorAssumption` and `MediaAssumption`
(the kinds of values are distinct, limits are natural numbers, a job has the name
of its upload, the cleaner's order lists entries), `DiskAssumption` (finitely many
keys, since their length is bounded; placeholders are keys, contents have lengths),
`FormatsAssumption` (streams of pixels are sequences of pieces, none of them empty;
limits are natural numbers),
`SandboxAssumption` (what a decoder leaves are files of the two kinds, and `None` is
neither a file nor a report) and `ViewAssumption` (bounds are natural numbers, the
overlays are viewers, `None` is no cursor).

The library states induction with an operator as parameter, which no prover here
can instantiate. Where a fact about a loop or a sum is needed for every length, it
is proved from a smallest counterexample instead (`EveryTurn` in `ChatViewProofs` and
`SandboxProofs`, `SmallestNumber` in `DiskProofs`), after the recursive function is
shown to exist.

Only model-checked: all liveness (`ViewersCatchUp`, `ExpiredTextLeaves`,
`WatchedRuns`, `UnwatchedStops`, `WaitersAnswered`, `DueIsRemoved`, `LauncherEnds`),
because liveness under fairness is outside what the prover does, and the pages under
saves that change their platforms, apart from deletions.

## 6. Where code and documentation disagree

1. `store_restart`: a store that crashes after a save comes back with the sources
   its child specification was written with (store.ex:16) and refuses the events
   of a source added since.
2. `shared_source`: a save that adds a source running for another profile tells it
   nothing (profiles.ex:1240), and with viewers already there no 0-to-1 change
   follows: the source stays without worker.
3. `token_link`: a link stores the new binding and invalidates afterwards
   (profiles.ex:1494); the invalidation kills a worker that a reader has started for
   the new binding. If the provider had replaced the refresh token by then, the
   next worker is refused and the account is marked `reauth_required`. The window
   is as long as it takes to bring the sources in line, and it needs a new token
   that is near its expiry, so it is narrow. A crashed worker opens the same race,
   which is why `HealthyStaysActive` excepts both. (It also excepts what is misjudged,
   below; this race needs no misjudgement.)

More that the models show and no run is spent on:

* A flood of deletions writes the reception time of the last one over every
  channel barrier, also over a later one (store.ex:240), where the test "deletion
  barriers never move backwards and floods reset all sources within bounds" and the
  event contract say barriers do not go back; `BarriersPersist` excepts a compaction.
* A 401 of the provider counts as a refused refresh token (oauth.ex:376-377), also when
  it is about the client (`invalid_client`); so does a 400 whose description mentions
  "expired" or "revoked" (oauth.ex:418-428). A healthy account is then marked
  `reauth_required` (tokens.ex:397-401) and needs its owner; `HealthyStaysActive` and
  `RenewalSurvivesLinks` except it.
* Narrowing `overlay_platforms` changes what is sent from then on; messages of the
  removed platform stay on the emitted image (stream.ex:173, docs/platforms.md:59).
* A webhook asks Admission, which counts the first viewer before the source has
  cleared the gap; the message is accepted and then cleared, which the comment at
  source.ex:194-195 rules out.
* During the viewer grace Kick callbacks are answered and dropped, a ban among
  them, while `gap` is only set by the idle shutdown, so a viewer who returns within
  the grace finds the banned message.
* An idle message that fires while demand messages still wait in the mailbox stops
  the worker although the handling of those messages has just begun a new grace,
  whose timer stays behind.
* With the local store nothing ever empties the list of cancellations: sealed
  compaction is remote only and the local one refuses to run while the list holds
  anything (compact_local_media.py:43-44). After 128 deletions of validated media
  the next ones fail closed; `Decidable` excepts that. A coordinator that stops with
  a job under way makes it doubtful (media_coordinator.py:84), and the local
  compaction refuses while a doubt stands.

## 7. Not modelled, and what could follow

Not modelled because they are I/O, parsing, routing or stateless: connectors and
network, Custodian framing, Web, resolver, validation, cryptography, and the
scripts that check images and backups. Not modelled although they keep state: the
manual preview of the store, statuses of sources, the capability checks of Stream
(a second check after the registration of a viewer, stream.ex:10-45), the
revocation table of sessions, the states of a login, the stored document with its
comparison of digests. `PROJECT.json` lists the hazards that stay open there.

What could follow, in this order:

1. **Sessions** and **CapabilityStream**: the revocation table at its limit with
   readers in between; revocation against the registration of a viewer.
2. **Persistence** and **OAuthFlow**: the mark that lives only in memory when its
   write fails (profiles.ex:1660), a state consumed once.
3. That `Coordinator` with `local` works over `Disk` as it does over its own `store`:
   the composition is argued through `WriteOnce` and not checked in one model.
