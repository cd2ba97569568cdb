# kanban-watcher in TLA+

A model of kanban-watcher, its backend (`src/cmd`, `src/internal`, Go) and its browser side
(`src/src`, TypeScript), checked with TLC on small instances, with theorems about its core
checked by TLAPS. Paths below are relative to the repository, those of the browser side to
`src/src`; the repository's documents are in Chinese and are quoted as they are.

## The system

kanban-watcher stands beside a *vibe-kanban* server (external: an HTTP API and three kinds of
websocket streams), copies what that server knows into MySQL, pushes changes to browsers, and
tells people when a workspace waits for them. Browsers show it as a page of its own (a list of
workspaces and up to four panes) or as a card of a Home Assistant dashboard.

```
vibe-kanban ──ws──> SyncService ──> MessageBuffer ──────────> MySQL
     │                   │          Memory / Redis / Fallback    │
     │                   └─> RealtimePublisher ─(Redis Pub/Sub)─> Hub ──ws──> page, card
     └──http──> Poller ──chan──> event loop ──> Tracker ──> WeChat, dialogs, state.json
page, card ──http──> handlers ──> MySQL (shared layout, todos), vibe-kanban (messages, servers)
```

### Backend

| component | state | operations | what is hard |
|---|---|---|---|
| MemoryBuffer `internal/buffer/memory_buffer.go` | per process: pending entries, timer, flushing flag, position | Enqueue, FlushProcess, FlushAll | the mutex is released during store calls; timers fire during flushes; every call may fail |
| RedisBuffer `redis_buffer.go` | Redis: sorted set, hash, position; here: active set, retry counts, flushMu | Enqueue, FlushProcess, FlushAll, flushLoop | pipeline is no transaction; two scripts around a MySQL write; restart |
| FallbackBuffer `fallback_buffer.go` | health flag | Enqueue, FlushProcess, health check | flag read before the write; recovery |
| SyncService `internal/sync/sync.go` | maps of open streams | subscribe, consume, reconnect | check, unlock, dial, store; replayed logs; broken streams; crash |
| Store `internal/store/store.go` | MySQL tables | upserts and queries | COALESCE, half-applied calls |
| RealtimePublisher, RealtimeSubscriber `internal/api/realtime*.go` | per message: last sent, pending frame, timer | publish, flush, forward | stale timers, clock read before the lock, lossy channel |
| Hub `internal/realtime/hub.go` | clients with a queue of 16, digest of the last snapshot | register, broadcast, unregister | order of broadcasts; send on a closed channel |
| Poller, event loop, Tracker `internal/poller`, `cmd/kanban-watcher/main.go`, `internal/wechat/tracker.go`, `internal/state` | channel of two results, attention entries, state.json | poll, ProcessWorkspaces, SaveState, LoadState | dropped polls, two requests per poll, restart |

The message query over Redis and MySQL, the dispatcher, port allocator, singleton lock, state
throttle, token statistics, session extraction and cleaning, HTTP server, proxy, authentication,
tray, dialogs, configuration and scripts are listed in `PROJECT.json` as not modelled, with the
reasons.

### Browser

JavaScript runs one handler at a time; what makes it concurrent is every `await`, timer and
socket event between two handlers, and every other browser.

| component | state | operations | what is hard |
|---|---|---|---|
| page state and shared layout `web/workspace-page-state.ts`, `web/workspace-home.ts` | open, active and dismissed panes per tab; localStorage; one row on the server | open, close, lists, frames, PUT and GET of the layout | tabs write the same row; answers come among frames |
| links of the page `web/workspace-home.ts`, `lib/realtime-*.ts` | two sockets, two timers, mode, refusal | boot, resize, session change, retry, detach | awaits between boot and connect; error and close of one socket |
| messages of a pane `lib/dialog-messages.ts` | grouped messages, cursor | latest page, older page, pushed frame | loads and frames overtake each other |
| composer `components/workspace-conversation-pane.ts` | draft, queue status, feedback | send, queue, stop, cancel, quick button, todo | the draft is cleared after an await |
| todo panel `components/workspace-todo-panel.ts` | list, edit, badge | add, edit, select, restore, delete | blur saves; lists answered late |
| development servers | starting, stopping, process, fallback, preview | run, stop, toggle, lists, snapshots | four sources of one status |
| pane elements | what an element keeps for itself | places shift, layouts change | elements have no key |
| overlays `components/diff-details-panel.ts`, `create-pr-dialog.ts` | a stream, a form | open, close, load, type, submit | elements dropped over requests |
| card links, card dialog, create dialog `kanban-watcher-card.ts` | sockets, polls, one dialog, one form | boot, configure, detach, open, send, load, push, choose, create | answers apply to whatever is selected by then |
| issue board and panel `components/mobile-*.ts` | columns, copy of an issue, form, timers | select, load, type, save, delete, create | loads make panel and form anew; saves are delayed |
| quick buttons `lib/quick-buttons.ts` | offered buttons, hash | analyse, answer of a model | cache by message, late answers |

What makes them correct, in short: a tab agrees with the shared layout once it waits for nothing;
what is shown is a piece of the log and belongs to what is selected; sockets and polls are neither
lost nor leaked; what was typed is stored or still there; every button comes back.

`PROJECT.json` lists the hazards of the code at their lines, with the properties that cover them.

## The modules

| module | models | extends |
|---|---|---|
| `MemoryBuffer` | `memory_buffer.go` with the two tables it writes | |
| `ProcessLogSync` | process log streams of `sync.go`, upstream log, crash | `MemoryBuffer` |
| `FallbackBuffer` | `redis_buffer.go`, `fallback_buffer.go`, restart | `MemoryBuffer` |
| `MessagePush` | `realtime.go`, `realtime_subscriber.go` | |
| `LatestDelivery` | what the push promises (abstract) | |
| `NotificationTracker` | poller, event loop, `tracker.go`, `state` | |
| `PageState` | pure functions of `workspace-page-state.ts` and around it | |
| `SharedView` | tabs and the shared layout, with the hub's broadcast | `PageState` |
| `HomeLinks`, `Composer`, `TodoPanel`, `DevServers` | the other parts of the page | |
| `DialogMessages` | the order and the filters of `lib/dialog-messages.ts` and the card | |
| `PaneMessages` | the messages of a pane | `DialogMessages` |
| `PaneElements` | elements of the panes and the rail of previews | `PageState` |
| `Overlays` | diff panel, pull request form | |
| `CardDialog` | the dialog of the card | `DialogMessages` |
| `CardLinks`, `CreateWorkspace` | the rest of the card | |
| `IssueBoard`, `IssuePanel` | issues of a project | |
| `QuickButtons` | extraction and analysis of buttons | |
| `MemoryBufferProofs`, `ProcessLogSyncProofs`, `SharedViewProofs` | theorems about the module in their name | that module |
| `BackendProofs` | theorems about `FallbackBuffer`, `NotificationTracker`, and the whole backend | `MCBackend`, `MemoryBufferProofs` |
| `RealtimeProofs` | theorems about what keeps an open page up to date: `MessagePush`, `HomeLinks`, `DevServers` | `MessagePush`, `MCHome` |
| `PagesProofs` | theorems about `PaneElements`, `Composer`, `TodoPanel` and `PaneMessages` | `MCPages`, `SharedViewProofs` |
| `DialogProofs` | theorems about `CardDialog` | `MCBoards` |
| `BoardsProofs` | theorems about `CardLinks`, `CreateWorkspace`, `IssueBoard`, `IssuePanel`, `QuickButtons`, `Overlays`, and all parts of `MCBoards` together | `DialogProofs` |

Names are the source's names; an operator `Name_Variant` just before `Name` is a plausible
mistake in that place, and never used: each property of a passing run is violated when the one
replaces the other (`mutants` in `PROJECT.json`).

`MC*.tla` give the constants for TLC. `MCBackend`, `MCHome`, `MCPages` and `MCBoards` hold several
parts that share no state a property looks at: `part` says which one moves in a behaviour, the
others keep their initial state. The states to explore are then the sum and not the product, every
step is a step of one part's own specification, and the properties are those of the parts.

### Backend modules

*MemoryBuffer.* An action is a section of code under the mutex, or one call of the store.
`TimerFires`, `CallFlushProcess` and `CallFlushAll` bring a goroutine to `FlushProcess`, which is
`FlushSkips` (the early return) or `FlushBegins`, `ListEntries`, `UpsertEntries`, `OnFlush`,
`FlushFinishes`, with `ResetProcessState` after any failed call. A failed call may have taken
effect. An entry is a version number that grows with every change upstream; `hash` gives versions
the content hash cannot tell apart, which the buffer does not write. `latest` and `racy` are
history variables: the last version enqueued, and the indexes whose last version was enqueued
while the process was being flushed (those the code may throw away).

*ProcessLogSync* adds the log on the server (`log`, `alive`), the subscribers (`rpc`, one phase
per await or lock) and the readers. `Receive` takes one patch, skips it if it is below the stored
position, enqueues it otherwise. When a stream ends the deferred functions run in their order: a
flush, then the slot in the map. `Crash` loses everything but the tables and the server;
`SessionReports` is the session stream that starts a subscriber. Failing calls and crashes are
counted (`faults`). The branches for historical processes are not there: all callers pass
`running`.

*FallbackBuffer.* Redis (`queue`, `body`, `redisIndex`) outlives a restart; `active`, `retryCnt`
and `flushMu` do not. `Choose` reads the health flag and a later step writes. The pipeline is two
steps and may stop before or after any of them. A flush is `Fetch`, `Upsert`, `Remove`,
`CallOnFlush`; the last of `RetryMax` failures in a row writes the entries to a file and removes
them. `stale` is a history variable: indexes whose last version has no promise, because its
pipeline or burial failed, or because a flush or the other buffer had an older version when it was
written. TTLs, the flush threshold (a flush may start at any time) and the names of dead letter
files are abstracted.

*MessagePush.* `Call` reads the clock, `SendAtOnce` or `Hold` is the locked section of
`publishSessionMessage`, `TimerFires` and `Flush` the timer's goroutine, which cannot be stopped
once it fired; sending happens after the mutex was released, directly, or through Redis, which may
fail after it took the frame and drops what nobody listens to (`missed`). `LatestDelivery` is its
abstract specification: posts supersede one another, any may be delivered, in any order and more
than once, none before it was posted, and the last is delivered unless something was lost.

*NotificationTracker.* `FetchWorkspaces` and `FetchSummaries` are the two requests of a poll; the
result is offered to a channel of two places. `HandleResult` is `ProcessWorkspaces` for all
workspaces of a result (`Evaluated`, `Adopted`, `Judged`), `SaveState` comes after the dialogs,
`Restart` is leaving or dying at any point and `LoadState` with `NewTracker`. `go.mod` says go
1.17, so the pointer `NewTracker` keeps is to the loop variable; `Confirmed` models that.

### Browser modules

In all of them a handler up to its next `await` is one action; Lit's `updated()` runs before the
next event and belongs to the action that changed the state. A request is served and answered in
separate steps, in any order with others, and may fail before or after it took effect. A handler
does after its await what the code does to the state of *that* moment, with what it captured
before.

*PageState.* `array.filter` is `Filter`, which picks the elements at the places that pass
(`Picked`), and loops over a list are recursive functions over its places; both can be reasoned
about, which `SelectSeq` and `RECURSIVE` operators cannot.

*SharedView.* A tab goes through the boot (`phase`), then handles frames (`inbox`). The server
stores a PUT (`PutStored`), broadcasts it (`PutTold`) and answers it (`PutAnswered`) in three steps
and keeps no order between two. `sig` is the signature that keeps a tab from writing back what it
applied. A list names a workspace once (`BoardsAssumption`: it is a query by primary key), and the
view stored first is one that some page once had (`FirstViewAssumption`: only `ViewOf` of a page is
ever stored, here and in localStorage). At the start the open tabs are at rest under a list that
leaves the view as it is; other lists come as frames. History: `calm` (no PUT failed or went beside
another), `behind` (a broadcast was missed), `shut` (panes put away while their workspace asked,
which it still does).

*DialogMessages* has what both lists of messages do: the stable sort (`Sorted`: an element's place is
the number of those that are smaller, or equal and not behind it) and `Array.filter` (`Filtered`).

*HomeLinks* counts sockets that live without a field (`strays`). `tangled` marks a page that was
resized, detached or booted again while it loaded. *PaneMessages* numbers the log and groups uses of
one tool; a frame replaces the last message with its key, since `new Map` keeps the last index of a
key; `crossed` and `missed` mark answers that crossed a frame, and frames lost. *Composer* has
the server's side of an execution (`busy`, `queued`); `overtaken` marks a draft changed beside a
request. *TodoPanel* knows todos by creation and texts by number; `unsent` holds what was typed into
an edit and taken by no request, and `withdrawn` what of it Escape took back. *DevServers* models a
chain of awaits as a job with the handler whose `finally` ends it. *PaneElements* keeps what an
element keeps when the page gives its place to another workspace. *Overlays* numbers panels and
forms: a new element is a new number, and an answer for an old one changes nothing.

*CardLinks* follows one workspace; its session is a number. *CardDialog* has the log of two
workspaces and one dialog; a local copy lies between two places of the log. *CreateWorkspace* keeps
which agent the offered presets and models belong to. *IssueBoard* keeps the save timers of panels
that are no longer there (`left`); *IssuePanel* is one panel while it stays in the page.
*QuickButtons* abstracts a message to what the patterns find in it.

The histories `tangled`, `crossed`, `overtaken`, `overlapped`, `severed`, `switched`, `stale` and
`unseen` except the cases in which the code breaks a promise that no document makes; see the end of
this file for what happens in them. The actions go on in these cases, and the properties hold again
where a history is reset.

## What the runs show

| run | instance | checks |
|---|---|---|
| `mem_safety` | 1 process, 2 goroutines, 2 entries, 3 versions of which two share a hash | flushes end; positions point at stored entries; no entry enqueued outside of a flush is lost; no older version over a newer one |
| `push` | 1 key, 4 frames, 3 timers, window of 2 ticks, lag of 1 | the throttle implements `LatestDelivery`; the last frame survives; without Redis each is sent once; frames are taken a window apart |
| `sync_run` | 1 reader, 3 entries, 1 failing call or crash | entries before the stored position are stored; buffered entries have somebody who will flush them; positions are never erased; ended streams are released |
| `fallback_drain` | 2 flushing goroutines, 1 entry, 1 change of health, 1 restart | what is queued for an active process leaves the queue |
| `backend` | buffers: 1 entry, 2 versions, 1 change of health, 1 restart, 2 retries; tracker: 1 workspace, 3 ticks, 1 build, 1 update, 1 restart | the last version is always waiting, stored or buried; announced within twice the threshold; not repeated within a run |
| `home` | 2 sessions, 3 failures, 3 moves; 3 starts, 3 chains, 2 errors | no socket lost; sockets come back; a server is shown as it runs; its button comes back |
| `pages` | 2 tabs, 3 workspaces, 2 panes; a log of 4 in pages of 2; 3 edits and 3 requests; 2 todos; 3 clicks | layouts sound and agreed; what was put away stays away; a pane current, a frame only adds; drafts kept; the todo panel current, withdrawn edits never stored; files of the right workspace |
| `boards` | 2 sessions; 2 workspaces and 3 entries; 2 agents; 2 projects, 3 issues; 2 fields; 2 messages; 2 dialogs | list and dialog watched; a dialog shows its own log and converges; the create form follows its agent; board and panel current, texts stored; buttons belong to the last message; a stream ends with its panel; a typed title stays |

Four runs expect a violation, each of a promise a document makes; the findings in `PROJECT.json`
quote them.

- `sync_end` (`EndIsConsistent`): an update enqueued during a flush is thrown away when the flush
  empties the pending map, also at the normal end of a stream.
- `fallback_recovery` (`MemoryIsDrained`): Redis is used again before the memory was flushed, and
  the memory writes an older version over a newer one.
- `view_converge` (`OnlineTabsConverge`): two layouts are stored in one order and broadcast in the
  other, and both tabs stay on the one that is not stored.
- `card_frames` (`PushedIsShown`): a pushed user message without a local copy is written to index
  -1 of the list.

Bounds. Two goroutines, tabs, panes, dialogs or requests are enough for every conflict over one
piece of state, because a third could only do what the second does. Two entries let one be stored
and the other not, which is what positions are about; three are needed for a position to jump over
one (`sync_run`) and for a page to have one before and one after it (`boards`). Three workspaces
on two panes make a pane be trimmed. Two versions are an update; a third, with the hash of the
second, is the update the buffer does not write. Processes do not share state except the lock of
the Redis buffer and the lists of FlushAll, so one is checked; the theorems of `MemoryBuffer` hold
for any number. In `push` a third timer covers one that waits for the mutex while the next is
armed and fired. All `Max*` constants bound, in the guards, what would be unbounded; the numbers
of requests allow one chain of awaits to overtake another and a third to see the result. The runs
of the browser side allow deadlock, since a user may stop when the bounds are spent.

Fairness. Goroutines that can run do (`WF` per goroutine), timers fire, sockets deliver and Redis
calls return. Strong fairness is assumed where the code retries for ever: dialling again
(`DialSucceeds`) and the scripts of Redis at every tick of the flush loop. In the browser, requests
under way are answered or fail (`fetch` does one or the other), timers that were set run out, and a
socket that is tried again and again opens once the bounded failures are spent. MySQL may fail for
ever; nothing is assumed of the upstream server, of callers, of users, or of the health of Redis.

## What is proved

`MemoryBufferProofs` proves for all constants that satisfy `BoundsAssumption` (the bounds are
natural numbers and `hash` is a function on versions; any processes and goroutines):

- `TypeCorrect`: `Spec => []TypeOK`.
- `FlushExclusion`: `Spec => []OneFlushPerProcess`. Inductive with `TypeOK`: a flush is
  entered only where the flag is down and leaves by putting it down.
- `Invariance`: `Spec => []Inv`. Neither `CheckpointIsStored` nor `NoQuietLoss` is
  inductive: whether a position may be stored depends on what the flush in progress has
  written, and what is lost at its end on what was enqueued since. `Inv` adds
  - `Entries`: a stored version is at most the pending one and that at most the latest, and
    what is pending is the latest unless the index is racy;
  - `Batches`: what a flush carries lies between the stored and the pending version, is still
    what is pending unless the index is racy, and needs no write once the flush is past it;
  - `Positions`: stored positions, those in memory and those in flight point at stored entries.
- `CheckpointSafety`, `QuietEntriesSurvive`: the two invariants, from `Invariance`.
- `StoreMonotone`: `Spec => [][no stored version is replaced by an older one]_vars`, from
  `Batches` at the step that writes.

The step proofs have one lemma per action; steps that touch neither entries nor positions are
covered by `FrameInv`.

`ProcessLogSyncProofs` proves about the buffer together with its readers, the upstream server,
failing calls and crashes, for any processes, readers among the flushing goroutines, indexes and
number of faults (`ReaderAssumption`):

- `SyncTypeCorrect`: `SyncSpec => []SyncTypeOK`. Inductive with the fact that a reader which is
  not attached to a stream has received nothing of it (otherwise a reader that takes up another
  process could be past the end of its log).
- `PositionsAreStored`: `SyncSpec => []CheckpointIsStored`. `Inv` above is not inductive here: a
  replay after a crash enqueues old versions again, so nothing about versions is left. What
  remains, `PositionInv`, is that positions are stored wherever they are kept (`Positions`, and
  `KnownIsStored` for those that readers read before they dialled and registered), that a flush
  writes only entries it has (`WritesExist`), and that no entry leaves the table (`EntriesStay`).
- `FlushExclusionSurvives`: `SyncSpec => []OneFlushPerProcess`, part of the same invariant.
- `PositionSurvives`: `SyncSpec => PositionNeverErased`: the only step that writes a position is
  `OnFlush`, and a flush gets there only with one (`PositionReached`).

`BufferView` carries these over: for the buffer, every step of the readers is one of its own
steps or an `Enqueue` with the position the reader knows.

`RealtimeProofs` proves, first, every safety property of the throttle, for any keys, timers,
window and lag (`WindowAssumption`: the bounds are natural numbers; `TimerAssumption`: a nil
pointer is no timer, and timers are not keys):

- `TypeCorrect`: `Spec => []TypeOK`.
- `WaitersAreFetched`: `Spec => []PendingHasTimer`. The invariant `Timers` says of each key
  that its pointer, if set, is an armed or fired timer of that key whose remaining time and
  the age of the last frame make up a window, that a frame waits only where there is a
  pointer, and of each timer that only one past its flush holds a frame. It is needed
  whole: without the last part a flush could overwrite a frame that was not sent.
- `WindowIsKept`: `Spec => TakenApart`, from the part about remaining time.
- `LastFrameSafety`: `Spec => []LastFrameSurvives`, inductive with `Timers`.
- `OnceOnly`: `Spec => []SentOnce`. `Once` adds that frames sent, waiting or held are not
  newer than the last one published, that what waits was not sent, and that the frame of a
  caller who still waits for the mutex is new.

It also proves `PushDelivers`: `Spec => Promise!Safety`, where `Promise` is `LatestDelivery`
with `posted`, `delivered` and `lossy` mapped to `frame`, `sent` and `missed`. The mapping needs the
invariant `NothingNew`: a frame that waits, is held by a goroutine or lies in the channel was
published (`PendingInv`, `HeldInv`, `ChannelInv`). Then `Call` posts, what reaches the hub is a
`Deliver`, a dropped message is `Lose`, and all other steps stutter (`StepMaps`). That the last
frame is delivered in the end, the liveness part of `LatestDelivery`, is checked by TLC only
(`DeliversTheLatest`).

`BackendProofs` is, first, about both buffers with their database, for any processes, goroutines,
entries and versions:

- `FallbackTypeCorrect`: `FallbackSpec => []FallbackTypeOK`. A count of failures stays at its limit
  because one goroutine flushes Redis at a time (`Turns`) and the count of its process is below the
  limit until its flush ends (`RetriesLeft`).
- `FallbackExclusion`: one flush of the memory per process, one Redis flush of all processes.
- `EntriesAreKept`: `FallbackSpec => []KeptUntilStored`. That an entry is *somewhere* is not
  inductive: the place it is in may be about to be emptied. `Keeps` says of an entry with a promise
  what each place may hold: the memory and the copy of its flush hold the last version or none, and
  the table has it once that flush is past its write (`MemoryKeeps`); the queue and what a flush of
  Redis has read hold the last version, which is stored or buried when that flush comes to remove
  it (`RedisKeeps`). It rests on `Members` (what a flush has read stays queued until its second
  script) and `Newest` (Redis has no version newer than the last one).

Then it is about the poller, the event loop and the tracker, for any workspaces and any threshold
of each kind of attention, and about the whole backend:

- `TrackerTypeCorrect`: `T!Spec => []T!TypeOK`; one entry per workspace, in memory and in the file.
- `WaitIsBoundedAlways`: `T!Spec => []WaitIsBounded`, if both thresholds are positive
  (`AlwaysAnnounced`). With a threshold of 0 the kind is switched off, and the code does not look at
  an entry while its workspace asks for that kind of attention, so it may wait for ever. `Patient`
  bounds the two halves of the wait, until the confirmation and from it; it needs `FromFile`, since
  what the first result of a run makes of a loaded entry depends on the file having no updates.
- `NoRepeatEver`: `T!Spec => NoRepeat`. The invariant `Pipeline` orders everything on its way from
  the server through two requests, the channel and the tracker to the file: builds and updates only
  grow along it. `Remembers` says that what somebody was told in this run is still an announced
  entry, or a later one.
- `BackendIsSound`: `BackendSpec => [](KeptUntilStored /\ WaitIsBounded) /\ NoRepeat`.

`ProcessLogSyncProofs` has two more, about runs in which nothing fails:

- `NothingIsStranded`: `SyncSpec => []NothingStranded`, inductive with the fact that a goroutine
  which is not inside `FlushAll` has no process left to flush (`NothingTodo`).
- `NothingIsSkipped`: `SyncSpec => []SkippedIsStored`. The invariant `Calm` says that all entries
  of the log before any position that is stored, kept or in flight are stored (`AllCovered`), and of
  a process without a position that nothing its readers received has left the memory (`AllUnplaced`,
  `Closed`): without this the first position of a process could pass an entry that another reader
  received before. `Flights` adds what a flush carries between its steps, `Ordered` that the log
  names an entry for the first time after those before it.

`RealtimeProofs` is then about the page, for any sessions and bounds:

- `SocketsAreKept`: `L!LinksSpec => []NoStraySockets`. `OneBoot` says that while a boot goes on no
  board socket or timer exists, `Still` that a page nobody looks at waits for nothing; both hold
  only of a page that is not `tangled`.
- `PaneShowsWhatRuns`: `D!DevSpec => []ShownAsItRuns`. The invariant names the stages of a chain of
  requests, and for each what the page knows by then (`StartUnderWay` to `PortUnderWay`), since
  what a pane shows in between differs from what runs.
- `HomeIsSound`: both, of the page that has both parts.

`SharedViewProofs` is about any tabs, workspaces, lists and number of panes. Its assumptions are
those TLC evaluates (`MaxOpenAssumption` to `RunningAssumption`).

- `PagesStaySound`: `ViewSpec => []PagesAreSound`. Soundness of the pages shown is not inductive,
  since a page takes over what other tabs stored and sent: `ViewType` says of every view in storage,
  in an answer, a frame or a PUT that it is sound as well. The operators of `PageState` are shown to
  keep a page sound one by one (`ReconcileIs`, `WithRemoteIs`,
  `PreserveOrderIs` and their like).
- `PutAwayStays`: `ViewSpec => []PutAwayStaysAway`. `AwayInv` adds that a page remembers of everyone
  in its list who asks for attention (`Remembers`), which is what keeps `Reconcile` from opening a
  pane again, and that a closed tab has nothing.
- `QuietTabsAlwaysAgree`: `ViewSpec => []QuietTabsAgree`. `AgreeInv`, while no two PUTs were under
  way and none failed: one PUT is under way and what the server stored or told of it is its row
  (`OnePut`); and unless the tabs are still to be told (`Pending`), what a tab will show after the
  frames it has not handled is that row, the last view among the frames is, and so is the signature
  that keeps it from pushing (`Agrees`).

`PagesProofs`:

- `FilesStayItsOwn`: `E!PanesSpec => []FilesAreItsOwn`: through every shift of places an element
  keeps a path only of the workspace it shows, unless it was given away over a request.
- `DraftStays`: `C!ComposerSpec => DraftIsKept`, an action property. `Fits` says of every request
  under way what its answer may do: one that will clear the draft carries the text the draft has,
  or the draft is one of the named cases (`Spent`), and once it was served its text was accepted.
- `WithdrawnStaysAway`: `T!TodoSpec => []WithdrawnIsNotStored`. `TextInv` says that a text which
  was not sent, or was withdrawn, is nowhere but in the field of the edit: not in a list, a request,
  an answer, or the field for a new todo.
- `PanelShowsStored`: `T!TodoSpec => []PanelIsCurrent`. `CurrentInv` says what the only request
  under way brings: a list that was served is what is stored, and a count goes on only beside a
  panel that is closed or already current, because marking a todo closes it.

- `FramesOnlyEverAdd`: `M!MsgSpec => FramesOnlyAdd`, whatever was lost or crossed before. The lemmas
  are about the operators: the sort only moves elements (`Sorted`), grouping and flattening keep
  every message with its key (`OnlyAdds`).
- `PaneStaysCurrent`: `M!MsgSpec => []PaneIsCurrent`. `MessageInv` has that the frames that wait are
  the last changes of the log (`FramesFollow`), and, as long as nothing crossed and nothing was lost,
  that what is shown is an unbroken piece of the log which these frames bring to its end, or the
  answer under way is (`PaneFollows`, `Newest`), and that an older page under way ends where that
  piece begins (`Older`).

`DialogProofs`, for any number of workspaces, texts, entries, requests and failures:

- `DialogShowsLog`: `D!DialogSpec => [](ShowsItsOwn /\ DialogConverges)` (`DialogShowsItsOwn` is its
  first half). `DialogInv` has what may be in a request, a frame and the list (`CallsFit`,
  `FramesFit`, `EntriesFit`), and counts: of every text there are no more local copies, together with
  the sends that were taken and will make one, than messages of the user with this text in the log
  and on their way into it (`CopiesFit`). While nothing crossed and no load is under way, the list has
  all entries up to some place at or behind the last handled frame, in order, and every copy in it
  has a message of its own behind that place (`ShownFits`); with no frame and no message on its
  way that place is the end of the log, no copy is left, and the list is the log (`CompleteIsLog`).

`BoardsProofs` is about the other parts of `MCBoards`, for any number of sessions, sockets,
requests, agents, projects, issues, texts and questions. Of the values `MCBoards` fixes itself (two projects,
which texts and replies exist) it uses only what `BoardsAssumption` says of them, which TLC
evaluates.

- `CardIsWatched`, unless two boots were under way together or the sync was stopped under an open
  dialog: `K!CardSpec => [](BoardIsWatched /\ DialogIsWatched)`. `CardInv` has, for the board, that
  boots do not overlap, that a card which boots, is refused or is off the page has neither a socket
  nor a poll nor a timer (`Unlinked`), and that a timer of a new try goes with polls (`BoardKept`);
  for the dialog, that its socket is that of the session it shows (`PaneFits`).
- `FormIsOfItsAgent`: `C!CreateSpec => []FormFollowsAgent`. `Follows` says that the
  presets of the shown agent are on their way, or its models are, or the form has them.
- `IssuesAreCurrent`: `I!IssueSpec => [](BoardIsCurrent /\ TypedIsStored)` (`TypedTitleIsStored` is
  its second half). `ColumnsInv` says that the columns are what the server has or what the last load
  the board waits for will bring, and that the notice of loading has such a load; `TitleInv` that what
  was typed last waits for its timer, is carried by the last save of that title, or is stored.
- `TextsAreStored`: `P!PanelSpec => []TextIsStored`. A text that has no timer is the one its last
  save under way carries, or, when none is, the one the server has (`Settled`); the saves of one
  field stay in order when an answer takes one of them out (`LeftOrder`).
- `ButtonsAreOfTheLast`: `Q!ButtonsSpec => []ButtonsBelong`: what is offered was found in, or
  suggested for, the message the cache names (`Belongs`), and that is the last one unless an older
  question was answered after a newer load.
- `OverlaysEndAndKeep`: `O!OverlaysSpec => [](StreamEndsWithPanel /\ TitleIsKept)` (`TitleStays` is
  its second half). `DiffInv` says that every socket but the one of the shown panel is closed,
  `FillInv` that a form is loading exactly until its last answer, and that nobody types into a
  loading one.
- `BoardsAreSound`: `BoardsSpec` has all eleven, those of the dialog included, whichever part moves.

What the attempts to prove changed in the model. The first form of `withdrawn` took every text that
Escape ended an edit with; the proof failed where the same text had been typed into the field for a
new todo and sent from there, and TLC confirmed it with six requests. `unsent` says now what was
meant. Threshold 0 (above) was found in the same way, as was the assumption that a list names a
workspace once, without which `Reconcile` may open a pane twice. `ButtonsBelong` took a reply that
suggests nothing for one more reply, which is right only where the buttons of a message are the same
with both; it names the buttons found without the model now. That the value for "no panel" is no
panel was nowhere said, nor what a panel's issues are apart from those of the board (`PanelIssue`).
In `IssueBoard` a load did not say whether the element that made it is still there to be told
(`told`), without which the columns cannot be related to the loads under way; `TypedIsStored` became
stronger with it. In `PaneMessages` and `CardDialog` the order of messages was `SortSeq` with a
strict order, which leaves open what happens to messages of one key; the sort is the stable one of
`Array.sort` now. In `PaneMessages` a frame also replaced the first message with its key instead of
the last, and `Limit` might have been 0.

Induction over data is out of the provers' reach as a rule, since no prover takes the induction
theorems' operator parameter. Where it was needed over the places of a sequence it is replaced by
the least element of a set of numbers, which follows from the well-founded order of the natural
numbers (`SmallestOf`, `Climb` and `Recursion` in `SharedViewProofs`).

What stays with TLC:

- liveness and what rests on fairness: `FlushEnds`, `DeliversTheLatest`, `StreamIsReleased`,
  `QueueDrains`, `LinksRecover` and `ButtonReturns`;
- what the four runs with a counterexample refute.

Every other invariant and action property of the passing runs is a theorem.

## What is not modelled

`Stop` and `FlushAll` of the sync service and the buffers are not called by `run.go`: a shutdown is
a crash. The tracker runs in the main instance only. Contents of messages, parsing, rendering,
styles, scrolling, Markdown, the popup of an agent's todo list and the developer's playground are
functions of state that is modelled. Of the hub, its registry, queues and digest are left out; of
the sync service, the workspace and session streams, which repeat the sequence of the process
streams. The message query, the dispatcher, the port allocator and the singleton lock rest on the
semantics of MySQL, of the upstream server and of the file system.

## What was noticed beside the model

Limits of the code that no document promises away, or that a history variable excepts. Line
numbers are those of the hazards in `PROJECT.json` where they are listed there.

*Backend.* A timer that runs out during a flush is spent and `Enqueue` does not arm another, so
entries wait until their stream ends (`memory_buffer.go:81`; the design says 200 ms). After a
reverted batch a replayed log can move the position past an entry that was not stored
(`memory_buffer.go:254`). The position never advances through Redis, since `Enqueue` passes the one
its reader started from (`redis_buffer.go:143`); what Redis queued before a restart waits until its
process is enqueued again; two burials of a process within one second share a file name and the
second truncates the first. The throttle sends closer than its window when a stale timer fires and
may send out of order. `state.json` does not hold `updated_at`, so a loaded entry is taken for new
content and announced again, which `tracker.go:27` excludes. `UpsertWorkspace` (`store.go:334`) has
19 placeholders for 20 columns.

*Page.* A regular expression with doubled backslashes makes `isUnauthorizedError` match only the
word "Unauthorized" (`web/workspace-home.ts:1294`, the card's at 2154). A failed PUT is not
repeated; a broadcast between the GET of the layout and the connection is missed. A page that went
from narrow to wide does not open its session socket again until the session changes; two boots
leave a board socket behind. An answer of a load replaces newer frames; an older page awaited over a
refresh leaves a gap or doubles. `components/workspace-conversation-pane.ts` declares
`handleLoadMore` twice (449 without effect, 649). The primary button says stop and cancels the queue
when something is queued. Text typed while a send is under way is cleared; a todo sends whatever the
draft is once it was marked, and a failed send leaves it marked. A server that ended by itself stays
"running" until a list says otherwise; the preview's port is asked for once. Files, todo panel and
menu of a pane carry over to another workspace when places shift. The pull request form gets the
workspace's own branch as its base.

*Card.* Answers apply to whatever workspace is selected by then. A clock ahead of the server's drops
pushed messages. A refused list beside another request leaves a card that is not blocked and not
watched; configuring a card under an open dialog leaves the dialog without socket and polls. Answers
after the card was taken away open sockets and timers. In the create dialog late answers replace
choices, and nothing hinders a second click on create.

*Issues.* A load that is not silent makes panel and form anew: text typed less than half a second
before is lost. The answer for an older project can replace the board. `deleteIssue` and
`linkWorkspaceToIssue` do not look at the status of the response (`lib/issue-api.ts`).

*Quick buttons.* What the language model extracts is not filtered by the rules of forbidden words
(`lib/quick-buttons.ts`), unlike what patterns find; an older answer of the model replaces a newer
one.

## Plan

Done: all modules above. What a next step would take, in this order: `MessageQuery` over
`FallbackBuffer` (paging by cursor over Redis and MySQL, and the write-back that can replace a newer
body); the hub's registry and queues, composed with `MessagePush` and `SharedView`; the outer
streams of the sync service. A theorem worth proving next, with `MessageQuery`: a page of the query
is a piece of the log whatever is queued.
