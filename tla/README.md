# Verification of the YCT app, its admin panel and its workers

TLA+ models of the Yoga Consciousness Trust system, the TLC runs that check
them and the theorems TLAPS proves about them. The reference is the source:
every definition is translated from it, and `PROJECT.json` names the lines
(`map`), the runs, a mutant of the code for each checked property, the hazards
and the findings.

## 1. The system

```
 administrator's browser                     devotee's phone
 cloudflare/admin/index.html                 lib/ (Flutter)
   | addDoc, setDoc, deleteDoc, getDocs        | get (server or local cache), add
   v                                           v
 Firestore  <------------------------------->  FirestoreService, caches, screens
   magazines books audio programs quotes
   feedback settings centers                   SharedPreferences: last_seen_*
   ^                                           Remote Config: maintenance, forced
   | no transaction spans the two              update, countdown
   v
 R2 bucket  <- upload worker (POST /upload, DELETE /delete) <- panel
            -> media URLs read by the app
```

Nothing joins the two stores. A document names objects by key, an object knows
nothing of its document, and every rule between them is kept, or not, by the
order in which the panel's handlers send their requests.

| component | source | state | operations | interacts through |
|---|---|---|---|---|
| Media publishing | `cloudflare/admin/index.html` 480-748 | handlers standing at an await, rendered lists, buttons | uploadMag, uploadBook, uploadAudio, delMag, delBook, delAudio, load* | Firestore, upload worker, other tabs |
| Upload worker | `cloudflare/worker/worker.js` | none; the bucket | put, delete | panel, bucket |
| New-content popup | `lib/core/new_content_service.dart`, `lib/screens/home_screen.dart` 65-72 | two stored times, the check's await | check, popup | Firestore, SharedPreferences, home screen |
| Programs and quotes editors | `index.html` 869-1052, 1173-1267 | form with its edit id, rendered rows | save, edit, reset, toggle, delete | Firestore, other tabs, app |
| Feedback | `firestore_service.dart` 111-125, `feedback_screen.dart`, `index.html` 1055-1170 | form, the collection | submit, markRead, reply, delete | Firestore client, panel |
| Firestore client write path | `ios_backup/Pods/FirebaseFirestoreInternal/Firestore/core/src/` (`core/sync_engine.cc`, `local/local_store.cc`, `remote/remote_store.cc`, `remote/stream.cc`, `remote/write_stream.cc`) | a mutation queue per user on disk, write pipeline, write stream | write, sign in, break, back off, idle, relaunch | app, server |
| Audio player | `lib/screens/audio_screen.dart` | current track, player state, buffering, seeking, the list's spinner and error | play, pause, stop, seek, interruption, refresh | player plugin, audio session |
| Home screen and lists | `lib/screens/*` | lists, loading, error | load, refresh, filter | FirestoreService, caches |
| Session caches | `content_service.dart`, `quotes_service.dart`, `home_cards_service.dart` | one cache each | fetch, clearCache | Firestore |
| App shell | `main.dart`, `remote_config_service.dart`, `update_service.dart` | maintenance flag, tab, dialogs | start, resume, forced update | Remote Config |
| Home cards, settings, toggles | `index.html` 510-575, 751-867 | forms | save | Firestore |
| Rules and indexes | `firestore/` | none | allow, deny | Firestore |

**Hard behaviours.** Several tabs and the app act on the same documents; every
`await` lets the world change; requests can be late, lost, or served with the
answer lost; a tab can close and the app be killed at any await; errors are
swallowed in some handlers and not caught at all in others; the app's reads may
come from a local cache; and the two stores have no transaction.

**What makes each component correct.** What the code does not keep of it is
shown by a violated run or named in section 2 as a behaviour of the model.
- *Publishing*: a document that is live has its files; no object is left
  without a reason; upload handlers end; a delete takes the objects along.
- *Popup*: nothing is announced twice, nothing is passed over, the stored times
  never go back.
- *Editors*: a save writes only to the program whose fields the form holds; a
  deleted program stays deleted; a toggle does what its label said.
- *Feedback*: one submission makes one document; a reply goes to a feedback
  that exists.
- *Player*: the track shown is the track heard; what was stopped stays silent;
  a sound always has a control that stops it, a call silences the player and
  its end resumes only what it interrupted (the last three are not kept).
- *Lists and caches*: what is shown last is what was asked last; a refresh is
  not undone by an older fetch; a fallback gives way to data.
- *App shell*: maintenance and a forced update take effect when they are on
  (neither is kept in the run that learns of them).

## 2. Modules

| module | what it is |
|---|---|
| `Publishing` | the panel's upload and delete handlers, the network, the worker, the bucket and one collection |
| `Catalogue` | what publishing promises to readers, one store and no requests |
| `PublishingCatalogue` | the refinement mapping, `Publishing` implements `Catalogue` |
| `PublishingInvariant` | the inductive invariant `IInv` of `Publishing` |
| `PublishingProofs` | its theorems |
| `MCPublishing` | values of the constants for TLC, symmetry |
| `NewContent` | `NewContentService.check` and `_checkNewContent` |
| `NewContentInvariant` | its inductive invariant |
| `NewContentProofs` | its theorems |
| `ProgramEditor` | the panel's programs editor in several tabs over one collection |
| `ProgramEditorInvariant`, `ProgramEditorProofs` | its inductive invariant, its theorems |
| `MCProgramEditor` | values of the constants for TLC |
| `WriteQueue` | the write path of the Firestore client: queues, pipeline, stream, server |
| `WriteQueueInvariant`, `WriteQueueProofs` | what the client keeps true, one lemma per handler |
| `Outbox` | what that client promises: writes kept, delivered and settled in order |
| `Feedback` | composes `WriteQueue` with the feedback form and the panel; refines `Outbox` |
| `FeedbackInvariant`, `FeedbackProofs` | the invariant of client, form and collection, its theorems and the refinement of `Outbox` |
| `MCFeedback` | values of its constants for TLC |
| `AudioPlayer` | the audio screen over the player plugin, calls and headphones |
| `AudioPlayerInvariant`, `AudioPlayerProofs` | its inductive invariant, its theorems |
| `AppShell` | start, resume, maintenance and forced update over Remote Config |
| `HomeLoads` | the home screen's overlapping loads and a session cache |
| `AppHome` | composes `AppShell` and `HomeLoads` over the life of the process |
| `AppHomeInvariant`, `AppHomeProofs` | its inductive invariant, its theorems |
| `SequenceLemmas` | lemmas on suffixes, concatenations and removals, which several proofs cite |

### 2.1 Publishing

One instance stands for one of the three collections; they share neither
documents, keys, buttons nor lists. `Audio = FALSE` is magazines or books (one
item per upload, with an optional cover), `Audio = TRUE` is `uploadAudio` (a
batch of files, no covers). An item is at once the document that `addDoc` will
create and the content of its files, so "the bucket holds what this item
uploaded" is `bucket[p] = d`.

State and code:
- `stage`, `cur`, `todo`: where the async upload handler of a tab stands. `pdf`
  and `cover` are the two `await r2up`, `add` is `await addDoc`, `todo` the
  files the loop has not reached. Within a batch the order of the files is left
  open.
- `del[t][d]`: the await of a delete handler: `doc` is `deleteDoc`, `pdf` and
  `cover` are the two `await r2del`.
- `shown`, `pending`: the delete buttons of the list and the reload in flight.
  The list is empty while it loads, as in the code; how old the rendered list
  is does not matter, as other tabs may act any time after it was rendered.
- `net`: requests. A request is *sent*, then served and *answered*; it is
  *stray* when its handler is gone and it may still be served.
  `PutRejected` and `RemoveErrored` may happen whether or not the request was
  served, before or after: a status of 300 and above, a lost answer and a
  blocked one look alike.
- `doc`, `bucket`: the two stores.
- `unconfirmed`: a history variable, the items whose delete saw an error
  (`catch(_){}` of `r2del`) or lost its tab.

Keys are abstract. `Covers[p]` are the cover keys `${base}-cover.${ext}` that
go with a main key; two main keys never derive one cover key. The panel never
checks whether a key is in use; `Reuse = TRUE` lets administrators upload to a
used key, `Reuse = FALSE` assumes they do not.

Bounds: `MaxBatch` files in one audio pick; at most `MaxStray` orphaned
requests, one more counts as lost; one delete of a document per tab at a time
(a second tab stands for a second click).

### 2.2 NewContent

`step` is the await of `check`: the queries, the two `setInt`, the return.
`seen`, `now`, `found` are its locals, `last` the two preferences, `mounted`
whether the home screen that asked is still there. Items are named by
`created_at`. Actions outside the check: documents are published and deleted,
the home screen is disposed of (maintenance mode), the app is killed. `Answer`
may be the cache's: it may lack what came after some time and hold what has
been deleted since. `Ahead` is the lead of the device's clock, of which the
first launch stores a reading. `shown`, `lost` and `base` are histories.

Bounds: `MaxTime` ends the server's clock, one document per tick and
collection; one check at a time, since a second home screen is built only after
maintenance mode, which the app learns of at most once an hour
(`remote_config_service.dart:21`).

The collection `audio_tracks`, which the check asks for `uploaded_at`, is
written by nothing in this repository (the panel writes `audio`, with
`created_at`), and `firestore.rules` 35-37 denies it. The model lets it be
filled and read; it also contains the behaviours in which it never is, and in
which its query fails, which under the rules of the repository is what happens
at every launch: `Future.wait` then throws and the popup never appears, for
magazines either.

### 2.3 ProgramEditor

The form, list and buttons of the programs tab, in several tabs of the panel.
Times are counted in quarters of a day, so that a day has a start, an end and a
UTC day other than the local one; `Offset` is the tabs' time zone.

- `form[t]`: `prog-edit-id` with the title and the two dates typed or loaded. An
  *entry* stands for what an administrator means to enter as one program; it is
  typed once.
- `saving[t]`: the disabled button. `opening[t]`: `editProgram` at its
  `await getDoc`.
- `flight[t]`: writes the tab's Firestore client has not seen settled, in
  order. `View` is what that tab reads meanwhile: the client's latency
  compensation. A commit and its answer are one step: between the two the tab
  cannot save, and the answer empties the form whatever is in it.
- `listed`: every program that ever was. Rows may be arbitrarily old, as
  `_allPrograms` is as old as the last load and the search renders it again.
- `CloseTab` closes or reloads a tab: its writes under way are lost.
- `shells`: history, the programs that a toggle has brought back from deletion.

Away from Greenwich one of the two dates moves a day with every edit that is
saved: the start ahead of UTC, the end behind it. The other one has to stay:
`DaysAsEntered` speaks of the end at and ahead of UTC and of the start at and
behind it, while the first drifts and programs change places in the forms.

The quotes editor (1173-1267) is the same protocol without dates. `is_published`
and the other fields are not in the model; that a toggle of an old row sets the
value the administrator meant to change away from is therefore not caught.

Bounds: `MaxFlight` writes under way, of all tabs; `MaxDrift` days that a date
which is saved has moved from the one its entry was typed with.

### 2.4 WriteQueue, Outbox and Feedback

A submission is a `collection.add` with a time limit of 12 seconds over the
client's offline queue, so what becomes of it is decided in the Firestore
client. The repository carries that client's source with its iOS pods.
`WriteQueue` models the way of a write through it: `SyncEngine::WriteMutations`,
`RemoteStore::FillWritePipeline`, the write stream's start, handshake, responses,
errors, back-off and idleness timer, `HandleCredentialChange`, and restarts of
the network and of the app. All of it runs on one worker queue, so every handler
is one action. `toServer` and `toClient` are the two directions of the current
stream, `late` the requests of the last broken one. Responses name no write. A
settled batch is taken out of its queue at its place, as
`RemoveMutationBatch` finds it by its id; that it is the first is proved, not
assumed.

The server applies requests in order, ends a stream only with an error, and
refuses the writes in `Refused` whenever they arrive. Security rules depend on
the write alone; those of the repository refuse every feedback
(`firestore.rules` 33-37), which is the instance `Refused = Writes`.
`OnWriteStreamClose` also stands for failed credentials and errors in the
handshake. `Relaunch` is a kill with the next start. Answers are read in order,
the status of the call last. `grpc_stream.cc` 226-252 gives up an outstanding
read when a write on the call has failed and then asks for the status. If gRPC
could report a permanent error there before the answers that precede it, that
error would be taken for the front of the pipeline; what gRPC reports is
outside the modelled source, so `AnswersMatchPipeline` and `ToldTruth` assume
that it does not.

`Feedback` adds the form (`awaited`, `thanked`) and the collection. The panel's
`markRead`, `saveReply` and `delFeedback` are taken at their commits; their
merges recreate a deleted document.

`Outbox` is the promise: writes are kept in order, arrive for the first time in
that order and are settled one after the other with what the server did.
`ImplementsOutbox` is the refinement, with `delivered <- committed`.

`AuthService.init` signs in after the first frame (`main.dart:70`,
`auth_service.dart` 16-30). Writes made before stay in the queue of nobody;
nothing draws from it again while a user is signed in. `Settles` is therefore
stated for the user who stays.

Bounds: `MaxBreaks` breaks, restarts, sign-ins and kills; `MaxEdits` acts of the
panel. `kMaxPendingWrites` is 10 (`remote_store.cc:60`) and a parameter here.

### 2.5 AudioPlayer

`current`, `state`, `buffering`, `seeking` are the screen's fields; `dragging`
and `settling` what holds the position shown (a finger, the 300 ms after a
seek). `listLoading` and `listFailed` are `_loading` and `_error`, `listLoads`
the calls of `_load` under way: the tiles and the mini player are on the screen
only without both (203-208), while the refresh button works at any time
(198-200). So `MiniPlayer` is not `current`, and what the user does needs
`ListShown`. A refresh, and a load that fails after another one has brought the
list, take the slider away under a finger (`SliderGone`). A load that succeeds
leaves the error of one that failed meanwhile (118-122).

The plugin is external: commands are performed in the order given, the last of
play, pause and stop wins over a track still loading, and a play ends when its
track is loaded, with an error, or after 30 seconds. Handlers are cut at their
awaits: `PlayOther` and `Stop` before, `Loaded`, `PlayFails`, `Stopped` after. A
call may begin and end at any time, headphones may be pulled, the screen
disposed.

What the code does not keep:
- the controls of a sound: there are none while the list is loaded again or
  after that failed (203-208), although the screen's header promises "Lock
  screen controls" (4), which nothing provides; and none for a track that was
  tapped while `_stop` awaits the player (171; `overtaken`). `HeardIsShown`
  states what is left, with both exceptions;
- the end of a call resumes what the user has paused (88), which `PauseStays`
  shows. What was stopped it does not resume (`StoppedStays`), unless a command
  overtook the stop;
- a track that is loading when a call begins is heard in it: "Phone call
  started - pause" (83) pauses what plays (84). Nothing else is heard
  (`CallIsQuiet`; `begun` records what was about to play, `overCall` what the
  user did in the call);
- a seek that throws (176), or a finger whose slider has gone, leaves the
  position frozen (`lost`, the exception of `FrozenOnlyIfLost`);
- a pause while loading leaves the spinner (144), the exception of
  `SpinnerEnds`, and the error of a play ends the spinner of whatever track is
  current (158), which no property forbids.

Left out: a tap after a failed load of a track, which resumes a player without a
source (141); the session's listeners, which survive a disposal (81, 188); which
tracks the list holds, and its search.

Bounds: `MaxCommands` commands, loads and seeks under way, `MaxListLoads` loads
of the list.

### 2.6 AppShell, HomeLoads and AppHome

The device holds two copies of the Remote Config values. `init` activates what
an earlier run has fetched and starts a fetch nobody waits for; `_MainShellState`
copies the maintenance flag, looks for a forced update after the first frame,
and refreshes on resume. `late` names a gap: the background fetch may change
the active flag after it was copied, so that an app whose own start fetches it
goes on until it is resumed, although the panel "shows a maintenance message to
all users" (`index.html:267`).

The look for an update reads the minimum version (`AfterFirstFrame`) and then
awaits the version of the package (`CheckEnds`, `update_service.dart:30`);
between the two the app is up without a dialog (`checking`), and values may
come, for which it does not look again before the next start. Of "Users below
this version see a blocking dialog" (`index.html:278`) this leaves the runs that
start after one that has fetched the minimum version. `learnt` says
that the values published now were fetched by an earlier run before this one
started. `erred` says that in this run `init` (`remote_config_service.dart` 31-33)
or the check (`update_service.dart:76`) has swallowed an error: such a run may
be up without the dialog, and `UpdateDemanded` says that no other one is.

`HomeLoads` is `HomeScreen._load`: it waits for lists that are read each time
and for settings that are read once per session (`home_cards_service.dart`,
`quotes_service.dart`), where the fallback is kept like data and a load that has
outlived its screen still fills the cache. `due` is the version that the first
load of a process, or a refresh that meets no load under way, has to show; it is
reset when a read fails or is answered by the device, and when a refresh meets a
load: that one may be overtaken, and an older fetch may fill the cache again. `AppHome` composes both: maintenance disposes of the home screen and
builds a new one, a kill takes everything but the stored values.

Bounds: `MaxChanges` of the published values, `MaxFetches` under way,
`MaxVersion` saves of the panel, `MaxLoads` under way. `MaxFetches` is at least
one, as `init` makes its call whatever else is under way.

## 3. Runs

| run | question | instance | distinct states |
|---|---|---|---|
| `publishing_tabs` | do two tabs on one key keep the stores in step? is the invariant inductive as far as TLC can tell? | 2 items, 2 tabs, 1 key, reuse | 760 000 |
| `publishing_audio` | does a batch survive the failure of one file? | 3 items, 2 keys, batches of 2 | 1 260 000 |
| `publishing_fair` | is it a catalogue when keys are fresh? do handlers end, do objects go? | 2 items, 1 tab, 2 main keys, a cover, 2 stray requests | 69 000 |
| `publishing_delete_claim` | violated: "Removes from database AND Cloudflare R2" | as `publishing_tabs` | |
| `newcontent_launches` | repeats, gaps, times going back | 3 ticks, limit 2, clock 1 ahead | 905 000 |
| `newcontent_shown_claim` | violated: the stored time is that of an item that was shown | the same | |
| `program_editor` | do two tabs keep each program in one document and whole? does the end date stay where the start date drifts? is the invariant inductive as far as TLC can tell? | 2 tabs, 2 programs, 2 writes under way, India | 1 310 000 |
| `program_editor_india` | violated: a program is listed with the start day it was entered for | 1 tab, 1 write under way | |
| `feedback` | is the client an outbox, are its answers true, and what is left of the panel's changes? | 3 submissions, one refused, pipeline of 2, 2 users, 2 breaks, 1 act of the panel | 164 000 |
| `audio_player` | is what is heard what is shown, does a stop last, is a call quiet? | 2 tracks, 3 commands and 2 loads of the list under way | 786 000 |
| `audio_call_claim` | violated: "resume if was playing" | 1 track, 2 commands, 1 load of the list | |
| `app_home` | do the locks follow their values, is a refresh fresh? | 1 change, 2 fetches, 2 versions, 2 loads | 4 150 000 |

Why these bounds are enough. Every interleaving the properties are about needs
two items (one in the place of the other under a shared key), two tabs or one
tab and an orphaned request (a late put or delete), and the two objects of one
item; each run has what its question needs. Three files in `publishing_audio`
leave one outside the batch of two. In `NewContent` three documents overrun a
limit of two, and a lead of one tick lets a document be published before the
time the first launch stored.

Two tabs with two programs let each tab edit, delete or toggle what the other
one saves, and two writes under way let them overlap in one tab or across two.
Three submissions overrun a pipeline of two, so one waits in the queue for a
slot; two breaks let a stream that replaces a broken one break, be restarted
for another user, or be cut short by a kill while requests of the first are
still on their way. Two tracks and three commands are what a play overtaken by
a stop overtaken by a play needs, with a call or a seek beside them; two loads
of the list let one fail after another has brought it. Two fetches are the
background one and a resume; two loads an older and a newer one. A drift of one
day is an edit that has been saved, in either program; the start drifts on by
one with each, the end does not move. Both programs are on one day: no guard but
the bound reads it, and `DaysKept` is proved for any days and any drift.

Deadlock is checked in every run but `feedback`, and none is found. There the
bounds stop the system: every submission is settled, the breaks are used up.

The properties, by name:
- `IntactOrShared`: a live document's files are the ones its upload put, unless
  another upload was pointed at the same key. It depends on the order of both
  handlers.
- `EveryObjectAccounted`: an object whose document is gone is still to be
  removed by a handler, or the panel swallowed an error or was closed.
- `ImplementsCatalogue`: without reuse, readers see one store in which an item
  appears and goes whole.
- `UploadEnds`, `DeleteReachesBucket`: liveness, under `FairSpec`.
- `NoRepeat`, `NeverSkipped`, `LastOnlyAdvances`: section 1.
- `NoEntryTwice`: what was typed as one program is in one document, whatever
  overlaps. An id taken before `getDoc` is awaited would break it.
- `WholeUnlessToggled`: a merge that recreates a deleted program recreates it
  whole; only a toggle leaves a bare flag.
- `DaysAsEntered`: editing leaves the end day alone at and ahead of UTC, the
  start day at and behind it, however far the other one has drifted.
- `ButtonMatchesSave`: the button is disabled exactly during the one save.
- `AnswersMatchPipeline`: answers under way, then requests the server has not
  taken, are the pipeline, on every stream.
- `PipelineServed`: the pipeline is the front of the queue, and nothing in it
  waits for an event that may never come.
- `NothingLost`, `ToldTruth`: no write is lost, none is called something it is
  not. `ReceivedIsStored` carries this to the form.
- `SettledIsFinal`: once a feedback is settled and no broken stream carries it,
  what the panel made of it stays.
- `ImplementsOutbox`, `Settles`: section 2.4; the second is liveness.
- `HeardIsShown`, `StoppedStays`, `CallIsQuiet`, `FrozenOnlyIfLost`: section 2.5,
  with their exceptions. `SpinnerEnds` is liveness.
- `ShellUpToDate`, `RefreshIsFresh`, `UpdateDemanded`: section 2.6.
- `IInv`: in the runs `publishing_tabs`, `newcontent_launches`, `feedback`,
  `program_editor`, `audio_player` and `app_home` the inductive invariant of
  section 4. It contains the module's types, and in `publishing_tabs` also
  `EveryObjectAccounted`. The covers that this run has no key for are in the
  theorem.

**Fairness.** The `FairSpec` of `Publishing` assumes that every request of an open tab settles, and
nothing else: the browser ends each `XMLHttpRequest` and `fetch` with an answer
or an error, and the Firestore client resends a write until it is committed or
refused. No click is assumed, no list has to load, no tab has to close or stay
open, and stray requests need not be served.

That of `Feedback` is weak fairness of the client's own steps with the server's
answers (`Delivery`) and of the server's commits (`AddFeedback`): queued
operations and timers always run, and a server that is reached takes requests.
Nothing makes a user submit, a stream break or the device come online; that
streams break finitely often is the bound `MaxBreaks`, and without it no client
could settle anything. That of `AudioPlayer` says that the plugin performs its
commands and that each load ends, which its time limit of 30 seconds enforces.
`NewContent`, `ProgramEditor` and `AppHome` state safety only.

**Findings.** The third is a fault, the others are disagreements between a text
and the code.
1. `delMag` says the file is removed from R2; `r2del` swallows every failure
   and the handler ends as if it had succeeded. The document is gone, so no list
   names the object any more.
2. `last_seen_*_at` is documented as the time of the newest item "the user has
   been shown"; it is stored before the popup, and a kill or a disposed home
   screen in between loses the announcement for good.
3. The programs form asks for a day (`index.html:348`), `saveProgram` stores its
   local midnight (970), the list shows it in local time (899), and `editProgram`
   fills the form with its UTC day (1007). In India each save of an edited
   program moves its start a day back; west of Greenwich the end moves a day on
   (971, 1011).
4. "Phone call ended - resume if was playing" (`audio_screen.dart:86`): the code
   resumes whatever is paused, also by the user (87-89).

## 4. Proofs

For every value of the constants that satisfies the modules' assumptions.

`PublishingProofs`: `Typed`, `LiveDocumentsIntact` (`[]IntactOrShared`),
`ObjectsAccounted` (`[]EveryObjectAccounted`), `Inductive` (`[]IInv`) and
`PublishingImplementsCatalogue` (assuming `~Reuse`).

`IntactOrShared` is not inductive: it says nothing of a put that is answered
while the cover still travels, or of an `addDoc` that is on its way. `IInv` adds
- `HandlerInv`: an item is worked on by one tab, and in the stage the handler
  stands at;
- `UploadNetInv`: an item has one upload request at a time; a put exists only
  while the document does not; a stray one belongs to a failed upload;
- `DeleteNetInv`: an `rm` exists only after its document's deletion was
  committed; an answered one has emptied its key of the item;
- `IntactInv`: files are in place from the answer of their put on, so before
  `addDoc` is sent, while it travels, and when it is committed;
- `ObjectInv`: `EveryObjectAccounted`, where a delete counts only once its
  document is gone;
- `FreshInv`: without reuse no key belongs to two items.

The steps are proved in four groups (network, upload handlers, delete handlers,
page), with frame lemmas for the conjuncts a group cannot touch. The refinement
follows from `IInv`: a commit of `addDoc` is `Publish`, of `deleteDoc` is
`Retire`, and everything else leaves the readable items alone.

`NewContentProofs`: `NothingRepeated`, `NothingSkipped`, `TimesAdvance` and
`CheckInductive`. The invariant ties the locals of the check to the
preferences: what was shown lies at or below the stored time and below what the
check read; what was found lies above it; an answer leaves nothing out below
its newest document; and only the first stored time can be ahead of the
server's clock. That an answer has a newest document is `LargestIs`, from the
well-foundedness of the natural numbers.

`ProgramEditorProofs`: `Inductive` (`[]IInv`), `TypesKept` (`[]TypeOK`),
`OneDocumentPerEntry` (`[]NoEntryTwice`), `WholeDocuments`
(`[]WholeUnlessToggled`) and `ButtonFollowsSave` (`[]ButtonMatchesSave`), for any
number of tabs, programs and writes, and `DaysKept` (`[]DaysAsEntered`), all for
every time zone. `NoEntryTwice` looks at documents; an entry may also be in a
write under way and in a form, in several tabs. `IInv` follows it there:
- `Typed`: a write under way of a save carries a whole document;
- `ShellInv`: a document that is not whole is a toggle's;
- `SaveInv`: the button is disabled while exactly one save is under way;
- `OwnInv`: documents, writes and edits that hold an entry are of one program;
- `NewInv`: an entry in a form that adds a program is in no document, in no
  other form, and in no write but that form's own save;
- `TypedInv`: an entry that has not been typed is nowhere;
- `DaysInv`, for the end at and ahead of UTC and for the start at and behind it:
  documents, writes under way and forms carry that day of their entry, and a
  form without one has no such date.

The delicate step is the answer of a save: it may leave a document of the entry
behind only because it empties the form that would add it again. `DaysInv` has
to speak of forms without an entry, since a date that a bare document leaves in
the form would go into the next program; it therefore excepts what a toggle has
brought back.

`FeedbackProofs`, over `WriteQueueProofs`: `Invariance` (`[]IInv`), `Typed`
(`[]TypeOK`), `AnswersMatched` (`[]AnswersMatchPipeline`), `Served`
(`[]PipelineServed`), `NoWriteLost` (`[]NothingLost`), `Truth` (`[]ToldTruth`),
`ThanksAreTrue` (`[]ReceivedIsStored`), `Final` (`SettledIsFinal`) and
`ClientIsOutbox` (`ImplementsOutbox`), for any writes, users and refusals, any
limit of the pipeline and any number of breaks. The properties of the client
support each other, so the invariant `WQInv` is their conjunction with
- `QueueInv`: a write is queued once. Without it the place of a batch, and what
  is left when it is removed, would be ambiguous;
- `MatchInv`: `AnswersMatchPipeline` by positions, with the states in which a
  stream carries nothing but a handshake. As responses name no write this is
  all that ties an answer to its write;
- `AnswerInv`: an `ok` under way is for a committed write, a refusal for a
  refused one, and a refusal ends the call;
- `LateInv`: a request of the last broken stream that the server could still
  apply for the first time stands in a queue behind writes that are applied or
  travel before it. The first arrivals are in the queue's order because of it,
  which is what the refinement needs of `LateCommit`;
- `CommittedInv`: what is stored was written and is not refused.

Each handler of the client has its lemma, so that `FeedbackProofs` only adds the
form and the panel. In the refinement `Write` is `Accept`, a commit that is the
first of its write is `Deliver`, an answer that reaches the client is `Settle`
(its write is the first of the queue by `PipelineServed` and `MatchInv`, and
delivered by `AnswerInv`), `HandleCredentialChange` is `SignIn`, and the streams'
own steps leave the outbox alone.

`AudioPlayerProofs`: `Invariance` (`[]IInv`), `Typed` (`[]TypeOK`), `HeardShown`
(`[]HeardIsShown`), `StopSilences` (`[]StoppedStays`), `CallQuiet`
(`[]CallIsQuiet`) and `Frozen` (`[]FrozenOnlyIfLost`), for any tracks and any
number of commands and of loads of the list under way. The properties speak of an empty queue; the invariant says what a queue
that is not empty will come to:
- `WantedInv`: the last command other than a seek asks for the state that the
  player was last told to be in, and that is playing only if the user or the
  end of a call said so. A track that was loading resumes by the same rule;
- `StopInv`: unless it was overtaken, a stop was the last the player was told,
  and the mini player goes with it, so that neither a call nor headphones find
  anything to command;
- `ShownInv`: what plays is shown as playing, and has a spinner only if another
  track is already in the queue;
- `CallInv`: in a call in which the user did nothing and which found nothing
  about to play nothing is, and a pause or a stop is on its way to what plays;
- `FollowInv`: unless a stop was overtaken, the queue ends with the track of the
  mini player, a stop is its last command, and without a mini player there are
  only seeks in it and the player is silent.

`AppHomeProofs`: `Invariance` (`[]IInv`), `Typed` (`[]TypeOK`),
`ShellFollowsValues` (`[]ShellUpToDate`), `RefreshShowsFresh`
(`[]RefreshIsFresh`) and `KnownUpdateDemanded` (`[]UpdateDemanded`), for any
number of changes, versions, fetches and loads. `IInv` adds
- `DemandInv`: in a run that swallowed no error, values that an earlier run had
  fetched and that are still the published ones are also stored and active, the
  maintenance flag was copied from them, and the check is under way or has
  found them;
- `FreshInv`: since a first load or a refresh that met no load under way, the
  cache and every load are either empty or no older than it, and every load was
  started since;
- `ShownInv`: what is shown is no older either, or a load is under way that
  will replace it;
- `OffInv`: a process that has ended fetches nothing, none is in maintenance
  before its first frame or resumed before it is up.

`ShellUpToDate` is inductive as it stands.

Only model-checked: `UploadEnds`, `DeleteReachesBucket`, `Settles` and
`SpinnerEnds`, as liveness under fairness is out of the prover's reach. Every safety property of a passing run is proved.

## 5. Not modelled

- Authentication and access rules: they decide whether a write is refused, and
  a refusal is an action. `firestore.rules` denies every client write while the
  panel writes as a web client; which rules are deployed the repository does
  not tell.
- The upload worker that CI deploys answers without CORS headers. A panel of
  another origin then sees every put as an error and cannot send a delete; both
  are behaviours of the model, in which they are not permanent.
- Form fields, progress bars, wording, layout; names and paths are abstract.
- `sa()` replacing the files of a batch while the loop runs (`index.html:689`):
  `Publishing` takes any batch, and its properties are about each item.
- Home cards and quotes as the panel saves and the app reads them
  (`home_cards_service.dart:87`, `quotes_service.dart:81`): two formats that
  disagree in one step, whatever the order of events.
- The other caches of `content_service.dart` and the lists of the other screens:
  they load once and filter in memory; nothing clears those caches.
- Liveness of `AppShell` and `HomeLoads`: a load or a fetch ends by its time
  limit, which leaves nothing to show but that.
- The version comparison of `update_service.dart` and the tabs of the shell.
- PDF viewer, images, static screens, unused services, older panel, builds.
- Of the vendored code only the Firestore client's write path, on which the app
  relies for its submissions. Listeners, transactions, overlays, gRPC and
  BoringSSL are used as they are. These pods are nearly all of the repository's
  1.2 million lines of implementation, so the modelled lines are a small share
  of them. They hold the code of the app, the panel and the worker in which
  several actors, or several calls of one, share state.

## 6. Plan

1. `Outbox` for itself: what its users may conclude from it alone (first
   arrivals in the order of writing, nothing told before it arrived), as
   theorems about the abstract specification that `ClientIsOutbox` carries over.
2. The audio session's listeners of a screen that has been disposed of
   (`audio_screen.dart` 81, 95, 188), which go on commanding its player beside
   those of the next one.
