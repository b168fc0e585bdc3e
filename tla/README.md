# A TLA+ verification of MemoArk

MemoArk is a self-hosted note service: a Go server over SQLite, MySQL or Postgres, and a React client
(browser, Windows shell, Android shell). This directory holds TLA+ modules that model the parts of it where
a mistake loses, duplicates or locks away a user's notes, the TLC runs that check them and the TLAPS proofs
about them. Paths are relative to the repository.

## 1. Inventory

| Component | State | Operations | Talks to | What makes it correct | Module |
|---|---|---|---|---|---|
| Memo editor (`web/src/components/MemoEditor`) | text, request id, delivery state, save in flight; one localStorage entry and one debounce timer per draft key | mount/recover, type, autosave, flush on hide and unmount, save, retry, reconcile, reset | memo service over HTTP; other mounts through the draft key | one note becomes one memo; nothing typed is lost while a save is uncertain; "saved" is true | `MemoEditor` (composing) |
| Memo service, save path (`server/router/api/v1/memo_service.go`) | memo rows | create, comment, get, update | store | idempotence under a client-chosen id; no half-made comment reported as done | `MemoApi` |
| Migration (`store/migrator.go`, `store/db/sqlite/backup.go`) | schema, recorded version, backup directory | initialise, check, back up, migrate, record, seed | database, file system | never skip a migration, never serve on an incomplete schema, never change SQLite data without a verified backup | `Migrator` |
| SSE hub and handler (`sse_hub.go`, `sse_handler.go`, `server.go`) | clients, closed flag, 32-event channels, streams | subscribe, broadcast, drop, unsubscribe, close, shutdown | every handler that changes a memo; browsers | no panic, no orphan client, every handler returns; in-order, at-most-once delivery of permitted events | `SSEHub`, `EventStreams` |
| Live refresh (`useLiveMemoRefresh.ts`, React Query) | connection of the effect, resync flag, cached answers | mount, connect, read events, retry, resync, unmount | hub, memo handlers | what a page shows is current, or something will refresh it, or the loss is one of a known list | `LiveRefresh` |
| User settings (`store/user_setting.go`) | one row and one cache entry per list | read-modify-write of webhooks and tokens | database, cache | cache equals row; no item lost or revived | `UserSettings` |
| Sessions (`auth_service.go`, `connect.ts`, `auth-state.ts`, `AuthContext.tsx`) | refresh-token list, cookie jar, tabs | sign in, rotate, sign out, reload | user settings | rotation always leaves a stored token; the cookie names it | `Sessions` |
| Memo store (`store/memo.go`, `store/attachment.go`, `store/db/sqlite`) | memo, relation, attachment, reaction, share and inbox rows; files | create, comment, attach, relate, react, share, delete, delete user, import | storage drivers | which leftovers a failure or a race can produce, and which not | `MemoStore` |
| Accounts (`store/user.go`, `user_service.go`, `auth_service.go`) | user and identity rows, user cache, first-user mutex | sign up, single sign-on, link, unlink, update, delete | database | one first administrator; a lost first-login race leaves nothing behind; the cache is current | `Accounts` |
| Filter engine (`internal/filter`) | fragment, arguments | render, negate, combine, append | database | the query selects what the filter means; arguments match placeholders | `FilterEngine` |
| Memo lists (`ListMemos`, `useInfiniteMemos`) | pages and page tokens | first page, next page, refetch | filter engine, memo rows | nothing missed or repeated without cause | `MemoList` |
| Browsing filters (`MemoFilterContext.tsx`, `RootLayout.tsx`, sidebar) | filters in React state, in the address and in the browser's history | click a tag, a day, a word, a shortcut; follow a link, go back | memo lists | after every click, page and address show the filters that were clicked | `BrowseFilters` |
| Sign-in flow (`AuthContext.tsx`, `auth-state.ts`, `AuthCallback.tsx`, `utils/oauth.ts`) | token and user of each tab, the shared stored token and cookie, OAuth state in sessionStorage | sign in, sign up, sign out, OAuth to sign in or to link, broadcast between tabs | accounts, identity provider | a tab acts for the user it shows; a link belongs to who started it; a flow is used once | `SignInFlow` |
| Lists of the settings (`components/Settings`, `pages/Shortcuts.tsx`, dialogs) | the list shown, dialog and confirmation, calls under way | open, fill in, dismiss, save, delete, archive, restore | user and instance services | the list ends in what is stored; one submitted form makes one entry | `SettingsLists` |
| Instance settings (`InstanceContext.tsx`, sections, `instance_service.go`) | stored setting, context, local copy per section | load, edit, save, add or remove a provider | instance service, second administrator | a save changes what its user edited; the context ends in what is stored | `InstanceSettings` |
| Memo export (`memoExportService.ts`) | two listings read page by page | list, save the file | memo service | every memo once, unless it was moved meanwhile | `MemoExport` |
| Memo import (`MemoImportDialog.tsx`, `memo_import_service.go`) | chosen file, preview, result | choose, preview, confirm, import | memo store | what is imported is what was previewed | `ImportDialog`, `MemoStore` |
| Inbox (`Inboxes.tsx`, `components/Inbox`, `user_service.go`) | notification rows, lists shown | list, archive, delete | memo service | no unread, readable message is deleted | `Inbox` |
| Memo cards (`useMemoQueries.ts`, `useReactionActions.ts`, `TaskListItem.tsx`) | cached copies of a memo | pin, archive, tick, delete, react | memo service, live refresh | the card ends in what is stored; what was clicked stays visible | `MemoMutations` |
| Voice notes (`useAudioRecorder.ts`, `AudioRecorderPanel`, transcription) | recorder, microphone, panel, note | record, stop, cancel, transcribe, save | browser, AI service | a finished recording ends in one note; the microphone is on only with its panel | `VoiceNotes` |
| Attachments of a note (`AttachmentListEditor.tsx`, `uploadService.ts`, `media-item.ts`) | attachments and local files, items shown, preview | choose, move, remove, preview, upload, save | attachment service | what the list shows is what is saved; a preview shows what was clicked | `EditorAttachments`, `MediaItems` |
| Location and links of a note (`useLocation.ts`, `useReverseGeocoding.ts`, `useLinkMemo.ts`, `memo_relation_service.go`) | form and lookups; relations of the note | choose a place, look up its name; search, link, unlink, save | geocoder, memo service | a looked-up name belongs to the chosen place; a save stores the links shown | `NoteLocation`, `NoteLinks` |
| Attachment library (`Attachments.tsx`, `useAttachmentQueries.ts`, `attachment_service.go`) | pages loaded, a removal under way | load more, delete all unused | attachment rows | everything is shown; success means that what was listed is gone | `AttachmentLibrary`, `MediaItems` |
| Everything else | | | | | not modelled, section 8 |

The hard behaviours are: replies lost after the server has acted, retries and reloads that repeat a request,
requests that arrive after their caller gave up, timers and continuations of a closed editor that touch state
now used by another, streams that drop events, read-modify-write of cached lists without a lock, cascades of
statements without a transaction, and a process that dies between two statements that belong together.
`PROJECT.json` lists them one by one under `hazards`, each at its line.

## 2. Plan

Modelled, checked and, but for liveness, proved: `MemoApi` + `MemoEditor`, `Migrator`, `SSEHub` + `EventStreams` +
`LiveRefresh`, `UserSettings` + `Sessions`, `Accounts`, `MemoStore`, `FilterEngine` + `MemoList`, and of the web
client `BrowseFilters`, `SignInFlow`, `ImportDialog`, `MemoExport`, `Inbox`, `InstanceSettings`, `SettingsLists`,
`NoteLocation`, `NoteLinks`, `VoiceNotes`, `MemoMutations`, `EditorAttachments` and `AttachmentLibrary`.

Compositions: `MemoEditor` extends `MemoApi`; `LiveRefresh` extends `SSEHub` and shows that it implements
`EventStreams`; `Sessions` extends `UserSettings`; `MemoList` extends `FilterEngine`; `EditorAttachments` and
`AttachmentLibrary` extend `MediaItems`, which like `NoteLinks` is built from the array methods of `ArrayOps`.

Every safety property of a run has a theorem; the exceptions are the two that a run refutes, and liveness (section 7).
Worth modelling next: the editor's edit path with its conflict notice, and start and stop of the server inside the
desktop and Android shells.

## 3. The modules

**`MemoApi`** is the memo table and the four handlers of the save path. A row is known by the client's id (the
unique `uid`); `text` stands for everything the editor sends. A handler is one step with an outcome: `ok`,
`exists` (AlreadyExists), `memo` (the reply of GetMemo), or `rejected` (any other error). No handler runs in a
transaction, so `rejected` may leave the row behind; for a comment the row (`linked = FALSE`) may exist without
its relation.

**`MemoEditor`** is one browser page. `ed[i]` is one mount of the component together with its suspended
`handleSave`; `storage` is the localStorage entry, `timer` the debounced write, `wire[i]` the call the save
awaits, `late` the requests whose caller is gone. Code between two awaits, with the React effects its state
changes trigger, is one action:

| Action | Code |
|---|---|
| `Mount`, `Recover` | `useMemoInit` (create branch) and the effect that adopts request id and pending state |
| `Type`, `PageHidden`, `Unmount`, `TimerFires` | `useAutoSave` effects and `flushDraft`, `cacheService.save` |
| `StartSave` | `handleSave` up to the first await: id, `saveNow` as pending, request |
| `OnSaved`, `OnExists`, `OnMemo` | `memoService.save`, `saveExistingMemo`, then `ConfirmSave` |
| `OnRejected`, `OnNetworkError` | the catch block, by `classifySaveError` |
| `FinishSave` | after the query invalidation: reset (home) or closed by the parent (comment) |
| `Serve`, `ServeLate`, `PageLost` | network, server and browser (external) |

A *note* (a number) is what the user set out to write. It is not in the code; `owner`, `idOf`, `confirmed`
and `unkept` are history variables that only the properties read, except that `owner` makes `generateUUID`
return ids that were not used before.

**`Migrator`** is one process at a time on one database. `proc.pc` names the statement that comes next; `Stop`
and `Start` model crashes, failing statements, shutdowns and restarts by another release. Versions are numbers,
0 being the empty one; migration *v* leads from schema *v*-1 to *v*. `Rerunnable` says which migration files
succeed when the schema already has them. On MySQL each schema change commits at once; elsewhere the
transaction keeps them.

**`SSEHub`** has one slot per connection: the handler goroutine (`none`, `headers` flushed, `loop`, `leaving`), its channel
(`buf`, `chanClosed`), the bytes on the way (`wire`) and whether the connection is up. Operations under the write lock are
single steps enabled when no sender is in the loop of `Broadcast`, which visits the clients in any order, one step each.
`Shutdown` stops listening, closes the hub, waits for the handlers and closes what is left. Sending on or closing a
closed channel sets `panicked`. **`EventStreams`** is the promise: a bounded queue per stream that starts empty, accepts
permitted events in order or not at all, and is read once.

**`LiveRefresh`** adds the memo handlers (commit, then announce, with a failure possible in between), one run of the
effect of `useLiveMemoRefresh` per element of `Effects`, and the queries on the page. `Changed` says which answers a change
makes different, `EventOf` the event the handler sends, `handleSSEEvent` what the tab invalidates. `Unannounced` lists the
gaps between the two; the assumption `GapsAreListed` of `MCLiveRefresh` makes TLC verify the list for every kind of
change. The history variables `unheard` and `untold` record news lost on its way and news that is never sent.

**`UserSettings`** is one list-valued setting. A request is a sequence of operations (`need`, `add`, `remove`, `update`), each
of which gets the list from the cache or the row, writes the row and then the cache; `update` changes the cached object
in place first, as the Go code does through the shared pointer. **`Sessions`** runs the operation sequences of SignIn,
RefreshToken and SignOut on it and adds the tabs, the shared cookie, lost replies, reloads and restarts.

**`MemoStore`** and **`Accounts`** keep, per goroutine, the statements its request has still to execute; a statement may put
others in front of the rest, as the body of a loop does. `StatementFails` ends a request at any statement the way its
handler does (a best-effort step is skipped), `Crash` ends all. In `MemoStore` the history variables `late` and `cut` name
rows written after their target was gone and removals that stopped half way: the invariants say that nothing else is
ever left over. `Accounts` has the mutex of `CreateUserIfNoUsers`, the unique constraint on identities and the user cache.

**`FilterEngine`** renders a filter on a stack, in the order the recursive renderer visits the tree; a fragment is the truth
value (true, false, NULL) it has for each memo, together with the placeholders it contains. `means` is what the CEL
expression says. **`MemoList`** runs ListMemos with such a clause and keeps the pages of the infinite query.

The other modules follow the web client. Each has the state of a component or context, the calls under way and the part of
the server they reach; a continuation after an await is an action of its own, and answers come late, in any order, or never.

- **`BrowseFilters`**: the filters live in `MemoFilterProvider` and in the address. `RenderFilters` and
  `RenderRoute` are one React rendering each, with all its effects (`Adopts`, `SyncToUrl`, and `Clears` of `RootLayout`), which
  see the filters that were rendered, not those an effect before them has just set.
- **`SignInFlow`**: a tab has a document (`phase`, `page`, `shown`, `token`) that a navigation to the identity provider throws
  away, and a sessionStorage entry that survives it. Tokens are the user they belong to. Tabs tell each other of a new
  token through a channel with its own delay (`inbox`).
- **`SettingsLists`**: one of five lists per behaviour. What differs between them (whether the list is fetched again or
  corrected in place, whether the dialog waits) is in the parts of `FormSaved` and `EntryChanged`, taken from each section's handler.
- **`InstanceSettings`**: one of six settings per behaviour, a value per part of it. `Resolve` is what UpdateInstanceSetting does
  with a credential that was left empty.
- **`MemoExport`**: the NORMAL and ARCHIVED listings advance independently, while memos are created, archived, restored,
  deleted and re-dated. **`ImportDialog`**: file, preview and import, with pages left while a call runs.
  **`Inbox`**: several pages whose lists may be old.
- **`MemoMutations`**: `row` is the stored memo, `data` the copies React Query holds; `OnMutate`, `OnError` and `OnSuccess` are
  the callbacks of `useUpdateMemo`, and events of the hub start refetches.
- **`VoiceNotes`**: `startRequestId`, `recorder` and `mode` are the refs of `useAudioRecorder`; permission, the recorder's stop
  event, transcription and save are separate steps.
- **`MediaItems`** says how the files of a list become items (a live photo is one item of two files), used by
  **`EditorAttachments`** and **`AttachmentLibrary`**. **`ArrayOps`** has JavaScript's `filter` and `sort` and lodash's `uniqBy`, with
  the predicate or the keys given as a set or a function. **`NoteLocation`** has the debounced lookup of a place's name, **`NoteLinks`** the save of a note's
  relations over the rows of both directions.

`MC*` modules instantiate these for TLC; the `*Proofs` modules hold the proofs: `MemoEditorProofs`, `MemoStoreProofs`,
`ServerProofs` (`Migrator`, `SSEHub`, `LiveRefresh`), `UsersProofs` (`UserSettings`, `Sessions`, `Accounts`),
`MemoListProofs` (`BrowseFilters`, `FilterEngine`, `MemoList`), `WebSettingsProofs` (`Inbox`, `ImportDialog`,
`SignInFlow`, `InstanceSettings`, `SettingsLists`, `MemoExport`) and `WebNotesProofs` (`NoteLocation`, `VoiceNotes`,
`MemoMutations`, `NoteLinks`, `EditorAttachments`, `AttachmentLibrary`). `ListLemmas` has the facts about lists and
orders that the last three rest on.

## 4. Abstractions

- Attachments, visibility, timestamps and relations of a memo are part of `text`; attachment-only notes, which the
  draft cache does not keep, are left out. With that, `matchesPersistedEditorState` is equality of texts, and the
  "no changes detected" exit of `handleSave` cannot be taken while composing.
- One draft key. Editors of different keys share nothing but the server.
- React runs the effects of a state change before the next task; the model makes that atomic.
- A migration file, LATEST.sql and the set of seed files are one statement each. On MySQL a crash inside LATEST.sql
  can leave some of its tables; every later start then fails, as it does after `ApplyLatest` without `LabelFresh`.
- The hub's channel has capacity 1 in the runs instead of 32; the properties do not depend on the number. Heartbeats are left
  out: they only let a handler find out that its connection is gone, which `LeaveDead` does at any time.
- The delay of the retry timer and of every other timer is arbitrary.
- Refresh tokens are ids; access tokens, signatures and expiry times are abstracted, so a signed-in tab may refresh at any
  time. Webhooks and personal access tokens are items of one generic list, whose version says whether it was edited.
- `MemoStore` is SQLite, where one writer runs at a time and the import holds the lock for its whole transaction. Groups
  of motion-photo attachments, the read status of inbox rows and update masks with several paths are left out. A storage
  error is only logged for an S3 object or after DeleteUser (`StorageFails`) and ends the request for a local file
  (`StatementFails`).
- One identity provider; usernames, passwords and profile fields are left out of `Accounts`.
- `FilterEngine` abstracts content to a set of words and a tag to a sequence of name parts. Memos updated in place do not
  move within a list in `MemoList`.
- `BrowseFilters` renders a change of the filters before a navigation's transition, as React orders them; without that order
  two stale renderings could answer each other for ever. Days, words and tags have one value each. The empty
  parameter `?filter=` and the factors that only a typed address can contain (pinned, visibility) are left out.
- A behaviour of `SettingsLists` or `InstanceSettings` follows one list or one setting; they share only the dialogs' code.
- `MemoMutations` has one memo with two tasks; a query is its detail page or one of two lists. The back-off before a retry is
  any delay.
- Recordings, files and thumbnails are opaque; a name of a place stands for the geocoder's answer.
- `MemoExport` and `AttachmentLibrary` number memos and files in the order the server lists them (the server ignores
  the order the library asks for).
- `CopyDatabase` may produce a damaged file without an error, which only the integrity check finds.

## 5. Runs

| Run | Result | What it shows |
|---|---|---|
| `editor_single` | holds, 136 thousand states | one editor, two notes or two comments, two texts, three ids: `DraftFollowsEditor`, `ConfirmedTextStored`, `ConfirmedNoteComplete`, and under `FairSpec` `RetryDelivers` |
| `editor_overlap` | holds, 1.06 million states | a closed editor's save beside a remounted editor, one late request, failing localStorage: `AtMostOneMemo`, `OwnMemoOnly` |
| `comment_stale_draft` | violated | a confirmed comment is offered again as a draft |
| `migrator` | holds, 126 thousand states | `RecordedNotAhead`, `ServesCompleteSchema`, `NoPartialUpgrade`, `BackupOfPendingUpgrade`, `MigratesAfterBackup`, `VerifiedBackupKept` |
| `migrator_fresh_crash` | violated | a crash during the first start makes a new database look like a pre-0.22 one |
| `live_refresh` | holds, 160 thousand states | hub: `NoStrayChannel`, `HandlersReturn` and the refinement `HubIsLossyStreams`; page: `StaleIsAccounted`, `ReconnectHeals` |
| `user_settings` | holds, 3.1 million states | `SettingsConsistent`: requests that do not overlap are safe, whatever fails or is evicted |
| `users` | holds, 1.9 million states | sessions: `SessionSurvives`; accounts: `RacesSettle`, `CachedUserIsCurrent` |
| `memo_store` | holds, 1.05 million states | `NoDanglingRow`, `CommentStaysComment`, `RowsMatchContent`, `ImportIntoEmpty` |
| `memo_list` | holds, 1.4 million states | `QueryMeansFilter`, `PagesFaithful`, `FiltersFollowClicks` |
| `web_settings` | holds, 1.7 million states | `TabsActForTheirUser`, `ListsSettle`, `FormsSaveTheirEdits`, `ExportFaithful`, `ImportAsShown`, `NoUnreadLost` |
| `web_notes` | holds, 2.6 million states | `CardsSettle`, `RecordingsEndInNote`, `ListIsWhatItShows`, `NameOfPlace`, `LibraryFaithful`, `SavesChosenLinks` |

**Runs of several components.** `MCUsers`, `MCMemoList`, `MCWebSettings` and `MCWebNotes` hold components that share no state. A
variable `focus` names the one that moves in a behaviour while the others rest in one initial state, so the number of states is
the sum, not the product, of theirs, and each property says of its component what a run of its own would say.

**Properties made of parts.** A property that names one promise of a component may be a conjunction:

| Property | Parts |
|---|---|
| `DraftFollowsEditor` | `InFlightRecoverable` (a note whose save is uncertain is still in the editor or the draft) and `EmptyEditorNoDraft` (an emptied editor does not get its text back) |
| `NoStrayChannel` | `NoPanic` (no send on or close of a closed channel) and `NoOrphanClient` (every registered client has a handler that will remove it) |
| `SettingsConsistent` | `CacheIsRow` and `NothingLostOrRevived` |
| `SessionSurvives` | `RotationKeepsASession` (always) and `CookieIsLive` (while nothing is lost and no two writes overlap) |
| `RacesSettle` | `OneFirstAdmin`, `NoOrphanUser`, `SignsInAsLinked`, `LinkedUserExists` |
| `QueryMeansFilter` | `SelectsByMeaning` and `ArgumentsInOrder` |
| `TabsActForTheirUser` | `LinkedByStarter`, `FlowUsedOnce`, `ActsAsShown` |
| `ListsSettle` | `ListIsStored` and `OneEntryPerForm` |
| `FormsSaveTheirEdits` | `SavesOnlyItsEdits` and `ContextIsStored` |
| `CardsSettle` | `ShownIsStored` and `OptimisticStays` |
| `RecordingsEndInNote` | `FinishedRecordingKept` and `MicrophoneHasPanel` |
| `ListIsWhatItShows` | `FilesKept` and `PreviewShowsClicked` |
| `LibraryFaithful` | `LibraryShowsAll` and `SuccessMeansGone` |

`DraftFollowsEditor`, `ConfirmedTextStored` and `ConfirmedNoteComplete` are checked with one
editor at a time and working localStorage, as they should be: with a closed editor's save running beside a new editor
the shared entry is overwritten (section 6), and a failed local write is reported to the user as such.

Several invariants are of the form "it is right, or a request under way will make it right, or one of these losses
happened". The losses are history variables set only at the step where the code loses something, so the invariant says that
the code has no other way to go wrong; the exceptions themselves are listed in section 6.

**Bounds.** *Editor*: two texts are enough for a retry to differ from the first attempt; two notes for one to be mistaken for
the other; three ids for a note to use one more id than it should; two editors for one to be closed with its
save pending; one late request to arrive after a later attempt. *Migrator*: a database too old, one at the
minimum and one current; releases two migrations apart, so that a transaction can stop in between; four starts, so
that a failed upgrade can be followed by the old release, another attempt and a serving process. *Live refresh*: two
connections, so that a tab can reconnect while the old handler still runs; one buffered and one unread event, so that a
second one is dropped; two changes and one fault, so that a fault falls between two changes. *User settings, sessions*: two
requests at once, as the races need no third; three token ids, so that a token is rotated twice. *Memo store*: two memos
to begin with and one more, one attachment, two requests, one failure. *Accounts*: three users and two external accounts for
two racing first logins beside an existing user. *Lists*: four memos that differ in what the conditions ask, three
conditions for nested negations, pages of two and two changes. *Filters of the page*: four clicks, so that a link, a click
before it is rendered, and a step back can meet. *Sign-in*: two tabs and two users, two sign-ins and two round trips,
so that one tab changes user while the other is at the provider. *Settings*: two dialogs or saves and one mishap, so that a
dialog is opened again while the first answer is out; two events beside two saves for a foreign save in between. *Export*:
pages of one memo, three memos and two changes, so that a change falls between any two pages of either listing (with four
memos, 4.4 million states, it holds as well). *Import*: two good files, a bad and a foreign one, five choices, two
troubles. *Inbox*: two pages of one message, which do not share their lists. *Cards*: two clicks and two faults, so
that the failure of one click meets the success of the other. *Voice*: two recordings and two notes, so that a late result can
meet the wrong note. *Attachments*: an image and a video that can form a live photo. *Location*: three places, two in one
street, two openings, so that an answer meets another place or another opening. *Links*: two searches, four changes and two
saves. *Library*: pages of two, chunks of one, three to five files of every kind, two changes elsewhere, one failed request.

Runs with a bounded number of requests, starts, token ids or changes check no deadlock, because the system rests when they are
used up. Ids, users, tabs, memos and goroutines are interchangeable, so safety runs use symmetry where it helps; the runs
with liveness properties do not.

**Fairness** (`FairSpec`, used by `editor_single`). The user presses Save or Retry again and again while
there is something to send; the server, tried often enough, accepts every kind of call it can accept (strong fairness on
`Accepts`); a reply is often enough not lost (strong fairness on `OnSaved`, `OnExists`, `OnMemo`); the page runs its
continuations. Nothing is assumed of the user's other actions, of reloads or of errors, which may recur for ever.
The code has no retry of its own, so the user's persistence is part of the property, not of the code.
`LiveFairness`, used by `live_refresh`, is weak fairness of every goroutine, of the tab's event loop and timers and of the
answers to its queries: the Go scheduler, the browser and a server that is up give it. Users, faults, disconnections and the
shutdown are not fair.

## 6. Findings and known gaps

Two runs show what the code does where a comment says otherwise (`PROJECT.json` quotes it):

1. **Confirmed comments come back as drafts.** `discardDraft` clears the timer, but the state changes right after it
   re-run the autosave effect, which arms the timer again; the comment editor closes and the timer writes.
2. **A crash during the first start** between LATEST.sql and the version record leaves a database that no start accepts.

The models contain further gaps, as the exceptions of their properties:

- A comment cannot be retried after a lost reply: `CreateMemoComment` turns AlreadyExists into Internal, and the client
  reconciles AlreadyExists only for memos. `RetryDelivers` is therefore checked for memos.
- A closed editor's save clears the entry and the timer that a remounted editor of the same key uses.
- After a crash between the commit of a migration and its record, the next start names its backup after the old version
  although it holds the new schema.
- A page misses a change that is committed between the flushed headers and Subscribe, dropped by a full buffer, or whose
  handler fails after the commit, until the next reconnect; `Unannounced` lists changes no event covers, for example the
  deletion of a comment on an open memo page.
- Overlapping requests of one user lose or revive webhooks and tokens; a failed in-place update leaves the cache ahead of the row.
- DeleteMemo leaves reactions, shares and inbox messages of the memo and does not go down to replies of comments; a crash
  in the cascade can leave a comment without its parent relation.
- A link made while its user is deleted ties the external account to nobody.
- A constant in a filter (`true || content.contains("x")`) drops the other side but not its arguments.
- A refilled user cache can hold an older row until its TTL when a reader and a writer interleave.
- *Saving*: UpdateMemo has no revision, the last writer wins; a failed attempt leaves its uploaded files behind.
- *Filters*: a click while a navigation is not yet rendered can leave an address that differs from the filters; after a
  navigation the effect writes the old filters to the address once, until the next rendering. A day counts memos by update
  time and filters by creation time.
- *Export*: a memo archived or restored while the export runs may be in the file twice, which the import refuses as a
  whole, or not at all; a memo created in the second of the last one read, re-dated or deleted before the next page
  shifts the rest; after another tab signs in as someone else, the rest of the export holds only public memos.
- *Import*: when the answer is lost, the retry is refused as "not empty" although the import was done; leaving the page does
  not stop the import.
- *Inbox*: archiving and deleting do not fetch the list again, and a second deletion fails with NotFound; the list is not
  kept per user.
- *Sign-in*: a failed sign-out leaves the cookie; signing out clears the drafts of the browser.
- *Settings lists*: a save that finishes closes whatever dialog is open by then; a refetch that fails after a creation is
  reported as a failed creation, so that the user creates it twice. *Instance settings*: a section saves its whole setting from
  what was loaded, over another administrator's change.
- *Voice*: permission granted after the editor is gone can leave the microphone on; the end of one transcription closes
  the panel of the next recording.
- *Attachments*: moving an item drops a Photoshop file from the list, since the items leave it out. *Library*: an audio file that
  an API client declares to be half of a live photo is shown in two tabs (the browser makes no such file, and
  `LibraryAssumption` excludes it); an attachment linked between
  the listing and the deletion is deleted; an upload between two pages, or a retried chunk whose first answer was lost,
  makes the removal fail with NotFound after part of it.
- *Location*: the form is empty when a location is edited, and typed coordinates are ignored until a place was chosen.
  *Links*: a comment that links its own parent loses the link; search answers may be those of an earlier text. *Preview*: the
  index of an open preview shifts when the list is fetched again.

## 7. Proofs

A theorem holds for every value of the constants that satisfies the named assumptions of the modules it is about:

| Assumption | What it asks, besides bounds that are naturals |
|---|---|
| `MemoApiAssumption`, `MemoEditorAssumption` | null values are not ids or texts |
| `MigratorAssumption` | versions are naturals, every release is at least the minimum, which is not 0 |
| `HubAssumption`, `LiveAssumption`, `EventsAssumption` | capacities are not 0; every event has a visibility and a creator; the event of a change is an event |
| `SettingAssumption`, `SessionAssumption` | a request has at least one operation; the null value is none of the lists, items, goroutines and tabs |
| `AccountAssumption` | the null value is no user, role or goroutine |
| `StoreAssumption` | users, memos and attachments are finite, memos and attachments apart from each other; the null value is none of them |
| `InstanceAssumption`, `ListsAssumption` | the settings and lists are among those the pages have |
| `LocationAssumption`, `VoiceAssumption`, `SignInAssumption` | places are positive; the null user is no user and no external account |
| `FilterAssumption`, `ListAssumption`, `ExportAssumption` | tags, visibilities, memos and notes are finite; a memo has tags, words, flags and a creation time; limits and page sizes are not 0 |
| `LinksAssumption` | the note is a memo, the name of an unsaved one is none; a search answers with memos |
| `MediaAssumption`, `LibraryAssumption` | files have a kind, and those of the library the month of their upload and a place in a live photo, an audio file none; page and chunk sizes are not 0 |

Every safety proof has the same form: an invariant that is implied by the initial states and preserved by each step,
with one lemma for each action or group of actions that disturb the same parts, and the property as a conjunct or a
consequence. The rest of this section says what each invariant adds to its property, and why it must.

**`MemoEditorProofs`**: `EditorTypeCorrect`, `NoDuplicateMemo` and `RequestsKeepToTheirNote`, from `EditorInvariance`.
`AtMostOneMemo` is not inductive: a second memo comes from a request sent long before, whose id came from a draft or a
timer. The invariant `EInv` therefore follows the id through every place that holds one. Whatever holds a pair of id
and note (mounted or closed editor, draft entry, timer, call, late request, memo row) satisfies `Claim`: the id was
generated for that note, and if the note is undecided it is the id last generated for it. A holder without an id
belongs to a note for which none was generated, unless that note is decided. With that, two memos of an undecided note
carry the same id. Replacing `IdsToSend` by a version that always draws a new id makes the proof fail where it should.

On top of `EInv`: `ConfirmedNotesAreComplete` adds what a call tells while its editor waits (`CompleteInv`: an answer
that counts as saved is about a stored row, for a comment one with its relation). `DraftsFollowTheEditor` adds that
the entry, and the write that a timer still holds, are the draft of an editor whose persisted save waits (`DraftInv`).
`ConfirmedTextIsStored` adds that the row under the id has the text of the call (`TextInv`). The last two state their
hypotheses: `OneEditor`, and for the text also `MaxLate = 0`. They are the conditions under which the run
`editor_single` checks these properties, and without them the properties are false of the code: a closed editor's save
overwrites the entry of the next editor, and a late UpdateMemo changes the row after the answer.

**`ServerProofs`, the migration**: `MigratorTypeCorrect`, `RecordedNeverAhead`, `ServesComplete`, `UpgradesAreWhole`,
`BackupsArePending` and the action properties `BackupComesFirst` and `VerifiedBackupsStay`, from `Invariance`. `IInv`
says what a process knows at each step: its backup slot is unverified until `ValidateBackup` (`SlotInv`), the
transaction's tables are the disk's or end in the migration just run (`UpgradeInv`), a process past the backup on
SQLite has a verified copy of the present tables (`BackupInv`), and a process past the commit has all of its
migrations (`DoneInv`).

**`ServerProofs`, hub and page**: `HubIsSafe` and the refinement `HubImplementsStreams`, both repeated for the hub
with the tab on top (`LiveHubIsSafe`, `LiveImplementsStreams`), and `StaleNewsIsAccounted`. `HubInv` adds to
`NoStrayChannel` that a registered client's channel is open and that its handler, if it is about to unsubscribe, has
lost its connection: a handler leaves the loop for a dead connection or a closed channel, and a closed channel means
that the client was removed. The refinement maps the queue of a stream to what is on the wire followed by what its
handler can still write; dropping a client, closing the hub and losing a connection cut that queue, which
`EventStreams` allows, and the proof needs `HubInv` to know that a stream starts empty. For the composition,
`LiveSpec` implies `HubSpec`: each step of tab and handlers is a step of the hub or leaves its variables alone.
`StaleNewsIsAccounted` needs the places where news of a query can be: a handler that has committed and not announced,
a sender's loop, a channel, the wire (`NewsPending`, `NewsOnStream`). A step moves news from one place to the next
(`NewsMoves`), gives it to the tab, or records its loss.

**`UsersProofs`, settings and sessions**: `SettingsStayConsistent` for any programs of list operations,
`TokensStayConsistent` for the handlers of sessions, and `SessionsSurvive`. `SettingInv` adds, while no two requests
have overlapped and no in-place update has failed, that a request about to write has read the items of the row and
that the cache has them, except between row and cache. For the sessions, a handler's remaining operations are a suffix
of its program (`TodoInv`), a rotation that goes on to its removal has stored the new token (`RotateInv`), and a token
id is generated once and belongs to one cookie jar (`FreshInv`), so that only its own handler removes a token on its
way to the cookie (`QuietInv`).

**`UsersProofs`, accounts**: `AccountRacesSettle` and `CachedUsersStayCurrent`. The remaining statements of a request
have one of a few shapes (`PlanOf`): a cache entry is written by the next statement, the link of a provisional user by
the last one. A user id that a request may still create is its own and unused (`FreshInv`), and the holder of the
mutex about to create the first administrator has seen no other (`FirstInv`). Each statement guarantees (`Guarantee`)
that it leaves other plans alone, creates no user but its own, and drops a provisional user only when it is linked,
deleted or recorded as cut short.

**`MemoStoreProofs`**: `StoreIsTyped`, `ImportsFindEmptyAccounts`, `RowsAndContentAgree`, `CommentsStayComments` and
`NoRowDangles`. Here a statement may put any number of others before the rest of its request (a cascade down a tree of
memos), so plans are sequences without a bound. `CameFrom` says where each statement of the new plan stood in the old
one, `Replaced` and `Produced` what a statement can put in its place, and `Before` which statement precedes another.
The invariants then speak of *all* plans:

- `ImportInv`: an import between its look at the account and its rows holds the write lock, and nobody else writes a memo meanwhile.
- `FileInv`: for each attachment not recorded as cut short, content is removed before its row, and what is stored has a row, or a
  statement under way will give it one or remove it. Ids of uploads have no row and no remover.
- `ComposeInv` and `CommentInv`: the one request an id was given to writes a memo before it ties it to a parent; the
  deletion of a parent deletes a comment before it unties it (`UntiesLast`), unless the tie was written while the parent was going.
- `MemoRowInv`: when the statement that deletes a memo's row comes up, the rows that point to the memo are gone, or
  statements before it remove them, or they were written late.

`StoreAssumption` asks for finite sets because a cascade puts the statements of a set of memos in some order. The rows
a behaviour begins with are any rows that earlier requests can leave (`Holds`).

**`WebSettingsProofs`**: `NoUnreadMessageLost`, `ImportIsAsShown`, `TabsActAsTheirUser`, `SavesKeepTheRest`,
`ListsSettleAlways`, `ExportsAreFaithful`. `InboxInv`: what a list shows as read, or a fetched answer says, was read
when it was served and never becomes unread again. `ImportInv`: the dialog waits for one call about the file it shows,
and once the account is filled no preview lets the user go on unless the answer of an import was lost. `SignInInv`:
the entry of a tab names a flow this tab started and nobody used; a call to link is about the user who started its
flow; a tab asks and acts with the token of one user unless it was switched. `SavesKeepTheRest`, from `InstanceInv`:
as long as nothing is excused one exchange is under way, the parts that its form did not edit are what is stored, and
the context is what is stored or the answer under way is; the copy of a mounted form is the context's but for its own
parts. `ListsSettleAlways`, from `ListsInv`: `ListsSettle` speaks of the moment when nothing is under way, so
`Settling` says what is still to come before it. A read not yet served will bring everything; an answer older than the
list will be recorded as crossed; an answer that is good, if only good ones can be shown after it, settles the list;
and the list and all answers may be good already. Good is what is stored, but for deletions whose reply takes them out
of the list. For `OneEntryPerForm`: a form has one save under way, and once it has created its entry, the answer that
closes the form is still to come (`SavingInv`, `MadeInv`). `ExportsAreFaithful`, from `ExportInv`: the memos that a
listing has read are those that stand before its next offset in the order of the table *now*, not when they were read
(`Collected`). A change elsewhere moves the places of others by at most one; if a memo crosses the offset, the one
that moved it was itself before the offset and left it, or came to be there, and that is what `entered` and `left`
record (`ReadIn` and the lemmas on it).

**`WebNotesProofs`**: `FormNamesItsPlace`, `VoiceNotesArrive`, `CardsSettleAlways`, `SavesTheChosenLinks`,
`ListsAreWhatTheyShow` and `TheLibraryIsFaithful`. `LocationInv`: the name on display is of the place looked up last,
a timer runs while the form has moved on from it, and a name is missing only while its lookup runs. `VoiceInv`: a
request number names one recording; a recording that is over is in at most one of the note, and the notes saved, and
in one of them unless a mishap the property names happened (`Placed`, `Found`); one under way to which nothing
happened is the latest request and its panel is shown (`InPanel`). From `Placed`, the saved copies of a recording form
a set with at most one element, which gives their number. `CardsSettleAlways`, from `CardInv`: when no event is on its
way, an answer to a query is what is stored (`Fresh`). A copy that is shown without a fetch (`Settled`) then is what
is stored, if no click is under way; if the one click under way may be rolled back without excuse, what it remembers
is what is stored and the rollback brings the copies there (`Revertible`). Two clicks under way excuse each other's
rollback (`Overlap`), and a click to which nothing happened leaves no fetch to undo it (`Steady`).

`SavesTheChosenLinks`, an action property, from `LinksInv`: what is in the editor is a chosen link, the tie of a
comment to its parent or a relation of another note, and every chosen link but that to the parent is in the editor, so
that a save can leave neither out. `ListsAreWhatTheyShow`, from `MediaInv`: a file is in one place of the note; what
is wanted and not in the note is a Photoshop file. A move exchanges two items, so the note afterwards is what the
items cover: they share out the files among them (`Apart`, `Within`), which rests on the lemma that
`buildAttachmentVisualItems` gives each file but a Photoshop file to exactly one item (`VisualItemsShow`).
`TheLibraryIsFaithful`, from `LibraryInv`: pages read while the table was at rest are its consecutive sections
(`PagesInv`), so that the last page completes the table, and the tabs share it out: sorting, filtering by kind, making
items and grouping by month keep every file once. For the removal, `RemovalInv` counts. While the names are listed,
the unlinked files that stand before the next offset, were there at the confirmation and are not among the names
(`Passed`) are at most `slipped`: an upload moves the others back, never forward; a file that leaves the list moves
the others forward by one place, so that at most one crosses the offset, and is counted (`MissedMoves`). When the
listing ends every unlinked file is before the offset, so those of the confirmation that were not named (`Left`) are
as few, and no later step adds to them.

**`MemoListProofs`**: `FiltersFollowTheClicks`, `QueriesMeanTheirFilters` and `PagesShowTheList`. `BrowseInv`: every
state between a click and rest is one of four phases (`Changing`, `Writing`, `Moving`, `Arriving`), which say where
the filters of the click are by then: queued, rendered, in the address; and `Rank` says that each number of renderings
since the click leaves at most so many to come, which bounds them by four without a fairness argument. `FilterInv`
gives the property for every fragment of the stack, not only the clause: what a fragment selects, its placeholders in
order, and for the fragments that the renderer treats as constants, that they answer the same for every row and hold
no placeholder (`ConstantSays`). `Block` writes the placeholders of a fragment as consecutive numbers; a combination
joins two neighbouring blocks. `PagesInv` says of the list on the page, and of one being fetched again, how they
relate to the rows that the query selects *now*: with no insertion what is seen stands before the offset, with no
deletion what stands before it is seen, in the query's order (`PagesOk`).

**`ListLemmas`** has what these proofs say of lists for any number of elements. The library's induction takes a
predicate as a parameter; `NatSetInduction` and `ListSetInduction` state induction for a *set*, from the theorem that
`<` is well-founded, and a proof uses them with the set of the numbers or lists that have the property. Flattening,
picking, `uniqBy` and sorting follow by it: what they return, keep and order. An order is a set of pairs; `Place`
counts the elements ahead, and the sorted list of a set puts each element at its place (`Sorted`), a page holds the
elements of its places (`SortedSection`), and a list without its linked files keeps the order of the rest
(`FilterSorted`). `SelectSeq` and `SortSeq` of the libraries take an operator, which the prover cannot look into;
therefore `ArrayOps` writes filter and sort with sets and functions, and `MemoList` its order by places.

Proving changed three definitions that TLC accepted. `SqlAnd`, `SqlOr` and the reply of a session's handler were CASE
expressions with overlapping arms, of which TLC takes the first and the logic any; they say now which arm they mean.

The type invariants `MemoTypeOK`, `TypeOK` and `StoreTypeOK` are proved and not among the properties of a run; every
run would repeat what holds for all instances.

**Only model-checked.** The liveness properties `RetryDelivers`, `ReconnectHeals` and `HandlersReturn`: liveness under
fairness is out of the prover's reach. `ConfirmedNotReoffered` and `EmptyVersionMeansLegacy` are what comments say and
a run refutes.

## 8. Not modelled

- The editor's edit path (edit drafts, conflict notice) and attachment-only notes.
- Markdown and payload engines and the parser of export files: functions of strings. Storage drivers, file server and motion
  photos: bytes. Webhooks, e-mail, identity providers and AI clients: calls to outside services. RSS, MCP and frontend
  routers: adapters without state. The desktop and Android shells.
- Of the web client: rendering of content, layout, calendars, maps and players, sharing as an image, the order in which
  `PagedMemoList` sorts on the client, generated clients and message types except where they are the state or the request of a
  modelled operation.
- The scheduler and the cron library, which no package of the server imports.
- The counter and the eviction order of the TTL cache: the models let an entry disappear at any time, which covers every
  outcome. The instance-setting cache works like the user cache.

About a third of the implementation's lines are mapped. Most of the rest are generated message types, markup and
translations of strings, which have no behaviour to model.
