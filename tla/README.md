# A specification of Quillit

Quillit is a writing tool for game masters: a web application and a command line
for projects of markdown *entries*, with a live *Game Mode* in which the members of
a project chat. It runs as four Go services (`svc`, `auth`, `content`,
`messaging`), each a single process on a SQLite database of its own, with MinIO
for the bodies of entries, a Vue front end and a CLI. These modules specify in
TLA+ what the code does where several requests, goroutines, processes or failures
meet; TLC checks them on small instances and TLAPS proves the central
properties for all.

## Inventory

| Part | State | Operations | Talks to | What is hard | What makes it correct |
|---|---|---|---|---|---|
| svc chat hub (`svc/internal/ws`) | rooms, connection counter, a bounded queue per connection, two goroutines each | register, unregister, broadcast, send to one, close room | handlers (calls), browsers (sockets) | evictions, closes and pump exits in any order; full buffers; leaks | no lost message, no send on a closed channel, exact counter, pumps end |
| svc Game Mode (`handler/chat_ws.go`, `game_sessions.go`) | `game_sessions`, `chat_messages` rows; the rooms | start, stop, open a socket, post, share a card, history | hub, SQLite, content | database and memory change in separate steps; handshakes in flight; crashes | history and room agree; nobody stays in a room of a stopped session |
| svc projects (`handler/projects.go`) | `projects`, `project_members`, `project_invites` | create, update, delete, members, invites, join | content (best-effort notification), auth | check-then-act on invites; lost notification | an invite admits one user; content learns of deletions |
| svc sessions (`session`, `middleware`, `handler/auth.go`) | session rows (7 days), a cache of account activity (60 s) | login, logout, authenticate a request | auth | two expiries, a cache, concurrent revalidation | a deactivated account is out within the TTL; a session lasts its TTL |
| svc schema, migration, cutover (`db`, `migrate`, `cmd`) | `user_version`, tables | eight schema steps, content conversion | MinIO, content's database | a crash between two steps; running twice | a rerun completes and loses nothing |
| auth (`auth.go`, `password_reset.go`) | users, reset tokens | register, login, verify, reset | messaging | check-then-act on tokens; two services with clocks and caches of one account | a link that is used, superseded or expired is shut |
| messaging | none | send a mail | SMTP | timeouts | one mail per request |
| content entries (`entries.go`, `assign.go`, `internal.go`) | `entries`, `entry_links`, `entries_fts` rows; a body object each | create, update, move, delete, upload, orphan | MinIO, svc (membership) | blob and row are written in separate steps, from values read earlier | body, hash, links and index describe the same text |
| content import (`importer.go`, `tarball.go`) | as above | dry run, apply | as above | all or nothing over rows *and* blobs; suffixes | a failed apply destroys nothing; no two entries on one path |
| content facets (`facets.go`) | `facets`, `project_facets` rows | add, remove; validation of what is written, creation by an import | SQLite | the vocabulary is read in one statement, bodies are written later | a stored body names known facets, unless one was taken away |
| content membership (`authz.go`) | a cache: fresh 30 s, stale 5 min | is a user a member | svc | outages, late answers | a removed member is out within the bound |
| contentengine (`pkg/contentengine`) | none | parse, filter, index, render | - | nesting of secrets and cards | a player's view shows no secret |
| CLI (`cli`) | a home with settings; a directory of entries with link indexes | init, connect, config, login; create, assign, compile, render, export, push | svc, content | files read and written whole by several processes; indexes judged by their times; delta decided before the import | settings survive; an export bundles what the text says; what changed is pushed |
| UI (`app/ui/src`) | one store with one socket and one message list, panels that come and go | start, stop, refresh, connect, reconnect | svc | late answers of a project that was left; callbacks after close; reconnects | one live handle; each message of the project on screen shown once |

Operations that only read (Status, ListMessages, ListSessions and the like) and
forwarding handlers are not modelled.

## Modules

| Module | Models | Lines up with |
|---|---|---|
| `RoomService` | what the hub promises: members hear each message of their room once and in order | abstract |
| `Hub` | `Hub` and `Client` of `svc/internal/ws` | implements `RoomService` |
| `GameSession` | `ChatWSHandler`, `GameSessionsHandler`, `ProjectsHandler.Delete` | uses `RoomService` |
| `GameSessionProofs` | theorems about `GameSession` | |
| `LiveClient` | `ui/src/api/ws.ts`, `useLiveSessionStore.ts`, `LiveSessionPanel.vue` | the browser's side of `GameSession` |
| `LiveProofs` | theorems about `LiveClient` | |
| `Projects` | `ProjectsHandler`, `InternalHandler.ProjectDeleted` of content | its `known` is what `MembershipCache` bounds |
| `MembershipCache` | `authz.SvcChecker` of content, `ProjectsHandler.InternalMembership` | |
| `MemberProofs` | theorems about `Hub`, and that it implements `RoomService`; about `Projects` and `MembershipCache` | |
| `AuthSession` | `auth/internal/handler/auth.go`, `svc/internal/session`, `svc/internal/middleware` | |
| `PasswordReset` | `auth/internal/handler/password_reset.go` | |
| `AccountProofs` | theorems about `AuthSession` and `PasswordReset` | |
| `SchemaMigration` | the schema versions of `svc/internal/db` and `auth/internal/db` | |
| `ContentMigration` | `svc/internal/migrate` (paths, run, cutover), `cmd/migrate-content`, `cmd/migrate-cutover` | extends `SchemaMigration` |
| `HtmlConversion` | `svc/internal/migrate/html.go`, `convert.go` | the body of an entry of `ContentMigration` |
| `LegacyBodies` | what the conversion owes to those who wrote the body, by its nodes | extends `HtmlConversion` |
| `LegacyProofs` | the theorem that `HtmlConversion` does so | |
| `ImportPlan` | what an import decides about each item of its batch | used by `EntryStore` |
| `ProjectImports` | one import after another into a project | extends `ImportPlan` |
| `EntryStore` | `EntriesHandler`, `AssignHandler`, `ImportHandler`, `LinksHandler.CompileProject`, the entry tables of `content/internal/db` | |
| `FacetVocabulary` | `FacetsHandler`, the validation of `EntriesHandler` and `ImportHandler` against the vocabulary | the same requests as `EntryStore`, by what their cards name |
| `ContentProofs` | theorems about `ImportPlan`, `ProjectImports`, `EntryStore` and `FacetVocabulary`; about `ContentMigration`, and what `SchemaMigration` does to the legacy entries | |
| `ContentEngine` | `pkg/contentengine`, and how `render.go` and `export.go` of content call it | |
| `EntryViews` | what views, PDFs and the link index owe to a reader, by the fences around each line | extends `ContentEngine` |
| `EngineProofs` | theorems that `ContentEngine` does so | |
| `Home` | `cli/internal/home`, the commands `init`, `connect`, `config`, `login` | |
| `Workspace` | `cli/internal/entry`, `resolver`, `pack`, the commands on entries, `push` with its server | |
| `CliProofs` | theorems about `Home` and `Workspace` | |
| `MCHub`, `MCGameSession`, `MCLiveClient`, `MCEntryStore`, `MCContentMigration` | constants of the runs | |
| `MCContent` | `EntryStore`, as `MCEntryStore` bounds it, or `FacetVocabulary`, by its variable `part` | |
| `MCMembers` | `Projects` or `MembershipCache`, likewise | |
| `MCAccounts` | `AuthSession` or `PasswordReset`, likewise | |
| `MCCli` | `Home` or `Workspace`, likewise | |
| `MCImportPlan` | the batches of `ProjectImports` | |
| `MCAlgorithms` | inputs for `EntryViews` and `LegacyBodies`; extends `MCImportPlan` | |

A module of two parts explores one and then the other: a run of it is two models under one
configuration, not a product. Only `MCContent`, `MCMembers`, `MCAccounts` and `MCCli` are built so. A definition
called a slip is a plausible mistake in the one that follows it; a property that does not
notice the slip would say nothing about the code.

### The hub

Every method of `Hub` holds `Hub.mu` from beginning to end, so each is one
action; `OpenRoomAndRegister`, `Unregister`, `Broadcast`, `SendTo` and `CloseRoom`
keep their names, and so do the bodies they share, `RemoveLocked` and
`BroadcastPresenceLocked`. `rooms[p]` is the set of clients of project `p`; `send[c]`
is the content of the client's channel and `closed` the set of closed channels. The
pumps appear by what they do at one point: `WriteFrame`, `WriteClose` and
`WriteFail` are the three ways through the loop of `writePump`, `ReadExit` is the
end of `readPump` with its deferred `Unregister`. `PeerGone` is the network and
`Crash` the death of the process. A frame that a `writePump` takes while some
method holds the mutex could as well have been taken before it, which is why a method
may be one step; this needs a buffer of at least two frames (`HubAssumption`).

Four variables are ghosts: `casts` counts the broadcasts of a room, and a message
is its ordinal; `got` and `seen` are the last message and the last roster written to
a registered client; `missed` are the clients whose buffer was full when their room's
last roster was queued. No action reads them except to number a message.

`HubNext` lets any handler call any method at any time. Which calls svc makes, and
in which order, is the subject of `GameSession`.

### Game Mode

`GameSession` is written on top of `RoomService`, so that its steps are the
calls and the database accesses of a handler and not the queues underneath. `Serve`
is `ReadRunning`, `CheckTotal`, `CheckRoom`, `UpgradeFails` or `Register`:
between any two of them other requests run. `Stop` is `StopSession` (the UPDATE)
and `CloseRoom` (the call of the hub), or `StopCut` when the caller goes away after
the UPDATE has been committed and the row cannot be scanned. A post is `Persist` and
`Broadcast`. `DeleteProject` removes what the foreign keys cascade to and leaves the
room alone, as the code does. `Restart` keeps the rows and loses the rest.

`cut`, `overtaken` and `lost` are ghosts that remember, in this order, a `Stop` that was
cut short, a client that was being admitted while its session's room was closed, and
a message whose broadcast a restart prevented.

### Entries

`row[id]` is the row of `entries`: a path, and the text that `title`, `tags` and `body_hash`
were computed from. `links`, `fts` and `blob` are the entry's rows of `entry_links`, its row of
`entries_fts` and its body in MinIO, each of some text. They agree if all name the same text,
which is the point of the module: content writes the body and the rows in separate steps,
the rows from values it has read earlier.

A link is kept as its text spells it (`Spelling`) and resolved with the path that `splitEntryPath` makes of it
(`Split`: slashes at both ends go); `Assign` looks for the path as `joinEntryPath` spells it (`Join`: slashes at the end of a
directory go). What the two functions make of a directory are the constants `SplitDir` and `JoinDir`; the run has a link with a slash too many, and
a directory with one, which is another directory since nothing normalises `directory_path`.

A request is a record `req[w]` with what its handler has read. `CreatePut`, `UpdatePut`,
`DeleteBody` and `ImportPut` are the calls of MinIO; every transaction is one step
(`CreateCommit`, `UpdateCommit`, `AssignCommit`, `CompileCommit`), because `db.go` opens one
connection and a transaction keeps everybody else from it. Only an import calls MinIO with
its transaction open, so it is the holder `tx`, and `DbFree` guards what the others
do to the database. CompileProject and Assign also read bodies inside a transaction; they need
no lock in the model, because a body that is replaced between such a read and the
commit could as well have been replaced after it. `...Fails` are the error paths, `Abort` is a
request that goes no further: a crash, or a caller that went away so that the next call fails
with its context. `ImportPlan` is the loop over the batch as a recursive function.

Ghosts name the ways in which an entry comes to disagree with itself. A request is `contested`
if another request about the same entry overlaps it; an entry is `disturbed` if the last request
about it was contested or left half done, and an uncontested save settles it again.
`strayed`, `doomed`, `rewritten` and `imported` are explained where they are declared.

### Facets

In `FacetVocabulary` a body is the set of facets its cards name. `Validate` and `ImportValidate` read the
vocabulary (`Effective`) and decide; `SavePut`, `SaveCommit`, `ImportCreate`, `ImportWrite` and `ImportDone` write
what was decided, while `CreateGlobal`, `DeleteGlobal`, `InsertForProject` and `DeleteForProject` change the
tables. `ImportRefused` is the plain INSERT that meets a facet added since, `ImportRollback` everything that ends an open
transaction without a commit. `gone` is what was lost since a request read the vocabulary, `excused` what was lost since the
request that wrote a body did; both are ghosts.

### Projects and memberships

`Projects` is one project from its creation to its deletion. Each handler is two steps, because
it is two statements with nothing around them: `Check...` reads the caller's role (or the invite),
`AddMember`, `RemoveMember`, `CreateInvite`, `RevokeInvite`, `Join` and `Delete` write. The guard
`project = "live"` of a write is the foreign key, the only thing that looks again. `Delete`
leaves its request with the notification to send: `Notify` is content handling it, and
`GiveUp` loses it, as it ends any other request before its statement has run. content's
side is `Learn` and `Forget` (whom it takes for a member), `CheckWrite` and `WriteEntry`.

`MembershipCache` is the detail behind `Learn` and `Forget`. `SvcChecker.IsMember` holds its mutex for
the look-up and for the store, not while it waits for svc, so a call is `AnswerFresh`, or `AskSvc`
followed by `Arrives`, `FailsOver` or `FailsOutright`, with svc reading the row (`SvcReads`) at some
instant between. `cache` is a set of entries, at most one per key. Time is a counter; `Tick`
waits for a request that has reached the timeout of the HTTP client, which is how the model says
that none outlives it. `changed`, `heard` and `refused` are ghosts.

### The browser

JavaScript runs to its next `await` uninterrupted, so an action of `LiveClient` is what runs when an
answer, a frame or a timer arrives. `page` is the store: its `status` and `session`, the handle it
`held`, and every handle that may still do something, with the frames on their way to it.
A handle is `opening`, `admitted` (the server has seen a running session), `open`, `stranded` (open, with
its session over and no `session_ended` to come), `asking` (in `shouldReconnect`) or
waiting for its `timer`. `task` is what the functions of panels wait for: `refreshSession`, `onStart` and
`onStop` go on when their panel is gone. The answer to a request is what the server read at some time after it
was asked (`ServeRead`, `ServeStart`, `ServeStop`, `ServeCheck`); it may be late, and `TaskFails` and `CheckFails`
lose it. The server is reduced to what the page sees of it, and a restart of it is the loss of every socket. As in `GameSession`, a Stop is the UPDATE
(`SessionEnds`) and the closing of the room (`CloseRoom`), or is cut short in between (`SessionCut`), and `DeleteProject` does not tell the hub: the last two
strand who is in the room, and so does a handshake that was admitted before the end and registers when the room is closed. `due` is a ghost: the messages that
are to be on screen once.

### Accounts

In `AuthSession` a request of svc is `EnterAndAsk` (the look-up of the cookie, the cache that had no
fresh answer, the call of auth), `Verify` or `VerifyFails` (auth), and `Arrives` (the answer is stored and decides) or
`Lost`. A login is `Register` or `Login` in auth, then `CreateSession` in svc, with the signing of
the JWT between: the row of the account is not read again. `UpdateUser` and `DeleteUser` are the
administrator's, `SvcRestarts` empties the cache. `changed` and `faulted` are ghosts with the times the
properties look back to.

`PasswordReset` gives `ForgotPassword` three steps (`Forgot`, `StoreResetToken`, `SendResetEmail`) and `ResetPassword`
two (`CheckToken`, `SetPassword`), with the hashing of the password in between. `GiveUp` ends a request after
any of them.

### Schemas and the cutover

A migration of `SchemaMigration` is a sequence of statements (`V1` to `V8`, `AuthV1`, `AuthV2`), run on a database that is
its version, its tables with what they REFERENCE, and whether their rows are there. `Statement` is what SQLite does
with one, under the settings of the connection; `Settings` is what the code sets for which version. A process opens the
database (`proc`), migrates it one version at a time and may die between any two; the
next one goes on. `start` is any database the code may find, the defective one that `toV4` repairs included.

`ContentMigration` adds the legacy entries and the tool that moves them to content. `Paths` is `assignPaths`, `Reports` the
possible outcomes of conversion and validation. What is wrong with an entry is of a kind (`Fault`), because svc validates against its own global facets and
content against its global facets and those of the project: content may accept what svc rejected, and refuse what it passed. The tool loads, posts one entry after another,
loses answers, dies, is run again, and cleans up. Meanwhile members write to content. The
operator deploys version 8, which drops the legacy tables, after a run that ended well.

`HtmlConversion` is the conversion of one body. The body is the sequence of its nodes in the order of the text, each with the places
of its children, so that what the code does by recursion over the tree is a recursive function of the nodes (`RenderNode`, `InlineText`,
`MixedBlocks`). A text is named by its place, so that what comes out can be compared with what went in: `LegacyBodies` does so by the nodes above each text.

### The content engine

A document of `ContentEngine` is a sequence of lines: fences that open a secret or a card, fences that close, text with
at most one link. `Parse`, the filter of each view, `Fragment` (what a request is answered), `Bundle` (the PDF)
and `Extract` (the link index) are the functions of the packages of the same names. A block is named by its first line. `Parses` is
`parseBlocks` as a recursive function of the line it begins at and the fence that is open, and what it returns holds the blocks inside by name
(`Within`). The reference definitions in `EntryViews` do not parse: the level of a line is the number of fences
open before it, and a view is told by levels (`Around`, `Expected`).

### The command line

`Home` has the two kinds of settings files. A command reads a file whole, and writes it whole in two steps:
it is emptied, then written (`os.WriteFile` truncates first); `KillCommand` may come between them. `init`
makes a folder, its `quillit.yaml`, and then makes the project the current one.

`Workspace` is one project on disk and its copy on the server. `md` are the texts, `conf` the link indexes, each
with whether it is older than its text, which is all the code compares. A compilation reads the text, looks
for the folder of the link and writes the index in separate steps, so that saves, moves and other commands
run in between. `assign` makes the directory with those above it and then renames (`Made`); when the rename fails or the command
is killed in between, the directories stay (`AssignFails`). A text may not parse, or have a facet that the vocabulary does not have: `render` and `export` end with an error at the one and the
other (`Load`), `compile` at the first (`CompileRead`); a PDF may fail, too (`EndReading`). An export that meets an index torn by a kill is refused, since it is no JSON. A push lists the server, chooses, packs, and imports: others may write the same entries
at any time (`RivalWrites`, `RivalIsRefused`, `RivalDeletes`). The `doubt` of an index and the `rivals` and `hollow` of a push are ghosts.

## What is checked

| Run | Instance | States | Shows |
|---|---|---|---|
| `hub` | 1 project, 2 connections of 2 users, 2-frame buffers, 2 broadcasts, with fairness | 159,316 | below |
| `game` | 1 project, 3 connections, 2 sessions, 1 message, caps of 2, with fairness | 536,861 | below |
| `live` | 2 projects of 1 session, 2 handles, up to 3 functions of panels of which 2 at once, 1 message and 2 ends of sessions (Stops, deletions), by budgets; with fairness | 882,070 | below |
| `entries` | 2 entries, 3 directories (one spelled with a slash), 2 texts (one with a link, spelled two ways), 2 requests in flight, 4 in all; 1 entry, 3 facets, 2 requests, 3 in all | 692,077 | below |
| `members` | a creator, 2 guests, 1 invite, 1 entry, 2 requests; 2 keys, 2 requests, fresh 1, stale 2, timeout 1, clock to 4 | 3,227,519 | below |
| `accounts` | an administrator, an email of two accounts, 2 sessions, 2 requests, JWT 3, revalidation 1, trip 1, clock to 5; 2 users, 3 tokens, 2 requests, an hour of 2, wait 1, clock to 3 | 3,506,269 | below |
| `migration` | every database of svc and auth; 3 legacy entries of two projects or none, with colliding titles, one of them at fault in any way | 380,228 | below |
| `cli` | 2 projects, 2 facets, 2 terminals, 3 commands; a project of up to 3 entries, 2 shells, budgets of up to 3 commands of a kind, texts that do not parse or have an unknown facet | 1,483,191 | below |
| `algorithms` | imports of 1 to 3 folders; all documents of up to 5 lines; legacy bodies of one node, four deep, with up to two annotations | 125,329 | below |
| `entries_hash` | as `entries`, 3 requests, no failures | | `HashDescribesBody` fails |
| `auth_ttl` | as `accounts` | | `SessionTTLGoverns` fails |
| `live_newer` | as `live` | | `NewerIsSpared` fails |

Chat:

* `TotalAgrees`: the counter behind the server cap is the number of registered clients.
* `RoomOwnsChannel`: a client is in its project's room exactly while its channel is open,
  the rule every close relies on.
* `ClosedChannelQuiet`: nothing is sent on a closed channel (Go would panic), and none
  is closed twice or reopened; the channel on which `session_ended` is queued is closed with it, and that frame is the last.
* `RosterCurrent`: the newest roster a client was sent is the room's, unless its buffer
  was full: there is no way in or out of a room that does not announce itself.
* `PumpsReturn`: a closed channel or a dead socket ends both goroutines and frees the slot.
* `ImplementsRoomService`: all of it together is the abstract service. That no client has a gap in
  what it was sent is part of it.
* `HistoryMatchesRoom`, `StoredReachesRoom`: the history a late joiner reads and
  the messages shown live are the same, each shown once, but for one a restart interrupted.
* `LeftBehindOnlyByRace`: a client is in the room of a session that is over only while its
  `Stop` is on the way, or through one of the races `cut` and `overtaken` name.
* `StopEmptiesRoom`: who is in the room when a `Stop` is on the way gets out of it.
* `HeldIsAlive`: the store's handle is the only one that has or may open a socket, and it is
  one: none comes back after it was closed, and the store is never stuck with a dead one.
* `ChatIsShown`: what is on screen is of the project whose socket is held, and every message that reached the page
  is there once, but for the cases its comment names (see Divergences).
* `LetsGo`: a handle whose session is over is given up, unless the server has left its socket open without a `session_ended` to
  come (a Stop cut short, a deleted project, a client admitted too late: see Divergences), and then as soon as that socket is lost.

Entries:

* `SettledAgrees`: an entry's body, hash, links and search row are of one text unless the last
  request about it met another or was cut short. Imports do not index, and a move rewrites
  links that the texts still spell the old way: these two are named, too.
* `BodyNeverLost`: no race, failed import or crash costs an entry its body; only a Delete does.
* `LinkAddressesEntry`: a resolved link spells the present path of its entry through every move, unless it has a slash too many, or
  contested moves, an Update of the path or the move of an entry whose path is spelled alike have led its entry astray.
* `SearchFindsEntries`: the index holds no entry that is gone, unless its Delete was contested.
* `UsedIsKnown`: a stored body names only facets that its project knows, so that it renders, but for those that
  were removed, or rolled back with a failed import, since the request that wrote it read the vocabulary.
* `PlanIsOrderFree`: which slug an item gets depends on the project and the names in the
  batch, not on the order of the items or on what was decided for the others.
* `ViewsAreExact`: every view shows exactly the text it is to show, in order: a player nothing that
  a secret is around, a card view the cards of its facet with those of the entries they link to; a
  document with a stray or open fence shows nothing. A quick view is a beginning of the view, and a PDF is views
  one after the other, without expansions.
* `LinksAreIndexed`: every link is in the index once, under the nearest card around it.

Projects and accounts:

* `InviteSharedOnlyByOverlap`: an invite lets in two users only if both had looked at it
  before either had joined.
* `DeletedIsEmpty`: a deleted project has no member and no invite, whichever requests had
  passed their checks before.
* `ToldIsOrphaned`: once content knows of a deletion, the only live entries of the project are
  those written after it. That content is told at all is not promised by the code.
* `AnswerIsRecent`: what content is told about a membership was so within the sum of the
  durations on its way: timeout, fresh and timeout, stale and timeout.
* `RefusalStands`: after a refusal the old yes does not come back, not even in an outage, unless a
  yes that svc had given earlier was still under way.
* `OutageTolerated`: a short outage is answered from the cache, whatever requests for other
  keys have swept from it.
* `DisabledIsOut`: a disabled or deleted account, or one whose JWT has expired, is out within the revalidation
  interval and one trip, whatever answers overwrite one another.
* `RefusedForCause`: nobody is turned away as disabled but for a change of the account, an
  expired JWT or an error of auth within that time.
* `NewestIsOpen`: the reset link that works is the last one asked for.
* `ClosedTokenIsShut`: a token that was used, superseded, deleted or has expired sets a password only for
  requests that were under way.

Migrations:

* `MigrationKeepsAll`: no migration fails or leaves a reference to a table that is not there, and no table loses
  its rows but those that version 8 retires.
* `CleanedIsInContent`: a legacy body is deleted only when content has its text, or somebody else has its path.
* `DroppedIsAccounted`: when version 8 has dropped the legacy entries, each is in content, was reported as skipped
  by the run the operator relied on, or has lost its path to somebody.
* `SkippedForCause`: an entry is skipped by a run that ends well for a fault of its own, or of one at the same path that has no project, or
  whose facet svc did not know and which is in content (or lost its path there).
* `ConversionKeepsSecrets`: no text of a GM mark or annotation is shown to players unless something was flagged
  for review, and no text is lost or doubled (but for the divergence below).

Command line:

* `HomeIsKept`: settings are lost only by commands that overlap or are killed, and the current
  project is always one that is there.
* `IndexIsTrue`: an index that is taken for fresh has the link of its text, but for the named ways to
  outdate it.
* `BundleIsOfTheText`: an export with links bundles what the text links to, and is refused only for a link to a folder that
  is no entry or for one of the two texts, which does not parse or has an unknown facet.
* `DeltaSkipsForCause`: what `push --delta` leaves out is on the server already, unless others wrote it
  meanwhile or its hash there was wrong (`entries_hash` is one way).

Each state machine but those of the migrations has a type invariant that is proved, and not in a run.

**Bounds.** One project is enough in svc: rooms share nothing but the counter, and no handler
touches two. Two clients make a sender and a bystander, a slow and a fast
consumer; three are needed for two to pass a cap of two together. Buffers of two
frames reach every case of a buffer of sixteen (room for the message and the
roster, for the message only, for neither). Two broadcasts make a gap and an order
possible; two sessions make one stopped and a later one. The browser needs two projects, because what
goes wrong there goes wrong between them; two handles are the one that is held and one that is not
done yet, three functions are a refresh that is left, the one that replaces it and a button. The budgets of
`MCBudgets` give the message, the third function and the two ends of sessions in pairs.

For entries, two ids make a path worth taking and a link between two entries; two requests
in flight are every pair of handlers; four in all create an entry, let two requests race over it and save once
more to see what heals, or create both, link them and move one. What a body may name does not depend on other bodies, so one
entry does for the facets: three requests store it, write it again and race with the second. Three folders whose slugs are each other's suffixes
are every way in which a batch collides with itself. Five lines are two fences around a text, or one
with a text before, in and after it; the annotations of a legacy body have a mark, have none, or are missing.

One invite and two Joins make the race, a third user sees what is left of it. For memberships,
an entry must be able to be fresh, stale and past use within the clock: with these durations
that takes three units after an answer that itself took one. The second key is there for its sweep.
A JWT must outlive a revalidation and expire within the clock, with time for one more revalidation; an
account that is deleted and registered again needs a second id. Three tokens are one that is superseded by
the second, and a third of another user or after a use.

Three legacy entries are two that collide and one that has the suffix the second would get. The budgets
of the command line combine each pair of commands that touch one file.

**Symmetry** of interchangeable values is used in `entries`, `members`, `accounts` and `cli`, whose
properties are invariants and action properties.
The runs with liveness properties do without.

**Fairness.** `Hub`: a goroutine that can run does; a write to a dead socket fails within
`writeWait` or at the next ping, a read within `pongWait`. A `writePump` with frames is not
promised to succeed, only to get on. `GameSession`: a handler that has made the first of
two calls makes the second. `LiveClient`: a handshake is refused or goes on, a status that was asked for
arrives, a timer fires, frames arrive; a browser and HTTP do so, or end the wait with an error, and the status of a deleted project is one.
A Stop that goes on after its UPDATE closes the room. Nothing is
assumed of the users, nor that a network is there.

**Deadlock** is checked in `migration`, whose processes can always be started again. Elsewhere the system may
stop: its clients are used up, its project is deleted, or its clocks, counters and budgets are at their bounds.

## Findings

* `entries_hash`: a PATCH with a body and a path that is taken is refused with 409 after its body
  has replaced the old one; the hash, by which `push --delta` decides, stays that of the old.
* `auth_ttl`: a session is said to last seven days whatever its JWT does, and ends with the first revalidation
  after the JWT's fifteen minutes, as "account disabled".
* `live_newer`: the reconnect check of a socket that was replaced, answered late, closes the newer connection
  to another project, which the store's comments say it does not.

## Divergences and limits met on the way

What follows is in the models as the code has it, and named in the properties as exceptions. No run is about it alone.

* The atomic registration of `chat_ws.go` keeps a client out of a "phantom room" only for the two hub calls it
  merges, not for the check of the session before them (`overtaken`, `stranded`). A Stop whose caller goes away after the UPDATE, or the deletion of the
  project, ends a session and leaves its sockets open: the browsers hold them, and show a running game, until the network drops them.
* The connection caps are compared before the handshake; handshakes in flight exceed them.
* A removed member keeps the chat connection it has (`projects.go:457`). A join that has been checked ignores the
  revocation of its invite (`projects.go:644`).
* Two users may join with one invite that the documentation calls single-use, and a reset token that is redeemed twice
  at once sets two passwords: neither UPDATE looks at `used_at` again.
* `assign.go` says that a move rewrites every inbound link. It rewrites those whose text is the joined path: `[[/d/s]]` and `[[d/s/]]` resolve
  (`links.go:57`) and keep the old path. `directory_path` is stored as it comes, so that entries in `d` and in `d/` share a joined path, and
  a move of the one rewrites the links of the other.
* An import never writes the search index, which a comment in `db.go` says is refreshed whenever links are compiled.
* `importer.go:240` takes a failing INSERT of a facet for a genuine database error, since the facet was missing when the
  vocabulary was read; the facet may have been added since (`ImportRefused`), and the import is answered 500. A failed import that
  was to overwrite an entry leaves the new body without the facets it was to create: the entry is answered 422 until they are added.
* `cli-spec` has `dm` show everything, but no view shows a block that is two fences deep; `parseView` takes any
  unknown view for `dm`; the PDF, of which `writeBlock` says nothing is lost, loses text directly in `pre`, `code`, `h4` or `td`.
* The migration validates with svc's facets, content with its own and the project's (`run.go:148`, `content/internal/handler/facets.go:35`): a clean report does not mean that
  content will accept, and a failed one not that it would refuse. With `-force`, of two entries at one path the one at fault may go in
  and the other be skipped, in a run that ends well.
* The comment of `html.go` that nothing is dropped does not hold for text in a list outside of its items; and the
  lists that TipTap writes, with a paragraph in each item, always come out as flagged raw HTML.
* `render` and `export` are said to report the links that a move broke: they recompile an index only when its text is newer,
  and discard the warnings. A link resolves to any folder, not only to one with an entry in it.
* `push --delta` of a folder sends the unchanged entries below it, too; images are not compared. `export` of all
  entries gives `d/b` and `d-b` one file name.
* A killed command may leave an empty `config.yaml`, which loads as an empty vocabulary, or a folder that `init` then refuses.
  A torn `links.conf` counts as fresh.
* In the browser, a function of a panel that was left connects to its own project and takes the socket from the one on screen. The old
  project's messages are shown until the new history arrives. What was broadcast while the socket was down is not fetched
  on reconnect, and a message is shown twice if the history was read between its INSERT and its broadcast.
  What is typed while the socket is down is dropped with its draft. When the history fails after a start, the panel shows a running
  session without a connection.

## What is proved

Eight modules of proofs cover every state machine but `SchemaMigration`, and the two algorithms on texts: all of
their safety properties that a run checks, the type invariants, and the refinement of `RoomService`. Each theorem holds for all values of
the constants that the named assumption of the module allows. A safety property is seldom inductive, so each module of proofs
begins with the invariant it needs; the paragraphs say what was missing.

**`MemberProofs`**, first part - `Hub`, for finitely many clients, each with a project and a user, and buffers of two frames or more
(`HubAssumption`). `HubInv` joins `TotalAgrees` and `RoomOwnsChannel` with the fact that a connection that is not registered
yet is open and in no room. None of them is inductive alone: the counter is exact only if a removed client was in one
room and in no other, a client is in at most its own room only if the rooms hold clients of their own
project, and `RemoveLocked` may decrement only for clients that are still there. `RemoveLockedKeeps` is the one lemma about the
shared body, and every action that removes clients cites it. `ClosedChannelQuiet` follows from the invariant for the closed channels; for `session_ended`, it takes
a second one (`EndCloses`): a channel with that frame in it is closed, because `CloseRoom` alone queues it and removes whom it tells.

`DeliveryInv` adds what is in the channels. The messages in a client's buffer continue what it was sent, without a gap, up to the room's
last broadcast (`QueuesInOrder`); the newest roster it was sent, in the buffer or written, is the room's unless its buffer was full then (`RostersQueued`). From them follow `RosterCurrent` and
`ImplementsRoomService`: `RefineNext` takes the actions of `Hub` one by one, and finds each a step of `RoomService` or a stutter. A pump that writes is the
delivery of the abstract service; an eviction is a member who leaves.

**`GameSessionProofs`** - for any numbers of clients, projects, sessions and messages (`GameAssumption`). `AdmissionInv` says why each
client may be in a room: it belongs to the running session, or its Stop has still to close the room, or one of the ghosts names
the race (`Entitled`). It needs what an admission has read (`SessionsRead`): the session was the project's last one then, and is over if it is not
running now. `LeftBehindOnlyByRace` follows. `HistoryInv` gives a stored message exactly one place - shown, about to be broadcast by
its handler, or lost with a restart (`OnePlace`, `SomePlace`) - and `HistoryMatchesRoom` counts the places.

**`LiveProofs`** - for any numbers of projects, handles, functions of panels, sessions and messages. Most of what runs in the
page is one of a few functions of the store (`Disconnect`, `ApplySession`, `FetchStatus`), so it is proved of any page what each moves
and what it leaves (`Moves`): a handle changes along its life and the held one is the one that lives. Hence `HeldIsAlive`. For `ChatIsShown`
the invariant follows a message from the broadcast to the screen: a frame on its way and a history that was read are of the project
they were sent for, and a message that is due is in transit to the page or shown, once (`FramesAreCast`, `AnswersFit`, `DueIsCast`, `Once`). The two
properties hold for sockets that are stranded, too: `Strand` only renames the state of a handle (`StrandMoves`).

**`ContentProofs`** - `ImportPlan`, for batches of any length, in any order. `ImportPlan` decides item by item and each decision changes what is taken for the
next. `PlanDecides` states what it comes to, without the recursion: the outcome of an item follows from the item, the mode, the project's paths and the
names in the batch. It is an induction over the batch (`TurnKept`), whose invariant is that what an earlier item added to the paths in use
can matter to no later one. `ImportsAreOrderFree` carries `PlanIsOrderFree` through
sequences of imports.

`EntryStore`, for any finite sets of entries and workers and any texts, paths and batches, where no two items of a batch have one path
(`EntryAssumption`: `readImportTarball` makes one item of each folder). A request works with values it has read some steps ago.
`AsRead` says that they are still true unless somebody else was about the same entry, and `Alone` that both are marked `contested` then; an
import's plan, whose paths come from `PlanDecides`, stays right because its transaction keeps others from the tables (`ImportIsSound`, `TxIsImport`), while the ids it has
drawn are nobody else's (`OwnsFresh`). For a body, `PutIsThere`: whoever is going to insert a row has stored its body. `UntouchedAgrees` is
`SettledAgrees` also while requests are under way, as long as none has written part of the entry. The theorems are
`SettledAgrees`, `BodyNeverLost`, `LinkAddressesEntry` and `SearchFindsEntries`.

`FacetVocabulary`, for any facets, entries, bodies and number of requests, where the facets of a new database and those that can be
created are in kebab case (`VocabularyAssumption`). Bodies are written from a vocabulary that was read earlier, so the
invariant is about requests, too: what a request is going to write is in the vocabulary, was lost since it read
(`SavesKnown`), or, for an import before its transaction, is about to be created (`ImportsKnown`). Only three steps take facets away, and
`LossIsExcused` and `RequestsStayKnown` are what each of them leaves true. The theorem is `UsedIsKnown`.

**`MemberProofs`**, second part - `Projects`, for any users, invites, entries and requests: the roles and invites of a deleted project are gone
because a write names the project in its foreign key; for content, that whoever is told (`ToldIsGone`) was told of a project that
was gone (`RequestsAreBacked`). `InviteSharedOnlyByOverlap` follows from `UnusedIsFresh`: nobody has joined with an invite that is not used yet.
`MembershipCache`, for any keys, any number of requests and any durations with `freshTTL <= staleTolerance`: the invariant dates what is known.
What svc answered held at some time since the request began (`ReplyHeld`), what the cache says held
no longer than a timeout before it was stored (`EntryHeld`), a refused key has no yes left
anywhere (`RefusedOut`), and the last answer about a key is still there while it is tolerated
(`HeardKept`). A change of membership keeps the first two because it happens later than
anything read; an answer that arrives turns the first into the second because no request is older
than the timeout (`InTime`). `AnswerIsRecent` then adds the age of the entry; it needs no case
for the order in which answers arrive, since `EntryHeld` is about each by itself.

**`AccountProofs`** - `AuthSession`, for any users, emails, sessions, requests and durations. An answer of auth, on its way or cached, is grounded in a state of the
account at a time (`AnswersAreGrounded`, `CacheIsGrounded`); a change later than that does not take the ground away. `DisabledIsOut` and `RefusedForCause` add
the times. `PasswordReset`, for any tokens, users and requests: tokens are stored in the order they are drawn, a user's only unredeemed
token is the last (`UnredeemedIsLast`), and a token that a request has checked is as it was then, or was closed since (`RequestsAreBacked`), which is
no longer than `MaxWait` ago (`RequestsAreRecent`). The theorems are `NewestIsOpen` and
`ClosedTokenIsShut`. The durations are natural numbers; `MaxTrip` and `MaxWait`, the longest a request takes, are whatever the
deployment makes them: the code sets no limit, and the theorems say what follows from the one there is.

**`ContentProofs`**, last part - `ContentMigration`, for any projects, titles and collections of legacy entries, however many (`MigrationAssumption` only says that they are
such collections). Two things make the cutover safe, and the invariant says both. The tool relies on answers: an entry it counts as imported is in content or
its path was taken by somebody (`ToolKnows`), and the operator relies on the last run that ended well (`RunsAreRight`). For a 409 this needs
that no other legacy entry can have the path: `PathsAre` is an induction over the entries that shows the paths of a project to differ, and `SlugIsFree`
that the search for a suffix ends, since there are fewer entries before than suffixes (which is also why the bound of `UniqueSlug` in the model leaves nothing out).
For `SkippedForCause`, `ReportsHaveCause` tells what may be blamed in a report, and `ToolKnows` that an entry content cannot accept is never imported, so that a run that posts it ends in errors. The other thing is that the tables are there as long as the tool may have to
run again (`TablesStay`): before version 8 no migration, from any database svc may find, loses the table of entries or its rows. It is proved of the statements
of `toV1` to `toV7` one by one (`StatementDoes`, `ListsAre`), for the transaction of all of them (`ExecKeeps`), and of the databases there are (`StartsAre`).
The theorems are `CleanedIsInContent`, `SkippedForCause` and `DroppedIsAccounted`.

**`CliProofs`** - `Home`, for any terminals, projects and facets. A command holds the settings as it read them. `MeantInv` says that they
are still what the commands meant, or that somebody has saved since and the command knows (`disturbed`), and that a file that is empty has a terminal that is
filling it, or is marked (`harmed`); `CurrentInv` that whoever is going to save a current project has one that is there. `HomeIsKept` follows.

`Workspace`, for any shells, names, texts, budgets and starting trees that are trees (`WorkspaceAssumption`). A command works on a text and on folders that it
looked at some steps ago. `CompilesTheText` says that they are still so unless it was told (`since`), and every step of a user tells the
commands it disturbs (`TreeStep`, `EditKeeps`); so the index it writes is true or says why not, and `IndexIsTrue` is its own
part of the invariant. A move keeps texts with their indexes because no two folders can come to have one path: `RenamedInjective` needs that
the folders above a folder are there (`TreeIsClosed`), which is why a model of `assign` that made only the last directory would not do.
`BundlesTheText` follows an export from its first entry to its end through `Load`, `Check`, `Compile` and `Loaded`; what it has loaded
parses and has known facets, and the one text that does not is the one it is refused for. It was this proof that showed the property too
strong as it stood: it looked for the torn index that explained a refusal, which another shell may have compiled anew by then. That takes three
reading commands, for which the run now has a budget; the doubt of the index that was read is what counts now.
`LeavesOutTheSame` is what a push knows of the server's copy, and `ServerStep` that every write there tells the pushes under way.

**`EngineProofs`** - the content engine, for any vocabulary, paths and facets, any project, and documents of any length over any lines (`ViewsAssumption`: a path and a
facet are not the empty string). The argument goes by levels. `ParseBlocksIs` is what `parseBlocks` returns from any line with any
fence open: the lines at the level of that line, up to the fence that closes it, or the line of the first error; an induction from
the last line to the first. Hence `ParseOfBalanced` and `ParseOfUnbalanced`, and what a block holds (`ContentIs`,
`ProseLinesIs`). Then each function of blocks is told by the lines it returns, in order and each once: the blocks
in a block (`FlatIs`), what is left when secrets are stripped, the cards of a facet. Rendering a card link calls the renderer again for the entry it
leads to, one level deep; `Expansion` is what it shows. The theorem is `ShowsExactly`. For the index, a link's facet is
that of the nearest card because `ExtractBlocks` goes into a card with its facet and into a secret with the one around it, and it is there once because the
blocks of one level hold different lines: `IndexesExactly`.

**`LegacyProofs`** - the conversion, for any bodies that are trees whose nodes come before their children and any finite sets of annotations
(`LegacyAssumption`; a GM mark is the only node with an annotation's id, as the code reads it from no other). `Under` is the nodes under a node, itself included.
`GivesTexts` says of what is made of a node that it holds each text among them once, but for those that an
annotation replaces, and nothing else; different children have different texts under them, so that it holds of them together.
`BlocksAre` carries it to the blocks, with where a text of a mark can be: in a secret, or in a block that was flagged. The
annotations that no mark consumed are the trailing secrets. The theorem is `SecretsAreKept`.

**How.** What a recursive *function* computes is proved by induction, although the library's induction theorems are out of the prover's
reach: the least number outside a set of naturals exists (`SetOfNaturals`, `NaturalsFrom`), and a lemma (`Turns`, `WriteTurns`,
`StoredTurns`, `Recursion`) shows that the function with its equations exists. Functions that are defined by recursion on pairs, or from later
arguments to earlier ones, are shown to exist likewise in `EngineProofs`.

**Not proved**, and checked by TLC only:

* `PumpsReturn`, `StopEmptiesRoom`, `StoredReachesRoom` and `LetsGo` are liveness properties under fairness, which the prover does
  not handle.
* `MigrationKeepsAll`: its databases and statements are constants of the code, so that the run `migration` covers every
  case there is; a proof would repeat it.
* `HashDescribesBody`, `SessionTTLGoverns` and `NewerIsSpared` are false.

## Plan

1. `RoomService`, `Hub`, `GameSession`, `GameSessionProofs`, `LiveClient`, `LiveProofs` - done.
2. `ImportPlan`, `ProjectImports`, `EntryStore`, `FacetVocabulary`, `ContentProofs`, `ContentEngine`, `EntryViews`, `EngineProofs` - done.
3. `Projects`, `MembershipCache`, `MemberProofs` (with the proofs about `Hub`), `AuthSession`, `PasswordReset`, `AccountProofs` - done.
4. `SchemaMigration`, `ContentMigration` (proofs in `ContentProofs`), `HtmlConversion`, `LegacyBodies`, `LegacyProofs` - done.
5. `Home`, `Workspace`, `CliProofs` - done.

Every safety property that a run checks and a proof can reach has one. Left are proofs of what the runs do not state yet: that `PlanItem` keeps the order of a batch
in its report, that `Walk` visits each entry once, and an abstract specification of the entry tables that `EntryStore` implements.

## Not modelled

* svc's proxies, settings, health check and start-up, and the parts of handlers that only read: they keep no state between
  a request and its answer. The Swagger documents of svc and auth are generated.
* `Hub.OpenRoom` and `Hub.Register` (called by tests only); `Room.SessionID` (written, never
  read); the rate limit of 200 ms and the frame size limit (they drop or refuse single
  frames).
* Images of entries (single writes under keys of their own); the renaming of a project; entries of other projects (every statement on
  links and paths is restricted to the project).
* The row a refused `Start` reads back; the order of the history, which is by second
  and may differ from the live order within one; what a message or a card says.
* Columns, indexes and checks of the schemas; images, tables and quick views of legacy bodies; markdown inside a line.
* Changing one's own account data; the SMTP exchange of the mail sender.
* The CLI's prompts and the download of an export. A push hashes all local files in one step, and its modes `skip` and
  `suffix` are those of `ImportPlan`.
* In the browser the roster, error frames, sending, the back-off, the list of past sessions, and the other stores and views.
