# A TLA+ model of sqz

sqz compresses what tools print before a language model reads it, and replaces
what the model has already seen by a 13-token reference, `§ref:<hash>§`. The
compressors are functions of a text; the part of the program whose correctness
depends on order, on other processes and on time is the **dedup cache**: a ref
may only be sent while the model can still see the content it names. This
project models that part first, and around it what the programs that share the
cache or stand in for it do concurrently: the database file under several
engines, the browser extension, whose handlers interleave at every `await`, the
VS Code extension, and the installer of the npm package.

## Inventory

| component | state it keeps | operations | what is hard | what makes it correct |
|---|---|---|---|---|
| `CacheManager` (sqz_engine/src/cache_manager.rs) | nothing that outlives a call but the SQLite rows | `check_dedup`, `get_or_compress`, `store_compressed`, `expand_prefix`, `notify_compaction` | every call is several SQL statements, and each shell command is a process of its own | a ref names a content that the model has |
| `SessionStore` (session_store.rs) | tables `cache_entries`, `metadata`, `sessions`, `known_files`, `compression_log` | one method per statement, `clear_cache`, counters, `open_or_create` | no transactions, errors that are swallowed, a recovery that deletes the file after any failed open (SQLite waits 5 seconds for a lock, and a lock held longer, or a change to WAL mode, fails) | an update is lost only to an overlapping one, engines share one file |
| `CliProxy` (sqz/src/cli_proxy.rs) | an in-process set of hashes | `intercept_output`, `predictive_precache`, `track_file` | runs beside other processes of its kind, and stores what it does not send | the output always reaches the model in some form |
| MCP server (sqz-mcp/src/lib.rs) | the engine, `pending_preset` | tool calls, preset hot reload by a watcher thread | calls of several servers share the database | as for the cache; the last valid preset wins |
| `sqz hook precompact`, `sqz compact`, `sqz reset`, `sqz expand` (sqz/src/main.rs) | none | one call into the cache each | they race with requests | after a hook every earlier ref is stale |
| browser extension, content scripts (extension/content/common.js) | the pending compressed text, a lock, a banner, timers | input, paste, mutation, submit and banner handlers | handlers interleave at every `await` | what is submitted is what the user wrote, compressed |
| browser extension, background (extension*/background.js, sqz_wasm.js) | a WASM engine and the promise of its loading, in a worker that the browser ends when it likes | `initWasm`, the message listener, finalisation of an engine | two loads at once, a worker that ends before it answers | an engine in use is not freed, every call returns |
| browser extension, passes (`sqzCompressJS`) | none | 16 passes over a text | what a pass loses, and counters of a run of lines | only what may go is lost, every log line that is not empty is counted |
| browser extension, statistics (`sqzRecordStats`, popup) | a record in `storage.local` | add one, reset | read and write are apart, tabs share it | exact unless they met |
| VS Code extension (vscode-extension/src) | settings, a bridge to the binary, a status bar with an interval and delayed refreshes | commands, opened documents, changed settings | old bridges in timers, a binary that fails, rows written by others | the bar shows what was recorded and catches up |
| npm installer (npm/install.js) | files in bin/ | download, extract, chmod, for two binaries | kills and retries, streams that never settle, two layouts and platforms | success means a usable sqz |
| `PinManager` (pin_manager.rs) | the row of a session | pin, unpin | load, change and save of a whole row | a turn is flagged if and only if it is pinned |
| `BudgetTracker`, `SessionContinuity`, `ContextEvictor` | token counters, snapshots | record, evict, snapshot | u32 sums, thresholds that fire once | counters stay consistent, pinned turns are not evicted |
| throttle, regret tracker, correction log | counters in memory | record, reset | thresholds | monotone levels |
| compressors, pipeline, verifier, router, delta encoder | none | functions of a text | which stage runs when, what is lost | nothing that must stay is dropped |
| dashboard, vizit, API proxy, host integrations, JetBrains plugin, Python package, sandbox | views, files, processes | input and output | – | – |

`PROJECT.json` lists every component with the reason for what is left out, and
every hazard at its line.

**How they interact.** A host (Claude Code, an editor, a shell hook) pipes a
tool's output through `sqz compress`, a process per command, or calls an MCP
server that lives as long as the host. Both use one database,
`~/.sqz/sessions.db`, through `SessionStore`. Before the host compacts its
conversation it runs `sqz hook precompact`, another process, whose only effect
is a row in `metadata`: `last_compaction_at`. The next request, in whatever
process, compares it with the `accessed_at` stamp of the content it was asked
for. That comparison and the age of the stamp are all that stands between the
model and a dangling ref.

The VS Code extension runs `sqz compress` over what the user opens and
`sqz stats` for its bar, so it writes to and reads from the same database. The
browser extension has no database: its content scripts send a text to a
background worker, which answers with the WASM build of the compressors, or not
at all, and then compress it themselves.

## Modules

`DedupCache.tla` models the cache, the store's rows and marker, and every
process that touches them.

- **Steps.** No method opens a transaction, so one SQL statement is one action,
  and `pc[p]` is the next statement of process `p`. `Exists`, `ReadAccessed`,
  `ReadMarker`, `TouchRef` and `SendRef` are the path to a ref; `ListRecent`,
  `Probe` and `ProbeTouch` the delta search; `Compress`, `Save`, `RecordSent`,
  `SendFull` and `SendDelta` the path of a content that is stored; `Recompress`
  and `Resend` the stale row of `get_or_compress`; `NextDependency` and
  `DependenciesDone` the pre-caching of a file's imports; `Lookup` and
  `LookupTouch` the expansion of a ref. `ReadClock` and `WriteMarker` are
  `notify_compaction`, `DeleteRows` and `DeleteMarker` are `clear_cache`.
- **Failures.** `Kill` is a process that dies, or a statement whose error ends
  the call, at any point; `Touch` may do nothing, because its errors are
  swallowed and because its row may be gone; `ReadMarkerFails`, `NotifyFails`,
  `DeleteMarkerFails` and `CompressUnstored` are the errors the code goes on
  after.
- **Data.** A content is a model value and stands for its SHA-256 hash, so the
  model assumes that hashes, and the 16 digits a ref carries, do not collide.
  A row is its `accessed_at` stamp. Which contents are near-duplicates is the
  constant `Near`, and what a file imports the constant `Deps`.
- **What the model sees.** `context`, `sentAt` and `unbacked` are not in the
  code. `context` is what the language model can see: a content enters when it
  is sent in full, or as a delta against a base that is in the context, and
  leaves when the host compacts (all of it) or when the window rolls over,
  which the code assumes happens `max_ref_age` after it was last sent and no
  earlier. `unbacked` collects the contents whose stamp was renewed by
  something that sent nothing.
- **`RefRenews`** says whether a ref keeps the content it names in the window
  for another `max_ref_age`. The code behaves as if it did (it stamps the row
  again): every ref restarts the 30 minutes. Its documentation (cache_manager.rs:112)
  speaks of the time after which the window "has rolled over enough to have dropped
  the original content", which a ref does not bring back. `dedup_race` assumes that
  refs keep nothing, so every content a ref was sent for is in `unbacked` there; the
  other runs grant the code's assumption; of the proofs only those of the serial
  system need it.
- **`Editors`** are CLI processes that the VS Code extension runs: what they
  compress is stored and stamped, and `Discard` throws the answer away.

`PerfectCache.tla` is the abstract promise, with a context, the content asked for
and whether its answer is a ref: a ref is chosen only for what the context has.
`DedupCache` instantiates it as `Perfect`, with the active request for `serving`
and its having decided for `answer`; `ImplementsPerfectCache` is the refinement.

Assumptions on the environment: one conversation uses the database (with two,
a content sent to one is fresh for the other); the clock does not go back and is
fine enough that two instants that matter are different ticks; the host compacts
only after its hook has ended.

`MCDedupCache.tla` holds the instances, `DedupCacheSafety.tla` and `DedupCacheSerial.tla` hold the proofs.

`BrowserInterceptor.tla` models `sqzAttachInterceptor`, the extension's content
script, for one editor.

- **Steps.** JavaScript runs to its next `await`, so a handler up to its `await`
  is one action and what follows is another: `Edit` and `Recheck` run
  `handleInput` up to the compression and `InputCompressed` is the rest; `Paste`
  and `PasteCompressed` are `handlePastedText`. `Accept` and `Dismiss` are the
  banner's buttons, `Submit` is `handleSubmit`, `Invalidate` the reload of the
  extension. `setText` dispatches an input event, so `Write` holds the nested
  `handleInput`. A job that is awaited (`job # None`) is the lock `isProcessing`.
- **Timers.** A page changes its DOM when it likes, so the MutationObserver's
  timer and the one after a short paste are one action that is always possible.
- **Data.** A text is a model value with a length and a trimmed form. The answers
  of the background worker (`Wasm`) and of the JavaScript passes (`Js`) are
  constants; a request is answered by either, since the worker may be away.
- **The editor.** After `setText` the model's editor reads as any text. A textarea
  holds what was written, but `claude.js` writes with `execCommand("insertText")` and
  reads `innerText`, so a contenteditable editor may set lines apart or refuse the
  insertion, and `chatgpt.js` itself asks whether `innerText` differs. The code
  compares trimmed texts: any other text clears the marker in the nested
  `handleInput` and may be compressed at once. `setText` may also throw and change
  nothing. The one assumption is that a text of blanks only is below the threshold.
- **History.** `written` says that the editor holds, up to blanks, what sqz last wrote;
  `tries` counts the compressions of the text since it last changed.

`MCBrowserInterceptor.tla` holds the instance, `BrowserInterceptorProofs.tla` the
proofs.

`SessionStore.tla` models the same database file from below: how an engine opens
its three connections to it one after the other (`Open`), the recovery of
`open_or_create` (`OpenFails`, `Remove`, a second `Open` or `Quit`), and the
updates that are a SELECT and a write: the two counters (`ReadCounter`,
`WriteCounter`) and pin and unpin (`Load`, `Save`), with `Import` writing the same
row at once.

- **Files.** A file is a number in order of creation; `path` is the one that has
  the name. A removed file lives on in the connections to it, as POSIX has it; on
  Windows the removal fails (`RemoveFails`).
- **Failures.** Opening may fail at any time, since a lock, a lack of permission and
  a corrupt file are the same to the code. A read that fails counts as 0, a write
  that fails ends the call, a process ends anywhere, and `Corrupt` is the disk.
- **Data.** A session is its turns, the turns with a pin entry and those with the
  flag. One session is modelled, since every row is updated for itself. What
  `DedupCache` models of the file is left out here and the reverse; they share no
  statement.
- **History.** `acked` is the session as it would be if every pin, unpin and import
  were one step, `counted` the increments written, `overlapped` the items that were
  written between another engine's read and write.

`Extension.tla` models the rest of the browser extension: the background worker of
both browsers, with the generated loader's replacing of the engine and the
finaliser; a call of `sqzCompress` from the message to the result; and the
statistics. `InitWasmChrome` shares one promise, `InitWasmFirefox` has none.
`EndWorker` may come at any time. A tab has one call at a time; a paste that is
compressed beside the typed text of the same page counts as a tab of its own.
`CompressCalls.tla` is what a content script may
expect of such a call, without workers and messages: it comes back once, with one of
its `Outcomes`. `BrowserInterceptor` is written against the same `Outcomes`, so that the
two halves of the extension meet there; `Extension` instantiates it as `Calls`, and
`ImplementsCalls` is the refinement. `Squeeze.tla` holds the passes of `sqzCompressJS`
as operators, on texts that are sequences of units (see below);
`Compression.tla` puts the two together: the lengths that `Extension` works with are
those of documents before and after the passes. `MCExtension.tla` holds the documents
of the instance, `ExtensionProofs.tla` and `SqueezeProofs.tla` the proofs. In `Squeeze`
a loop over lines or sentences is a fold (`Through`, `Select`) written as a recursive
function, not as a recursive operator, so that the prover can follow it.

The units of a text are the lines of a log that are not empty, or the sentences of any
other text. A unit has its length, the newlines before it, a key, the hashes of its
words, what the passes ask of it, and its own lines.

- **Newlines.** Passes 1 and 16, and the end of the log branch, leave two of several
  newlines and none at the end, so empty lines of a log go and are not counted; they
  also end a run of equal lines. `Normalize` and `TrimEnd` are this.
- **Joins.** Passes 5 and 6 join the sentences they keep with blanks (`Joined`), so a
  line of the text may go on with what was a line of its own. Transitions are then
  no longer looked for there, and pass 15 takes the joined line for one.
- **Comments.** What pass 15 takes out is a line that begins with `//` or `#` and has no
  URL, an `#include` as well as a comment. `Commented` asks this of the line of the
  text that a line of a unit is on, with everything that was joined to it.

`VsCode.tla` models the VS Code extension for several windows over one log and
one user's settings. A handler is one step up to an `await` of a dialog, because
`execSync` blocks the window. A binary works, is missing or is flaky, and that
may change between any two calls. `SqzReset` is the command `sqz reset` in a
terminal: it deletes rows of the log, all of them or a project's; `outdated`, which is
not in the code, holds the windows whose bar was drawn before that. A window's
commands get a new bridge when the settings change; its bar keeps its first.
`VsCodeProofs.tla` holds the proofs.

`NpmInstall.tla` models install.js: a step for each call that leaves something on
disk, `Kill` after any of them, and `Install` again over what was left.

- **Streams.** The write stream of `downloadFile` has no error listener: a full or
  unwritable disk is an uncaught exception that ends node with 1, for either binary
  (`StreamFails`). A promise that never settles ends it with 0 (`NeverSettles`).
- **Layouts.** An archive is flat, as the release workflow packs it, nested, or holds
  no binary. tar's path asks for the member `sqz`; in a nested archive that is the
  directory, so tar succeeds and leaves a directory under the binary's name
  (`ExtractFlat`), and the fallback of `ExtractNested` runs only if tar fails for
  another reason. The comment at install.js:85-87 has this layout end in the fallback.
  On Windows a nested binary is moved up only if no file has its name (`Expanded`),
  and the wrapper `bin/sqz` that the package ships may be in its directory's place.
- **What was there.** Removing the old file may fail and is ignored (`RemoveStale`),
  and `unlinkSync` removes no directory; on Windows the wrappers have other names than
  the binaries, so `Init` has nothing under these.
- **Assumed:** `unlinkSync` of an archive that was just read, and `chmod` of a binary
  that was just extracted, succeed.

`NpmInstallProofs.tla` holds the proofs.

## Properties and runs

- `TypeOK`: the type invariant.
- `FreshIsCovered`: whatever `is_ref_fresh` would accept - by a row, or by a
  stamp some process has read and not yet judged - is a content that the model
  has, that a process is about to send, or that is in `unbacked`. So the marker
  and the age check are right in every interleaving, and the ways to a dangling
  ref are the ones that put a content into `unbacked`: the delta search,
  pre-caching, a delta against a base that is gone, a compaction after its hook
  was overtaken or failed, a marker lowered by a slower process or a reset, a
  send that never arrived, and a ref taken to renew what it does not contain.
- `RefsAreCovered`: the decision itself, which uses a stamp and a marker read
  at two different moments, is only taken for such a content.
- `IInv`: the inductive invariant of the proofs.
- `RefsDoNotDangle`: what the documentation promises, "a full version instead of
  a dangling ref".
- `SerialInv`: one activity at a time, nothing in `unbacked`, and a request has
  decided for a ref only to what the model has.
- `ImplementsPerfectCache`: every step is one of `PerfectCache` or a stutter.

In the browser module:

- `BannerIsPending`: what the banner offers is what Enter would write.
- `StableTextIsLeftAlone`: a text that does not change is compressed at most
  twice, however often the timers fire.
- `OwnTextIsLeftAlone`: `handleInput` never compresses what sqz wrote itself, as long as
  the editor gives it back up to blanks. Where it does not, the text is looked at as a
  new one, which `StableTextIsLeftAlone` bounds.
- `LockIsReleased`: `isProcessing` does not stay true.
- `NoBannerNoRewrite`: once the banner is taken down, sqz writes nothing into the
  editor. The code's comments say there is "nothing more to do"; the code keeps an
  earlier pending text, and Enter writes it.

In the store, as parts of `IInv`:

- `UpdatesAreExact`: in every file, counters and session are what one-step updates
  would have made of them, unless a write came between another engine's read and
  its write, or after a read that failed; a counter never counts too much. So the
  read-modify-writes lose updates in no other way, across recoveries, corruption
  and engines that end.
- `PinsAreFlagged`: a turn has a pin entry if and only if it has the flag,
  overlapped or not.
- `OneDatabase`: every connection is to the file that has the name, or to one that
  a recovery has removed. Two engines can be on different files, and one engine's
  three connections too, but only after a recovery; and a recovery removes the file
  it could not open unless another one was faster - then it removes that one's.

In the browser's other half:

- `EngineIsLive`, `ResultNotLonger`, `StatsAreExact` (parts of `IInv`): the engine
  that a worker compresses with has not been freed, unless Firefox loaded it twice;
  a result is never longer than its text; the statistics are what was recorded
  unless a read of them was overtaken.
- `ImplementsCalls`: under a worker that comes and goes, a tab sees one result per call,
  and an answer that it uses is one of the engine to this text, not to one whose call
  was left, and is shorter.
- `EveryCallReturns`: every call of `sqzCompress` returns, which `LockIsReleased`
  of the interceptor rests on.
- `LogsAreCounted`: the lines of a squeezed log stand for runs of the log's lines that
  are not empty (`Accounts`), one after the other from the first line to the last,
  without a gap and without counting one twice; all lines of a run are equal, and no
  empty line was between them. Empty lines themselves are not accounted for.
- `AllLossesAreExpendable`: a sentence that pass 5 drops is near an earlier one that it
  kept (`NearKept`); of prose and markdown at most 15 % of those left by then go, none
  of them the first, short or with figures (`MayBePruned`); of code a line goes only
  with the comment it is on (`CommentMayGo`); and what stays is in order. Code that
  follows a comment is lost where pass 5 has joined the lines: the property allows it,
  since the code does it, and shows that without a join only lines that begin like a
  comment go.
- `NothingIsLengthened`: no text gets longer, although JSON is returned without
  being compared with the input: each of its forms is compared with the text that the
  first passes left, and these never lengthen a line.

The last three are about what the passes do to a text, which does not depend on the
state, so they are asked of the initial state.

In VS Code:

- `ShownWasRecorded`, `SettingsAreUsed`, `TimersFollowPhase` (parts of `IInv`): a bar
  shows more than the log has only until it is next drawn after rows were deleted, and
  once told of a change a window's commands use the settings. The bar itself keeps the
  binary it was started with.
- `NoDataIsAFailure`: "no data" over a log with rows comes only from a failed call of
  the bar's own binary; the user cannot tell it from an empty log.
- `BarCatchesUp`: what anyone has recorded, and nobody deletes, is shown in the end by
  every window whose bar has a binary that works, and what was deleted leaves the bar.
  `DisposedIsQuiet`: after `deactivate` the timers end.

In the installer:

- `SuccessInstallsSqz`, `ArchivesAreRemoved` (parts of `IInv`): an install that comes
  to its end with 0 has installed sqz (`Installed`), and no archive is left of a binary
  that was tried, whatever was interrupted before. Installed is, from a flat archive,
  the binary, whole and, off Windows, executable; off Windows a nested archive gives
  the binary or its directory. On Windows nothing is promised of the other layouts,
  since half a binary that could not be removed may stay.
- `OnlySqzFails`: the optional binary fails an install only by an uncaught error of its
  stream, and then sqz is installed.
- `SqzIsInstalled`: "required, install fails if this is missing", also where the
  promise of the download never settles; it is violated.

| run | system | shows |
|---|---|---|
| `dedup_race` | a CLI process, an MCP server, a hook, `sqz compact`, reset, 1 content, every interleaving | `TypeOK`, `IInv`, `RefsAreCovered` |
| `dedup_mixed` | a CLI process, VS Code, an MCP server, a hook, reset, kills; 2 near-duplicates that import each other; one request at a time, the rest at any time | `FreshIsCovered`, `RefsAreCovered` |
| `dedup_serial` | one request at a time, CLI only, no imports, refs renew | `SerialInv`, `RefsDoNotDangle`, `ImplementsPerfectCache` |
| `dedup_probe` | one MCP server, one request at a time | violated: the delta search renews stamps |
| `dedup_precache` | one CLI process at a time, an import | violated: pre-caching makes unsent contents fresh |
| `store` | two engines, one session of two turns or of none, one recovery | `TypeOK`, `IInv` |
| `browser` | two pastes in compression, five texts | types, `IInv`, banner and pending text agree, at most two compressions of a text, own text that is read back is left alone, the lock is released |
| `browser_stable` | no pastes | violated: Enter writes a pending text whose banner was taken down |
| `extension` | two tabs, both browsers, three texts; some 5,200 texts for the passes | types, `IInv`, logs are counted, losses are expendable, nothing is lengthened, `ImplementsCalls`, every call returns |
| `vscode` | one window, two binaries, three files, shell hooks, resets of the log | types, `IInv`, `NoDataIsAFailure`, `BarCatchesUp`, `DisposedIsQuiet` |
| `npm` | both platforms and an unsupported one, all layouts and answers, failing streams and removals, kills, retries | types, `IInv`, `OnlySqzFails` |
| `npm_redirect` | a host that answers with redirects | violated: the install ends with 0 and no sqz |

For the cache, `Spec` allows every interleaving and failure. `AloneSpec` lets a
request begin only when no other is under way, and hooks, compactions, resets,
kills and failures come at any time. `SerialSpec` has one request, hook or reset at
a time, no kills and no failing marker statement; the cache's two violated runs
check what the documentation says on it, so that neither depends on a race, and
`dedup_serial` shows that what they change is the cause.

Seen while modelling, and in the models as it is: in Firefox a message that comes
before the first load of the engine has ended starts a second load, and the
finaliser of the first engine then frees the second's memory
(sqz_wasm.js:152-154, background.js:16-35); VS Code's `sqz cost --session` and
`sqz export --session` pass options that the command line does not have, so these
calls always fail, and its pin commands run nothing; after a change of
`sqz.binaryPath` its bar goes on with the old binary (extension.ts:72-73); on Windows
the installer does not notice an archive without the binary, and elsewhere it takes
the directory of a nested archive for the binary (install.js:116-119).

**Bounds.** In the cache, the clock (`MaxTime`) is 3 with `MaxRefAge` 2 in the concurrent runs:
enough to send, compact or age, and ask again, and it has two notifiers out of
order. The serial run has a clock of 6 with an age of 3: two windows, or two
compactions, one after the other. One content is enough for races between
processes, since rows of different contents meet only in the delta search and in
pre-caching, which `dedup_mixed` has with two, and which symmetry does not tell
apart there. `ProbeLimit` is 1 instead of 10: with two
contents there is one other row to probe.

The five texts of the browser runs are the empty one, two long ones with the same
number of tokens (so that the counter of the stable state spans two texts), of
which one cannot be compressed, and a compression that is still longer than the
threshold, with and without a blank at its end. `stableCount` stops at 3, the most
it is compared with.

In the store, `MaxFiles` 2 is one recovery over one database, or a creation and a
recovery; `MaxCalls` 2 is one overlap of two updates; engines and turns are
symmetric. In `Extension`, `MaxRecorded` bounds the offers that are taken, and a tab
does not send again while the worker still loads for its last message. The first
read of the statistics is bounded with it. In `VsCode`, one window is enough for
its own timers and bridges, because windows meet only in the log, which
`ShellHook` writes too; the proofs are for any number. `MaxLog` 2 tells a first
row from a second, `MaxDelayed` 1 a pending refresh from none. `Health` is without
`missing` there: each outcome that a call of a missing binary has is one of a flaky
binary's, and the properties tell only a binary that works from others; the proofs
have all three. `NpmInstall` has no bound. Nothing deadlocks in any run.

The texts of the passes are: logs of four lines with every pattern of repetitions, of
lines that are nothing but a time, and of empty lines between them; sentences whose
fingerprints form a chain in which neighbours are near and ends are not, in every
order, with short ones among them; three sentences of code and comments, on lines of
their own or not, of one line or two, with a URL or none, any two of which may be alike,
so that what they stand between is joined; essays of 8, 9 and 14 sentences, on both
sides of the length from which pass 6 prunes, with and without newlines at their end;
JSON on both sides of the sampling limit, with a compact form that is shorter or longer
than the text; and short lines that a counter would make longer. There are texts among
them of which a join loses code, of which comments go without one, and of which pass 6
drops two sentences.

No fairness is assumed of the cache, the store or the installer, and no liveness is
stated of them: a process that is killed leaves nothing that another one waits for. `LockIsReleased` assumes weak
fairness of `InputCompressed` while the extension is there, because
`sqzCompressViaBackground` resolves in every case: with the answer, with null on
`lastError`, and with null if `sendMessage` throws. Nothing is assumed of the user,
of the timers or of pastes. `EveryCallReturns` assumes that the browser starts a
worker for a message and delivers it to one that runs long enough (strong fairness
of `OnMessage`, since workers come and go meanwhile), that a load ends, well or
badly, and that both threads go on; it may still end the worker at every other
point. `BarCatchesUp` and `DisposedIsQuiet` assume that timers fire and that a change
of the settings is delivered; nothing of the user or of the binary.

## What is proved

For every set of contents, processes and hooks, every import relation and
near-duplicate relation, every age limit, both values of `RefRenews` and every
clock bound:

- `TypeCorrect`: `Spec => []TypeOK`
- `InvCorrect`: `Spec => []IInv`
- `FreshCorrect`: `Spec => []FreshIsCovered`
- `RefsCorrect`: `Spec => RefsAreCovered`
- `AloneCorrect`: `AloneSpec => []FreshIsCovered /\ RefsAreCovered`

from the assumptions named in `DedupCache.tla`: the kinds of processes are
disjoint, a file does not import itself, the bounds are numbers and an age limit
is positive.

**The argument.** `FreshIsCovered` alone is not inductive. When the window rolls
over a content, its stamps must be too old to be fresh; so the invariant says
that a stamp of a content in the context is no later than its last delivery,
unless a delivery is pending (`StampsAreBacked`). When the host compacts, its
hook's marker must still be there or the hook be known to be overtaken
(`MarkerKept`). No stamp is in the future (`ClockAhead`), and a process knows
which content it handles (`LocalsConsistent`). `DedupCacheSafety` reduces the
twenty statements of a process to one `Effect` on a content - left alone, pending
afterwards, or sent - proves once that an effect keeps the invariant, and treats
the other actions one by one.

For every set of texts, every answer of the background and of the passes, every
threshold and any number of pastes, from `TextsAssumption` and `BlankAssumption`
of `BrowserInterceptor.tla`, `BrowserInterceptorProofs` proves `TypeCorrect`,
`InvCorrect`, `BannerCorrect`, `StableCorrect` and `OwnTextCorrect`. That a text is
compressed at most twice is inductive only together with `TriesCounted`: the
compressions of the text were counted under its own number of tokens, so the
counter of the stable state is never behind them. That sqz leaves its own text
alone needs `OwnIsMarked`: what sqz wrote, and the editor gives back, still has its
marker, or is too short. Nothing is assumed of what the editor gives back.

For the serial system, under `PlainCli` (CLI processes only, no imports, refs that
keep what they name), `DedupCacheSerial` proves `SerialCorrect`
(`SerialSpec => []SerialInv`), `NoDanglingRef` (`SerialSpec => RefsDoNotDangle`) and
`PerfectCorrect` (`SerialSpec => ImplementsPerfectCache`). Together with `IInv`, which
the serial system keeps as well, the argument is: what `is_ref_fresh` accepts is in
the context or pending; nothing is pending but the request itself, and a request has
nothing under way before it decides; so it decides for a ref only to what is in the
context, and until it has answered nothing can take that away, because compactions
and the window's roll-over wait for it.

`SessionStoreProofs` proves `TypeCorrect` and `InvCorrect` for any engines, turns,
exported sessions and bounds. `UpdatesAreExact` is inductive with `ReadsAreCurrent`:
what an engine has read is still there, or the item is in `overlapped`. That needs
`AllOpened` (no engine works without its connections) and `FilesConsistent`.

`ExtensionProofs` proves `TypeCorrect` and `InvCorrect` for any tabs, texts and
answers. `EngineIsLive` needs `OneEngine`: Chrome's promise admits one load, so there
is never an older engine to finalise. `CallsCorrect` is the refinement
(`Spec => ImplementsCalls`); it needs of `CallsConsistent` that an answer is kept only
from its arrival to the return of the call it was given to. `VsCodeProofs` proves
`TypeCorrect`, `InvCorrect` and `NoDataCorrect` for any windows, binaries, documents and
rows;
`NpmInstallProofs` proves `TypeCorrect`, `InvCorrect` and `OnlySqzFailsCorrect`, where
`SuccessInstallsSqz` needs `Progress`: how far the binary under way has got, and that
sqz is installed before sqz-mcp is begun, which `OnlySqzFails` rests on as well.

`SqueezeProofs` proves `LogLinesAreCounted`, `LossesAreExpendable` and
`SqueezingShortens` for texts of any length, any vocabulary of hashes and any
document, where a run has some 5,200 short ones. They need an induction along the text.
The library's induction theorems take an operator, which the prover cannot
instantiate; `Induction` states it for a set of numbers instead, from the theorem that
the natural numbers are well-founded, and `Folds` derives from it that a fold has a
value at every unit. A pass is then followed by an invariant of its loop: `Pending`
for the log (the run that is open goes up to the last line taken), `KeptOf` for
pass 5 (whatever was dropped is near something kept, and the prints are those of
what was kept). For code, `ShrunkComments` carries the lines of the text through the
first passes: a comment that they leave is one of the text unless pass 5 has joined
sentences. The 15 % of pass 6 come from ranks: no two sentences that can be
pruned have the same number of less dense ones before them (`RankGrows`), so at most
as many go as there are ranks below the limit. `PassesMeetTheAssumption` shows that
what `Extension` assumes of the passes (`JsAssumption`) holds of them.

Only model-checked: the liveness properties (`LockIsReleased`, `EveryCallReturns`,
`BarCatchesUp`, `DisposedIsQuiet`), which the prover does not reach, and the
counterexamples.

## Not modelled

The text of outputs, formatters and annotations; collisions of hashes; several
conversations; a clock that goes back; `invalidate` and `evict_lru`, which nothing
outside tests calls; the compression log's rows and the known files, each a
statement of its own. Recovery and dedup cache are not composed: a recovery empties
the cache as a reset does and leaves engines on the old file with theirs, so each is
one of `DedupCache`'s systems. In the browser: an editor that a site replaces after sqz has
attached to the first, and the popup's settings, which nothing reads. In VS Code:
the temporary file of an import, which two windows can share, and the numbers that the
bar shows beside the count. In the passes: characters, so that what one pass takes out
makes no pattern for a later one, except where lines are merged. In the installer: an
archive that cannot be removed, and what an unpacked directory holds.

The Rust compressors, pipeline, verifier and encoders are functions of characters
without state; readers, the API proxy, host integrations and the sandbox are input
and output in one call. The JetBrains plugin repeats in Kotlin what `VsCode` models in
TypeScript, and the Python package downloads and runs the binary.

Three parts have state and are left for an extension, in this order: the preset's hot
reload (a watcher thread, `pending_preset` and the MCP server's calls);
`SessionContinuity`, whose snapshot takes events by priority within a size; and the
throttle, regret tracker and correction log, counters in one process's memory.
`BudgetTracker`'s sums saturate in one place and could overflow in another
(budget_tracker.rs:43), but no program of the repository records into the tracker; the
subtraction of `sqz compact` (main.rs:2238) is listed as a hazard without a property,
being one expression over one list.
