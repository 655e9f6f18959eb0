# A formal model of phomemo

TLA+ models of the bridge daemon (`src/src/phomemo`), the printer application
(`src/src/printer-app`) and the printer as both rely on it; TLC runs that check
them on small instances, and TLAPS proofs for every value of the constants.
Paths below are those of the repository, with `bridge/` for
`src/src/phomemo/src/phomemo/bridge/` and so on.

`PROJECT.json` is the index: components, runs, the source lines behind every
definition, hazards, findings and theorems. It also lists, for every property,
a plausible bug (`Bug_...` in the modules) that the property catches.

## 1. The system

```
 CUPS/PAPPL ── job callbacks ── bridge client (C) ──┐
                                                     │ unix socket, JSON lines
 command line ── BridgeClient (Python) ──────────────┤ + raw rows
                                                     ▼
              Session (one client, one command at a time)
                 │ page_end, wait_ready, open, eject ...
                 ▼
              Bridge (the printer object, idle timer)
                 ▼
              Printer (raster stream, queries, events)
                 ▼
              BleTransport ── BlueZ ── printer (lid, sensor, motor)
```

| Component | State it keeps | Operations | Hard because | Correct when |
|---|---|---|---|---|
| Raster stream and transfer (`printer.py`, `protocol.py`) | bytes written, rows_sent, lid/paper/abort events | build stream, write chunk, stop and pad | a stop cuts the stream at any byte; the printer counts bytes | the printer never reads a command as pixels; rows_sent is exact |
| Page pipeline (`session._cmd_page_end`, `printer.print_bitmap`) | where the page stands, unanswered queries, abort | print, eject, reconnect, wait for a sheet, settle | user, printer, link and host act at once; a mute printer; late notifications | ok means a whole page, no second copy, cancel always answered |
| Sessions (`bridge/session.py`, `bridge/client.py`) | active session, pending command, abort event, sockets | admit, refuse, take, abort, finish, end | messages cross; a client vanishes under a command | exclusive service, replies match, cancel hits its own command |
| Link and idle timer (`transport.py`, `server.py`) | BleakClient, connected flag, timer handle, disconnect task | connect, write, disconnect, hold | a timer task beside the commands, callbacks of old clients | no connection is orphaned; an idle one is dropped |
| Choice of the printer (`server.py`, `registry.py`) | printer object, whether its model was named, page in progress | open, scan, connect, refine by serial, retarget | state survives sessions and failed connects; printers come and go | pages come out on the printer and as the model named |
| Printer app job (`job.c`, `bridge.c`, `device.c`) | row buffer, page/abort/failed flags, socket | five callbacks, call, reply, open/close | event callback inside the read loop; partial failures; bridge restarts | whole pages only, no silent loss, cancel ends the job |
| Printer events and query waiters (`printer.py`, `events.py`) | listeners, waiters by type | dispatch, query | an answer before its waiter; a stale answer; an unasked event of the same type | what a command reports is what the printer was, unless something was under way |
| Paper eject (`printer.eject_paper`) | feeds sent, absent event | feed, wait | a queue ahead of a motor, an event that is late or old | it ends; "out" means out |
| Status, info, identify, auto-off, test page (`bridge/session.py`) | last-seen cache | sequences of queries and feeds | a mute printer, a late answer | the timer reported is the printer's own |
| Server start/stop (`server.serve`) | listening socket | start, stop, last disconnect | open connections and timer tasks at shutdown | a stopped bridge ends, and leaves no connection it knows of |
| Page layout (`driver.c`, `client.py`, `imaging.py`, `registry.py`) | the page buffer | page_begin, lines, page_end, print_image | roundings of four conversions add up; two programs decide about a turn | no page runs its sheet out, none is cut that fits |
| Socket framing (`bridge/protocol.py`, `bridge.c`) | receive buffer | read line, read payload | split anywhere | message boundaries kept |
| Configuration, drawing of the test page, command line, driver tables | none or static | - | - | - |

Interactions: the application and the command line call the bridge over the
socket; the bridge pushes events to them from inside a command; `Session` calls
`Bridge` and `Printer` and is called back through event listeners; the timer
and the transport's disconnect callback run on the same event loop between any
two awaits. Everything in the bridge is one thread, so an *await* is where
interleaving happens; in the application one PAPPL thread per job blocks in
`phomemo_bridge_reply` and interleaves with the bridge only.

The 40 hazards these parts are exposed to, each at its line and with the
properties that watch it, are in `PROJECT.json`.

## 2. Modules

Each module has one action per step between two awaits (Python) or per step
between two blocking reads (C); a step contains everything the code does there.

| Module | Code | State ↔ code |
|---|---|---|
| `RasterTransfer` | `_build_raster_stream`, `_transfer`, `_pad_band`, `_rows_before` | byte offset `sent`; the stream is given by offsets of its headers, bands and tail, never byte by byte; `parser` is a printer that counts the bytes a header announced |
| `PagePipeline` | `_cmd_page_end`, `_wait_for_fresh_sheet`, `_wait_ready`, `print_bitmap`, `check_ready`, `wait_for_ready`, `reconnect`, `eject_paper` | `pc` is the await the coroutine is at, `caller` its caller; `timeouts`/`inner` the counters of unanswered queries; `room`, `ink`, `buf`, `motor`, `mute`, `notes` the printer |
| `BridgeSession` | `Session.run`, `_loop`, `_run_command`; `BridgeClient` | per client: `at`, `call`, sockets `up`/`down`; `session`, `pending`, `flag` (= `_abort`), `active` (= `session_active`) |
| `BridgeService` | the promise of the above | `holders`, `running`: the abstract specification |
| `BridgeLink` | `BleTransport`, `Bridge.start_hold/_expire_hold/cancel_hold`, commands' use of the link, `serve` | `client`, `connected`; `hold` (= `_hold_handle`), `task` (= `_hold_task`), `attached`: clients the operating system has on the connection; `server` how far `serve` got, `last` the client its own disconnect waits for; `broken` is history: a write failed on the connection that is up |
| `Targeting` | `Bridge.connect`, `_new_printer`, `_refine_model`, `discover`, `_read_serial`, `profile_for_name` | `printer`, `explicit` (= `_model_explicit`), `linked`; `unread` the scanned printers `discover` still has to ask, `probe` the one it is connected to for that; `named`, `page`, `printed` are history |
| `PrinterEvents` | `_dispatch_event`, `_query`, `_wait_for`, and the printer behind them | `waiter` (= the entry of `_waiters`), `absent` (= the event of `eject_paper`), `inbox` and `notes` what is under way to and from the printer; `rollers`: the printer still holds a sheet behind its sensor |
| `PrinterCommands` | `check_ready`, `query_device_info`, `set_auto_off_timer`, `eject_paper`; the commands status, info, auto_off, eject, identify, test_page; `_apply_auto_off` | `op` the command, `todo` its steps to come, `sent` the feeds of `eject_paper`, `says` its answer; `since` is history |
| `PageLayout` | `width_across`, `phomemo_should_rotate`, `phomemo_media_length_mm`; `page_begin`, `lines`, `page_end` up to the bitmap; `prepare_page`, `rows_for`, `lead_rows`; `print_image` and `prepare_image` | `page` (= `Session._page`, its rows counted), `printed` what was prepared of it |
| `PrinterAppJob` | `job.c`, `bridge.c`, `device.c`, and the session as they see it | `held`, `pageOpen`, `abortSent`, `failed` as in `phomemo_job_t`; `fd`; `doing`/`ret` the call in progress; `got` the page in the bridge |
| `MC...` | - | constant values for TLC |
| `..._proofs` | - | TLAPS proofs |

How they fit: `BridgeSession` establishes that one session runs at a time and
one command in it. `BridgeLink`, `Targeting` and `PagePipeline` take that as
their frame: they have one command at a time.  So does `PrinterCommands`, which
extends `PrinterEvents`, the part every query shares, with the commands. `PagePipeline` counts a page in
pieces; `RasterTransfer` says what a piece cut in the middle owes the printer.
What it sends in pieces is the bitmap `PageLayout` prepares.
`PrinterAppJob` sees the bridge through the messages of `BridgeSession`.
`BridgeSession` is shown to implement `BridgeService` by the mapping
`holders = {c : Served(c)}`, `running = {c : pending[c] # NoCommand}`.

## 3. Runs

| Run | Configuration | Shows |
|---|---|---|
| `raster` | band height 2, rows of 2 bytes, pages of 1, 2, 3 and 5 rows, chunks of 6, 7, 9 and 20 bytes | stopping at any byte keeps the parser in sync (`ParserInSync`), `rows_sent` is exact (`RowsSentExact`), a stop never follows a complete page (`StopMeansUnfinished`) |
| `page` | 3 pieces, sheet of 2 as short sheet, mute threshold 2, two faults out of six kinds | `OkMeansWhole`, `OneCopy`, `FreshSheet`, `OnlyCancelLosesPage`, `AbortAnswered`, `PageEnds` |
| `sessions` | two clients, one of which also aborts when idle while the other sends early or sends what is no message; two commands each, three in all, some of them unknown to the bridge | `OneServed`, `RepliesMatch`, `CancelIsMine`, refinement of `BridgeService`, `CancelIsAnswered`, `GoneIsReleased` |
| `link` | five BleakClient objects, all commands, write errors, scan before connect, a stop of the bridge at any moment | `NoOrphanLink`, `TimerCountsCommands`, `IdleLinkIsDropped`, `ReleasedAtExit`, `StopEnds` |
| `target` | two printers, two models each, one pair sharing settings; clients that name address and model, a model, or nothing; `discover` between the commands | `TypeOK` (a probe never takes the held printer), `PrintsWhereNamed`, `ModelKept`, `ModelSettled`, `PageFitsModel` |
| `job` | 3 rows in messages of 2, two pages in one or two jobs, the bridge stops once | `TypeOK` (with "replies stay in step with calls"), `PagesWhole`, `LossIsReported`, `CancelEndsJob` |
| `eject` | sheets of one or two feeds, at most three feeds, two auto-off settings; six commands, one query of `info` whose answer decides nothing | `ReadyWasSeen`, `TimerIsTrue`, `EjectedIsOut`, `CommandEnds` |
| `layout` | a head of 1680 px at 203 dpi with A4 as its sheet and one of 832 px at 300 dpi for rolls; A4, A5 and A6; four sizes of image files | `SheetOutlastsPage`, `SheetIsFilled` |

Runs that find a disagreement between the code and its documentation:

| Run | Property | What happens |
|---|---|---|
| `idle_abort` | `AbortReturns` | `BridgeClient.abort()` with nothing pending waits for the message its own `reply()` skips |
| `timer_race` | `NoOrphanLink` | a connect during the timer's disconnect is forgotten by the `finally` of that disconnect |
| `queued` | `QueuedJobsPrint` | after a restart between two jobs a stale descriptor passes `fd >= 0` |
| `wrong_printer` | `PrintsWhereNamed` | the named printer is not found, a later connect of the session takes another |

`PROJECT.json` also lists findings that need no run of their own, each with the
line of the code and the words it contradicts.  Two of them come from the
models: with `StopsInCallback = TRUE`, `CancelEndsJob` of `PrinterAppJob` fails
(the bridge stops under an event callback, and the read loop polls descriptor
-1 for ever); and `PagePipeline` with `"drop"` among its faults reaches the
reply "connection lost" when the link drops while the motor stop is awaited.

### Bounds, and why they are enough

- `raster`: the pages have one to three bands, the last full or short; the
  chunks cut headers, rows, band ends and the trailing feed, and abort, lid and
  sheet events may come before any of them. The proof lifts the bound.
- `page`: three pieces give a first, a middle and a last one; the sensor goes
  clear one piece before the sheet ends and the short sheet ends before the
  page. Two faults allow a second one in the recovery from the first; the
  number of unanswered queries is compared with a threshold of 2 (3 in the
  code), enough to tell "counted" from "reset".
- `sessions`: two clients contend; three commands in all allow a reply, an
  abort and a next command that could be hit by it on the same connection.
  The proof of exclusive service holds for any set of clients.
- `link`: five clients are enough to find one that is unused (the command's,
  the task's, the transport's, one attached, and a fresh one). The model has
  no other bound.
- `target`: one printer whose variant needs a new connection and one whose
  variant does not; no other bound.
- `eject`: two feeds ahead of the motor and three in all leave one to be sent
  after the first wait, so that the event may come before, between and after
  them; a sheet of two feeds may be out by the feeds that are queued or need the
  third.  `MaxInbox = 2` lets a feed wait behind a query, `MaxNotes = 3` an old
  answer, an unasked event and the answer of now be under way together; a printer whose queue is
  full waits.  `status` and `test_page` run the same steps as `info` does and
  are left out of `Ops` for the size of the run only.
- `layout`: the widths and lengths make every branch occur: sheets that lie
  across the head, upright and lying rasters, pages shorter than the lead,
  images bounded by width and by length.  `Counts` are the rows a message may
  announce: none, a message of the command line's client, and more than fit.
- `job`: 3 rows in messages of 2 give a full message and a rest; two pages
  cover two pages of a job and two jobs on one device. One stop of the bridge.

### Choices in the constants that matter

The properties of a passing run hold under conditions that are stated, not hidden:

- `page`: `OnlyCancelLosesPage` and `FreshSheet` are claimed for *ordinary*
  faults, the ones `docs/print-flow.md` says a page survives (lid opened during
  the page, sheet too short). Dropping the condition shows, with `"off"`: a
  printer that went away before `print_bitmap` starts raises `RuntimeError`,
  which ends the page; with `"drop"`: the final eject is unprotected; with
  `"lid while ejecting"`: the result of the eject is ignored and the used sheet
  is printed over. Adding `"quick lid"` to `Faults` violates `OkMeansWhole`: a
  lid opened and closed again after the last chunk is closed when asked.
- `link`: `First = {"open"}` (the printer application always begins so). With
  any of `"wait_ready"`, `"page_end"` and `"status"` in `First`,
  `TimerCountsCommands` fails, since a command that finds the connection up
  neither stops nor restarts the timer, which may fire under it; and so does
  `IdleLinkIsDropped`, since `wait_ready`, which then need not follow an `open`,
  does not claim the link. `CHECK_DEADLOCK` is off because a bridge that was stopped
  really stops. A disconnect that a task has asked for when the process ends is
  taken to go through. `IdleLinkIsDropped` and `ReleasedAtExit` leave out a
  connection on which a write failed (`broken`): the transport takes it for gone,
  so that no timer is armed for it and no disconnect reaches it (a finding). `TimerRaces` and `Scans` are discussed at `timer_race`.
- `target`: a client names address *and* model, or nothing.
  `SerialMayFail = FALSE` keeps a failed serial query out: the documentation
  says that the name's model then stays, so `ModelSettled` is not promised.
  `ModelKept` speaks of models the bridge has noted as named; that an `open`
  which names the *current* model is not noted is a finding without a run.
  Names of unregistered models are in the model (`Unknown`) but in no run: the
  reply to such an `open` is `connected: false`, which the application ignores.
- `job`: `StopsInCallback = FALSE`, see above. Its pages and stops may
  come in any order; a `page_begin` that is refused, a raster PAPPL ends short of
  its rows and a `page_end` without a printer are among its behaviours.
- `eject`: `ReadyWasSeen`, `TimerIsTrue` and `EjectedIsOut` are claimed of
  commands that found nothing under way that could be taken for their answers
  (`since.calm`): an event has no number that would tie it to its query, so an
  answer that comes after its query gave up is given to the next query of its
  type. The barrier of `_answering_printer`, a query of its own before the
  others, is what makes this rare; without it `TimerIsTrue` fails. A user who
  moves the sheet while a command asks for it ends the calm as well, but for the
  sheet that `eject_paper` feeds: pulling it is among what `EjectedIsOut` covers,
  inserting another is not. What it says is that no sheet is at the sensor, and
  that none stays in the rollers (`rollers`) once the clearing feed has run; that
  feed is lost only to a printer that goes mute or to a link that drops. With an
  absent event of an earlier sheet under way at the call the answer may be wrong,
  which is a finding (`printer.py:416`).
- `layout`: `SheetOutlastsPage` needs a bottom margin that is longer than the
  feed behind the page, and of the library's fits it speaks of `fit_page` only,
  as `docs/library.md` does. The product of floats in `prepare_image` may come
  out one row lower than the exact one; the model allows both.

## 4. Fairness

Nothing is assumed of users unless a property says so.

- `PagePipeline`: the coroutine, the printer and the delivery of notifications
  are weakly fair: the event loop runs what can run. The settle deadline is
  strongly fair because it is a point in time: the code compares the clock in
  each turn, so it cannot be missed for ever although other branches of the
  loop may be enabled in between. `PageEnds` assumes a user who closes the lid,
  switches the printer on and inserts sheets, and says so in its formula.
- `BridgeSession`: reading sockets, taking and refusing messages and ending
  sessions are weakly fair per client; a client
  whose connection the bridge has closed sends nothing more (`Open`) and leaves; a command ends by itself only if it is
  quick or aborted. That an aborted command does end is what `AbortAnswered`
  of `PagePipeline` shows of the longest one.
- `BridgeLink`: the timer fires and its task runs on, and so does `serve` once
  it is stopped; commands owe nothing. `StopEnds` therefore assumes that the
  clients leave, and says so: since Python 3.12 `serve` waits for them.
- `PrinterCommands`: the command's coroutine runs on and its waits time out, the
  printer runs what it was sent, and notifications are delivered.
- `PrinterAppJob`: the job's thread, the session's loop and replies of
  commands that do not wait for the user; a waiting command ends if aborted.
- `RasterTransfer`, `Targeting`, `PageLayout`: safety only.

## 5. Proofs

| Theorem | Statement |
|---|---|
| `RasterTransfer_proofs!TransferTypes` | `Spec => []TypeOK` |
| `RasterTransfer_proofs!TransferKeepsSync` | `Spec => []ParserInSync`: for every profile, page height, chunk size and moment of a stop |
| `RasterTransfer_proofs!RowsAreCounted`, `StopLeavesRows` | `Spec => []RowsSentExact`, `Spec => []StopMeansUnfinished`: likewise |
| `RasterTransfer_proofs!ProgressIsWhole` | the rows reported never fall, and a page whose stream is out has them all |
| `RasterTransfer_proofs!StopCostsLessThanABand` | a stop is padded with less than a band, and nothing of the trailing feed follows |
| `RasterTransfer_proofs!HostAdvances` | each step of the host hands bytes to the link or leaves its loop for good |
| `PagePipeline_proofs!PageTypes` | `Spec => []TypeOK`: also that the counts of unanswered queries stay below the threshold |
| `PagePipeline_proofs!OkIsWhole` | `NoQuickLid` gives `Spec => []OkMeansWhole`: for every page length, sheet, threshold, set and number of faults |
| `PagePipeline_proofs!SheetIsFresh`, `OnlyCancelLoses` | `Spec => []FreshSheet`, `Spec => []OnlyCancelLosesPage` |
| `PagePipeline_proofs!OneCopyPerFault` | `Spec => []OneCopy`: whatever the faults |
| `BridgeSession_proofs!SessionTypes` | `Spec => []TypeOK`, with "a command runs only in a session that is not over" |
| `BridgeSession_proofs!OneClientServed` | `Spec => []OneServed`: for any set of clients |
| `BridgeSession_proofs!SessionsImplementService` | `Spec => ImplementsService` |
| `BridgeSession_proofs!RepliesAreMatched`, `OwnCancelOnly` | `Spec => []RepliesMatch`, `Spec => []CancelIsMine` |
| `BridgeSession_proofs!CancelsReach` | a client that awaits a reply while its session reads has its command on the way, running or answered, and a cancel of it behind it on the way or at its Event |
| `BridgeSession_proofs!GoneIsAborted` | the end of a session waits only for a command whose Event is set |
| `BridgeLink_proofs!LinkTypes` | `Spec => []TypeOK`: for any number of client objects |
| `BridgeLink_proofs!TimerCounts` | `StopsTimer` gives `Spec => TimerCountsCommands` (an action property) |
| `BridgeLink_proofs!IdleLinkIsTimed` | `OneAtATime` gives: a connection that is up while no session is served, and on which no write failed, is the transport's with its timer armed or its task about to drop it, or it is being disconnected by that task or by `serve` |
| `BridgeLink_proofs!NoLinkIsOrphaned`, `ExitReleases` | `OneAtATime` gives `Spec => []NoOrphanLink` and `Spec => ReleasedAtExit` (an action property) |
| `Targeting_proofs!TargetingTypes` | `Spec => []TypeOK`: for any printers, models, names and serials |
| `Targeting_proofs!NamedModelIsKept` | `KnownModels` gives `Spec => []ModelKept` |
| `Targeting_proofs!NamedPrinterPrints` | `NamesBoth` gives `Spec => []PrintsWhereNamed` |
| `Targeting_proofs!ModelIsSettled`, `PageKeepsModel` | `~SerialMayFail` gives `Spec => []ModelSettled` and `Spec => []PageFitsModel` |
| `PrinterCommands_proofs!CommandTypes` | `Spec => []TypeOK`: for any steps of `info`, pulses, settings and bounds |
| `PrinterCommands_proofs!ReadinessIsSeen` | `Spec => []ReadyWasSeen` |
| `PrinterCommands_proofs!EjectedSheetIsOut` | `Spec => []EjectedIsOut`: the sheet is out of the sensor and the feed that clears the rollers has run, is under way, or was lost to a mute printer or a dropped link; if the call was calm (section 3, `eject`) |
| `PrinterCommands_proofs!ReportedTimerIsTrue` | `Spec => []TimerIsTrue` |
| `PrinterAppJob_proofs!JobTypes` | `Spec => []TypeOK`, with "replies keep in step with calls": for any page length, message size, pages and stops of the bridge, under a callback or not |
| `PrinterAppJob_proofs!PagesAreWhole` | `Spec => []PagesWhole` |
| `PrinterAppJob_proofs!LossesAreReported` | `Spec => []LossIsReported` |
| `PrinterAppJob_proofs!CallsAreServed` | a call on a connection that is up has its command on the way, running or answered |
| `PrinterAppJob_proofs!ReaderHasSocket` | `~StopsInCallback` gives: a call that waits for its reply has a descriptor to poll |
| `PageLayout_proofs!PagesKeepSheet` | `Spec => []SheetOutlastsPage`: for every profile, sheet size and image size |
| `PageLayout_proofs!AppFillsSheet` | `Upright` gives `Spec => []SheetIsFilled` |

The hypotheses that are named in the table are conditions on the constants. Each
is met by the passing run of its module, and leaving it out is what a run that
expects a violation, or a choice of constants discussed in section 3, shows to
fail: they are where the code needs its users or its printers to behave.

| Hypothesis | Says | Without it |
|---|---|---|
| `NoQuickLid` | no lid is opened and closed between two looks at it | with `"quick lid"` among `Faults`, `OkMeansWhole` fails |
| `StopsTimer` | a session begins with `open`, `close` or `disconnect` | section 3, `link`: the timer fires under a command, and a session that begins with `wait_ready` leaves a connection without a timer |
| `OneAtATime` | that; no command runs beside the timer's disconnect (`~TimerRaces`); a connect scans first, if writes may fail | `timer_race` |
| `KnownModels` | models that are named are registered ones | an `open` of an unknown model changes what is named and not the printer object |
| `NamesBoth` | who names an address names its model too, and a registered one | `wrong_printer` |
| `~StopsInCallback` | the bridge does not stop while the job runs an event callback | section 3: the read loop polls descriptor -1 for ever, `CancelEndsJob` fails |
| `~SerialMayFail` | a printer that is asked for its serial gives it | the name's model stays, as documented |
| `Upright` | a sheet is named by its short side first | PWG sizes are written upright; no other sheet is checked |

**Transfer.** Assumptions (`RasterAssumption`): row width, band height and page
heights are positive, and a chunk is at least as long as the stream's prefix,
so that the first write covers it (6 bytes at most; a Bluetooth write carries
at least 20). `ParserInSync` alone is not inductive: it says that the parser is
inside a command or at a boundary, not which boundary. `IInv` adds `HostAt`
(how far the host got: padding never passes the end of the band it pads, a stop
comes before the trailing feed, who has stopped stands at a boundary of
commands) and `ParserAt` (the parser stands at, or inside, a command of this very
stream, the bytes it has left end at that command's end). The lemmas about the
layout (a header starts where the band before ends, the padding ends at a band
end) are arithmetic over `b * BandBytes` and are proved first.

`RowsSentExact` relates two ways to count: `_rows_before` adds up the bands,
which is a fold, and the property counts the rows whose last byte is out. The
library's induction theorems cannot be used here (they take an operator as a
parameter), so the fold is handled with sets only. The number of rows that are
out in a set of bands satisfies the equation of the fold (`RowsOutSolves`, from
what one band contributes, `BandContributes`). Any solution of that equation
agrees with it: among the sets of bands on which it did not, one would be
smallest, and that set without the band the fold takes first would be smaller
(`SolutionCounts`). The fold is a solution, hence the count (`RowsBeforeCounts`).
With that `RowsSentExact` is inductive beside `IInv`. `StopLeavesRows` follows
because the last row ends exactly where the trailing feed starts
(`FirstAndLastRow`); `ProgressIsWhole` says what `PagePipeline` takes from a
transfer that was not stopped.

**Page.** `IInv` is the types with `CallerInv` (which caller an await has) and
`PaperInv` (what a piece in the printer presupposes); the actions are framed
once (`PrintsFrame` and the like) and each conjunct is then proved over them.
`OkIsWhole` rests on `IntactInv`: what a transfer sent is on the sheet or in the
printer unless something was discarded *and still shows*, be it at the lid, the
sensor or the connection; the query behind the motor stop would see it. `SheetIsFresh`
and `OnlyCancelLoses` rest on `CheckedInv`, `LinkedInv`, `SignalInv` and
`AbortInv`: while only lids and short sheets trouble the page, no wait gives a
used sheet up before it is out, the connection holds, the end of a transfer is
announced, and only a cancel has an answer of its own. `OneCopyPerFault` counts:
a copy is paid for by a fault before the page is begun again, and so is the one
the printer may still complete from what it holds (`PrintingPays`,
`WaitingPays`). Only `OkIsWhole` needs `NoQuickLid`.

**Sessions.** Assumption: the constants' types. `IInv` is `TypeOK`, `OneServed`
and `OutIsNone`; the last is needed because a client that is not connected must
not be served for `Connect` to leave `OneServed` alone. Each action of `Next` is
one step of the proof. For the refinement, every action maps to an action of
`BridgeService` or to a stutter: `Admit` to `Enter`, `TakeCommand` to `Begin`,
`Finish` to `End`, `End` to `Leave`; what is refused, unknown or no message at
all maps to a stutter. That `Leave` finds no running command is
what `OneServed` and `TypeOK` give. For the replies, `PoliteInv` follows the one
command of a client that waits for its answers: it is in the queue to the
bridge, or running, or its reply is in the queue back, never two of these
(`WaitInv`), and none of them if the client awaits nothing (`FreeInv`); an abort
that reaches a running command was sent for that command. The invariant is per
client: what the others do leaves it alone (`OthersKept`). `OpenInv` adds the
other direction, that one of the three is there: with the queues in order an
abort stays behind the command it was sent for, so a fresh Event
(`TakeCommand`) never clears it, and no earlier command can use it up.

**Link.** `TimerCounts` needs `CountInv` only: an armed timer belongs to a
session that sent nothing since. `NoLinkIsOrphaned` and `ExitReleases` rest on
`OwnInv`: whatever the operating system keeps up belongs to the transport's own
client object, and whoever is about to disconnect holds that very object.
`AloneInv` (the timer and its task run between commands) and `DownInv` (only a
failed write makes the transport take a connection for gone) keep a second
object away. `IdleLinkIsTimed` rests on these and `HeldInv`: a session
that has not claimed the connection (`used`) sends nothing that makes one, so a
connection that is not claimed is an old one, and its timer still runs. That the
connection which is *up* is the one the transport *takes* to be up holds until a
write fails on it: `broken` marks the exception, and the theorem names it.

**Choice of the printer.** `TargetingAssumption` wants finitely many models, and
`None`, `Any` and `Unknown` apart from printers and models. `IInv` adds to the
types which awaits of `connect` have a printer object and no connection. What was
named is the printer object's (`NamedAddress`, `NamedModel`), and what was found is one its name
admits (`Found`), the one of its serial once that was asked for (`Settled`), and
a page that waits for this printer object was prepared for that model
(`PageInv`). That the name leaves one model when the
serial is not asked is `OnlyModel`; that `Min` picks a member is by the
well-foundedness of the naturals.

**Commands.** Nothing is assumed beyond `EventsAssumption` and `OpsAssumption`.
`IInv` is the types and `Plan`, which says for each command what may be left of
its steps, so that a step's name tells where its command is. `SeenInv`: every event on its way to
`check_ready` shows what the lid and the sheet were since its call. `EjectInv`:
while a sheet is at the sensor, behind the
answer to `eject_paper`'s own query only its feeds are under way, so that an
event of the sheet is the sheet's end. The feed that clears the rollers is
written before the answer is given, and then stays under way until it runs or is
lost (`FeedsClearWorld`). `TInv`: in a connection on which
nothing else was under way (`since.calm`) the query of `_answering_printer` is
the only one of its kind (`OneAsked`), so its answer comes behind everything
older (`Drained`), and from there on whatever is under way of the timer is of the
command itself (`Settled`). This is the proof that the barrier suffices for
queues of any length.

**Job.** Assumption (`JobAssumption`): the bounds are numbers, and pages, messages
and jobs are not empty. `IInv` has `WireInv`: between the job and the session
there is one command at most, or its reply, and it is that of the call in
progress, rows and all; aborts, acknowledgements and events come and go beside
it. So a session never refuses a command for another that runs, and no call
takes an old reply for its own. `CancelInv` adds that an abort behind or beside
a command is of a job that was canceled, and `RowsInv` that `got` and `held`
hold the page's rows one after the other, but for the moment between the
session's answer to `lines` and the return of `flush_rows`, when the rows are in
both. Of a canceled page nothing need be known but that what is there is its
own, in order: `page_begin` replaces it. With these, `_cmd_lines` never
refuses what the job sends (`RowsCollected`), and `_cmd_page_end` only a page whose
raster was short (`PagePrints`, `ShortInv`), which `TroubleInv` needs to say that an
error has its cause in the bridge, the printer or the raster. `ReportInv` keeps account of the pages before the one under way.
`ServedInv` says that a call on a connection that is up has its command, its run
or its reply to wait for, and `EventInv` that an event comes first or not at all,
so that its callback runs on a connection that is up: only a stop of the bridge
under that very callback takes the descriptor from the read loop.

**Layout.** Assumption (`LayoutAssumption`): widths and resolutions are positive,
and the margins of a profile leave something of its own sheet; a sheet sent by
a client may be shorter than them, which `page_end` refuses. The lead is the
top margin rounded to the nearest row and the printable rows are cut off, so
together they are at most half a row more than the sheet without its bottom
margin: with a feed of `FeedLines` that the bottom margin covers with a row to
spare, they stay on the sheet (`MarginKeepsRows`). `prepare_page` never goes
behind the last printable row, and `fit_page` scales to no more rows than that,
on either of its branches and with either outcome of its floats
(`FitKeepsRows`). `IInv` adds to `SheetOutlastsPage` the profile and the types
of the page begun (`PageType`): `page_end` prepares what an earlier `page_begin`
declared. `AppFillsSheet` needs that the two programs agree on the turn: the
driver asks for one exactly when the raster does not lie along the feed
(`AppLies`), and then the three roundings err by two rows at most in the other
direction too (`BottomIsMargin`).

Only model-checked:

- all liveness (`AbortAnswered`, `PageEnds`, `CancelIsAnswered`,
  `GoneIsReleased`, `IdleLinkIsDropped`, `StopEnds`, `CommandEnds`,
  `CancelEndsJob`): fairness and ENABLED are out of the prover's reach. The
  half of some of them that needs neither is proved: what waits has something to
  wait for, and it is on its way. For the transfer that is `HostAdvances`, for
  `CancelIsAnswered` `CancelsReach`, for `GoneIsReleased` `GoneIsAborted`, for
  `IdleLinkIsDropped` `IdleLinkIsTimed`, for `CancelEndsJob` `CallsAreServed`
  and `ReaderHasSocket`.

## 6. Not modelled

- Pixels: tone, dithering, the drawing of the test page. Pure arithmetic on
  images, which no property here looks at.
- Parsing of notifications, manifests, configuration and command lines.
- Values of queries (firmware, battery, serial as text) and the cache of values
  last seen: data that is read and reported. Findings about it are listed.
- Real time: a pause or a timeout may end at any moment at which the code
  would let it end.
- Printer-state reasons and messages shown to the user; PAPPL's own set-up;
  capability tables (`driver.c`, `models.c`); the application's discovery,
  status and identify callbacks (`device.c`), one-shot clients of the socket
  like the command line.
- The receive buffers of the socket; binding and removing the socket's file.

## 7. Plan

Written, in this order: the transfer (everything else rests on the printer
understanding us), the page pipeline, the sessions with their abstract
specification, the link and its timer, the application's job, the choice of the
printer; then the events and commands, the layout of a page, the stop of the
bridge and discovery.

Next:

1. The receive buffer of `bridge.c` and the reader of `bridge/protocol.py` as
   functions against a reference parse.
2. `PrinterAppJob` composed with `BridgeSession`, for the reopened device that
   finds the bridge busy.
