---------------------------- MODULE PagePipeline ----------------------------
(***************************************************************************)
(* One page_end command, from the prepared bitmap to its reply:            *)
(* Session._cmd_page_end, _print_page, _wait_for_fresh_sheet, _wait_ready, *)
(* _connect_once, _recover_link, _eject_remainder (bridge/session.py) with *)
(* Printer.print_bitmap, _transfer, check_ready, wait_for_ready,           *)
(* eject_paper and reconnect (printer.py), against a printer with a lid, a *)
(* sheet, a paper sensor, a motor and a connection that can drop, and the  *)
(* user who opens the lid, inserts sheets, cancels and switches it off.    *)
(*                                                                         *)
(* The command is one coroutine: `pc` is the await it is at, and every     *)
(* step runs from one await to the next.  A page is Rows pieces of raster  *)
(* (a piece stands for many rows) and a trailing feed; what a stop in the  *)
(* middle of the stream owes the printer is the subject of RasterTransfer. *)
(* Time is abstracted: a pause or a timeout may end at any moment at which *)
(* the code would let it end.                                              *)
(***************************************************************************)
EXTENDS Integers, Sequences

CONSTANTS
  Rows,          \* pieces of raster in a page
  ShortRows,     \* pieces that may be unsent when the sheet leaves the sensor
  SensorRows,    \* pieces a sheet still takes once it has left the sensor
  ShortSheet,    \* pieces a short sheet takes
  MuteThreshold, \* _MUTE_THRESHOLD: unanswered queries before a reconnect
  Faults,        \* what may go wrong in this instance, see Events
  MaxFaults      \* bound on the number of faults

Events == {"lid",               \* the lid is opened while page_end prints or waits
           "early lid",         \* also between the readiness check and the print
           "lid while ejecting", \* also while the interrupted sheet is ejected
           "quick lid",         \* it is closed again before anyone asked
           "short",             \* a sheet shorter than the page is inserted
           "drop",              \* the connection drops
           "off"}               \* the printer switches off

ASSUME PageAssumption ==
  /\ Rows \in Nat \ {0} /\ ShortSheet \in 1 .. Rows - 1
  /\ ShortRows \in 0 .. Rows /\ SensorRows \in 0 .. ShortSheet - 1
  /\ MuteThreshold \in Nat \ {0}
  /\ Faults \subseteq Events /\ MaxFaults \in Nat

VARIABLES
  pc,         \* the await page_end is at
  caller,     \* who called the eject, the reconnect, the connect or the padding
  asked,      \* the query of this pc is written, its answer awaited
  timeouts,   \* unanswered queries in a row, of the waiting loops
  inner,      \* the same inside wait_for_ready; MuteThreshold once reconnected
  rows,       \* pieces sent in this transfer
  sawLid,     \* lid_open, absent, stopped of print_bitmap
  sawAbsent,
  stopped,
  abort,      \* the session's abort event
  reply,      \* what page_end answered
  client,     \* transport: "up", "dropped" (a dead client) or "none"
  reach,      \* the printer is on and in range
  lid,        \* "open" or "closed"
  room,       \* pieces the sheet inside still takes
  ink,        \* pieces printed on it
  buf,        \* pieces the printer holds unprinted
  motor,      \* it is printing or feeding
  ended,      \* nothing more of the job will come
  mute,       \* it ignores everything after a sheet overrun
  notes,      \* notifications on their way to the host
  behind,     \* a piece was written past an undelivered notification
  overprint,  \* this transfer began on a sheet already printed on
  wholes,     \* sheets that carry the whole page
  met,        \* the kinds of fault met so far
  faults      \* their number

transfer == <<rows, sawLid, sawAbsent, stopped>>
counts == <<timeouts, inner>>
link == <<client, reach>>
sheet == <<room, ink, wholes>>
printer == <<buf, motor, ended, mute, notes, behind>>
troubles == <<met, faults>>
user == <<abort, lid, troubles>>
vars == <<pc, caller, asked, counts, transfer, reply, link, sheet, printer,
          overprint, user>>

Callers == {"-", "done", "cancelled", "lid opened", "short", "fresh", "lid",
            "ready", "settle"}

\* What each querying await asks for.
Queries == [w \in {"lid check", "lid", "ready", "settle"} |-> "lid"]
PaperQueries == {"eject", "paper", "ready paper", "settle paper"}
Asking == DOMAIN Queries \cup PaperQueries

PC == Asking \cup {"print", "sending", "padding", "motor", "feeding",
                   "fresh", "reconnect", "connecting", "settling", "end"}

Printing == {"sending", "padding", "motor", "lid check"}

Present == room > SensorRows

Init ==
  /\ pc = "print" /\ caller = "-" /\ asked = FALSE
  /\ timeouts = 0 /\ inner = 0 /\ rows = 0
  /\ sawLid = FALSE /\ sawAbsent = FALSE /\ stopped = FALSE
  /\ abort = FALSE /\ reply = "none"
  /\ client = "up" /\ reach = TRUE /\ lid = "closed"
  /\ room = Rows \/ ("short" \in Faults /\ room = ShortSheet)
  /\ ink = 0 /\ buf = 0 /\ motor = FALSE /\ ended = TRUE /\ mute = FALSE
  /\ notes = <<>> /\ behind = FALSE
  /\ overprint = FALSE /\ wholes = 0 /\ met = {} /\ faults = 0

-----------------------------------------------------------------------------
(* Helpers.  World: what a step of the host leaves alone unless it sends.   *)

World == UNCHANGED <<link, sheet, printer, user>>
Goto(w) == pc' = w /\ UNCHANGED reply
Answer(r) == pc' = "end" /\ reply' = r

Unasked == pc \in Asking /\ ~asked

\* Bug for the mutant runs: the loop that watches the lid does not look.
Bug_LidLoopDeaf == abort /\ ~asked /\ pc \in {"fresh", "ready"}

\* Where the waiting loops look at the abort event.
Aborted == abort /\ ~asked /\ pc \in {"fresh", "lid", "ready"}

\* Transport.write takes the query: a dead client is a ConnectionError, no
\* client at all a RuntimeError, which only _run_command's last clause catches.
Ask ==
  /\ Unasked /\ client = "up"
  /\ ~Aborted
  /\ asked' = TRUE
  /\ UNCHANGED <<pc, caller, counts, transfer, reply, overprint>> /\ World

\* The printer works its input off in order: it answers once what was sent
\* before is printed and its earlier notifications are delivered.
Sensor(q) == IF q = "lid" THEN lid ELSE IF Present THEN "present" ELSE "absent"

Heard(v) ==
  /\ asked
  /\ \/ /\ client = "up" /\ ~mute /\ buf = 0 /\ notes = <<>>
        /\ v = Sensor(IF pc \in PaperQueries THEN "paper" ELSE "lid")
     \/ (client # "up" \/ mute \/ buf > 0) /\ v = "none"
  /\ asked' = FALSE

\* Nothing heard: the query timed out, or its write already failed.
WriteRefused == Unasked /\ client = "dropped" /\ UNCHANGED asked
-----------------------------------------------------------------------------
(* print_bitmap and _transfer.                                              *)

StartPrint ==
  /\ pc = "print" /\ client = "up"
  /\ Goto("sending")
  /\ rows' = 0 /\ sawLid' = FALSE /\ sawAbsent' = FALSE /\ stopped' = FALSE
  /\ overprint' = (ink > 0)
  /\ UNCHANGED <<caller, asked, counts>> /\ World

\* RuntimeError("Not connected").
PrintNotConnected ==
  /\ pc = "print" /\ client # "up"
  /\ Answer("error")
  /\ UNCHANGED <<caller, asked, counts, transfer, overprint>> /\ World

MustCancel == abort /\ rows < Rows
MustStopForLid == ~MustCancel /\ sawLid /\ rows < Rows
MustGiveUpSheet == ~MustCancel /\ ~MustStopForLid
                   /\ sawAbsent /\ Rows - rows > ShortRows

StopTransfer ==
  /\ pc = "sending"
  /\ \/ MustCancel /\ Goto("padding") /\ caller' = "cancelled"
     \/ MustStopForLid /\ Goto("padding") /\ caller' = "lid opened"
     \/ MustGiveUpSheet /\ Goto("reconnect") /\ caller' = "short"
  /\ UNCHANGED <<asked, counts, transfer, overprint>> /\ World

MaySend == pc = "sending" /\ ~(MustCancel \/ MustStopForLid \/ MustGiveUpSheet)

\* A notification overtakes at most one piece: it takes milliseconds.
Takes == lid = "closed" /\ ~mute

WriteRow ==
  /\ MaySend /\ rows < Rows /\ client = "up" /\ ~behind
  /\ rows' = rows + 1
  /\ buf' = IF Takes THEN buf + 1 ELSE buf
  /\ motor' = (motor \/ Takes)
  /\ ended' = FALSE
  /\ behind' = (notes # <<>>)
  /\ UNCHANGED <<pc, caller, asked, counts, sawLid, sawAbsent, stopped, reply,
                 overprint, link, sheet, mute, notes, user>>

WriteTail ==
  /\ MaySend /\ rows = Rows /\ client = "up"
  /\ Goto("motor")
  /\ motor' = (motor \/ Takes)
  /\ ended' = TRUE
  /\ UNCHANGED <<caller, asked, counts, transfer, overprint, link, sheet, buf,
                 mute, notes, behind, user>>

\* Bug for the mutant runs: an opened lid ends the page like a cancel.
Bug_LidEndsPage ==
  /\ pc = "padding" /\ client = "up"
  /\ IF caller = "cancelled" THEN Goto("eject") ELSE Answer("error")
  /\ ended' = TRUE
  /\ UNCHANGED <<caller, asked, counts, transfer, overprint, link, sheet, buf,
                 motor, mute, notes, behind, user>>

\* The band in progress is completed with white rows.
FinishPadding ==
  /\ pc = "padding" /\ client = "up"
  /\ Goto(IF caller = "cancelled" THEN "eject" ELSE "fresh")
  /\ ended' = TRUE
  /\ UNCHANGED <<caller, asked, counts, transfer, overprint, link, sheet, buf,
                 motor, mute, notes, behind, user>>

WriteFails ==
  /\ MaySend \/ pc = "padding"
  /\ client # "up"
  /\ Goto("fresh")
  /\ UNCHANGED <<caller, asked, counts, transfer, overprint>> /\ World

MotorStopped ==
  /\ pc = "motor" /\ stopped
  /\ Goto("lid check")
  /\ UNCHANGED <<caller, asked, counts, transfer, overprint>> /\ World

\* completion_timeout is long: it ends only a wait for a signal that is not
\* coming any more.
CompletionTimesOut ==
  /\ pc = "motor" /\ ~stopped
  /\ client # "up" \/ (~motor /\ notes = <<>>)
  /\ Answer("connection lost")
  /\ UNCHANGED <<caller, asked, counts, transfer, overprint>> /\ World

\* Bug for the mutant runs: no answer after the motor stop is taken for done.
Bug_SilenceIsDone ==
  /\ pc = "lid check"
  /\ \/ Heard("closed") /\ Goto("eject") /\ caller' = "done"
     \/ Heard("open") /\ Goto("fresh") /\ UNCHANGED caller
     \/ Heard("none") /\ Goto("eject") /\ caller' = "done"
     \/ WriteRefused /\ Goto("fresh") /\ UNCHANGED caller
  /\ UNCHANGED <<counts, transfer, overprint>> /\ World

\* Bug for the mutant runs: a sensor clear at the end means a short sheet.
Bug_ClearIsShort ==
  /\ pc = "lid check"
  /\ \/ Heard("closed") /\ IF sawAbsent THEN Goto("reconnect") /\ caller' = "short"
                           ELSE Goto("eject") /\ caller' = "done"
     \/ Heard("open") /\ Goto("fresh") /\ UNCHANGED caller
     \/ Heard("none") /\ Goto("reconnect") /\ caller' = "short"
     \/ WriteRefused /\ Goto("fresh") /\ UNCHANGED caller
  /\ UNCHANGED <<counts, transfer, overprint>> /\ World

\* The motor stopped: the page is done, or the lid is open, or the printer is
\* mute because the sheet was too short (or the link is gone).
LidCheck ==
  /\ pc = "lid check"
  /\ \/ Heard("closed") /\ Goto("eject") /\ caller' = "done"
     \/ Heard("open") /\ Goto("fresh") /\ UNCHANGED caller
     \/ Heard("none") /\ Goto("reconnect") /\ caller' = "short"
     \/ WriteRefused /\ Goto("fresh") /\ UNCHANGED caller
  /\ UNCHANGED <<counts, transfer, overprint>> /\ World
-----------------------------------------------------------------------------
(* Connecting: Printer.reconnect is a disconnect and a connect.             *)

Disconnect ==
  /\ pc = "reconnect"
  /\ Goto("connecting")
  /\ client' = "none"
  /\ ended' = TRUE /\ notes' = <<>> /\ behind' = FALSE
  /\ UNCHANGED <<caller, asked, counts, transfer, overprint, reach, sheet, buf,
                 motor, mute, user>>

AfterConnect == CASE caller = "short" -> "eject" [] OTHER -> caller

Connected ==
  /\ pc = "connecting" /\ reach
  /\ Goto(AfterConnect)
  /\ client' = "up" /\ mute' = FALSE
  /\ UNCHANGED <<caller, asked, counts, transfer, overprint, reach, sheet, buf,
                 motor, ended, notes, behind, user>>

\* A scan that misses the printer leaves the client as it was, a failed
\* attempt leaves none.  In wait_for_ready the error ends the settling.
ConnectFails ==
  /\ pc = "connecting" /\ ~reach
  /\ Goto(IF caller = "settle" THEN "ready" ELSE AfterConnect)
  /\ client' \in {client, "none"}
  /\ UNCHANGED <<caller, asked, counts, transfer, overprint, reach, sheet,
                 printer, user>>
-----------------------------------------------------------------------------
(* eject_paper: one query, then feeds.                                      *)

EjectAnswered ==
  /\ pc = "eject"
  /\ \E v \in {"present", "absent", "none"} : Heard(v)
  /\ Goto("feeding")
  /\ UNCHANGED <<caller, counts, transfer, overprint>> /\ World

\* The feeds are queued behind what is still printing.  They move a sheet,
\* at the sensor or past it, unless the lid is open or the printer is mute.
Feed ==
  /\ pc = "feeding" /\ client = "up" /\ (buf = 0 \/ ~Takes)
  /\ CASE caller = "done" -> Answer("ok")
       [] caller = "cancelled" -> Answer("cancelled")
       [] caller = "short" -> Goto("fresh")
       [] caller = "fresh" -> Goto("ready")
  /\ timeouts' = 0
  /\ IF Takes THEN room' = 0 /\ ink' = 0 ELSE UNCHANGED <<room, ink>>
  /\ UNCHANGED <<caller, asked, inner, transfer, overprint, wholes, link,
                 printer, user>>

\* Only _eject_remainder expects a ConnectionError, nobody a RuntimeError.
EjectFails ==
  /\ (pc = "eject" /\ ~asked) \/ pc = "feeding"
  /\ client # "up"
  /\ IF caller = "short" /\ client = "dropped" THEN Goto("fresh") ELSE Answer("error")
  /\ UNCHANGED <<caller, asked, counts, transfer, overprint>> /\ World
-----------------------------------------------------------------------------
(* _wait_for_fresh_sheet.                                                   *)

Cancel ==
  /\ Aborted
  /\ pc = "fresh" => client # "up"
  /\ Answer("cancelled")
  /\ UNCHANGED <<caller, asked, counts, transfer, overprint>> /\ World

\* _connect_once, from either waiting loop.
ConnectOnce ==
  /\ pc \in {"fresh", "ready"} /\ ~asked /\ ~Aborted /\ client # "up"
  /\ Goto("connecting") /\ caller' = pc
  /\ UNCHANGED <<asked, counts, transfer, overprint>> /\ World

FreshConnected ==
  /\ pc = "fresh" /\ client = "up"
  /\ Goto("lid") /\ timeouts' = 0
  /\ UNCHANGED <<caller, asked, inner, transfer, overprint>> /\ World

\* Bugs for the mutant runs: one query too many, and never a reconnect.
Bug_OneTooMany(w) ==
  IF timeouts >= MuteThreshold
  THEN Goto("reconnect") /\ caller' = w /\ timeouts' = 0
  ELSE Goto(w) /\ timeouts' = timeouts + 1 /\ UNCHANGED caller

Bug_NeverReconnect(w) == Goto(w) /\ timeouts' = 0 /\ UNCHANGED caller

\* A query of a waiting loop went unanswered: after MuteThreshold the
\* printer is reconnected.
CountMute(w) ==
  IF timeouts + 1 >= MuteThreshold
  THEN Goto("reconnect") /\ caller' = w /\ timeouts' = 0
  ELSE Goto(w) /\ timeouts' = timeouts + 1 /\ UNCHANGED caller

WatchLid ==
  /\ pc = "lid"
  /\ \/ Heard("closed") /\ Goto("paper") /\ UNCHANGED <<caller, timeouts>>
     \/ Heard("open") /\ Goto("lid") /\ UNCHANGED <<caller, timeouts>>
     \/ (Heard("none") \/ (WriteRefused /\ ~Aborted)) /\ CountMute("lid")
  /\ UNCHANGED <<inner, transfer, overprint>> /\ World

\* After a reconnect that failed there is no client to write to.
WatchLidFails ==
  /\ pc = "lid" /\ Unasked /\ ~Aborted /\ client = "none"
  /\ Answer("error")
  /\ UNCHANGED <<caller, asked, counts, transfer, overprint>> /\ World

\* Bug for the mutant runs: the sheet inside is not checked.
Bug_KeepSheet ==
  /\ pc = "paper"
  /\ WriteRefused \/ (\E v \in {"present", "absent", "none"} : Heard(v))
  /\ Goto("ready") /\ timeouts' = 0
  /\ UNCHANGED <<caller, inner, transfer, overprint>> /\ World

CheckPaper ==
  /\ pc = "paper"
  /\ \/ Heard("present") /\ Goto("eject") /\ caller' = "fresh" /\ UNCHANGED timeouts
     \/ (Heard("absent") \/ Heard("none") \/ WriteRefused) /\ Goto("ready") /\ timeouts' = 0 /\ UNCHANGED caller
  /\ UNCHANGED <<inner, transfer, overprint>> /\ World
-----------------------------------------------------------------------------
(* _wait_ready and, once a sheet is there, wait_for_ready.                  *)

\* A ConnectionError takes the loop back to its top.
ReadyWriteFails ==
  /\ pc \in {"ready paper", "settle", "settle paper"} /\ WriteRefused
  /\ Goto("ready")
  /\ UNCHANGED <<caller, counts, transfer, overprint>> /\ World

WatchReady ==
  /\ \/ /\ pc = "ready"
        /\ \/ Heard("closed") /\ Goto("ready paper") /\ UNCHANGED <<caller, timeouts>>
           \/ Heard("open") /\ Goto("ready") /\ timeouts' = 0 /\ UNCHANGED caller
           \/ Heard("none") /\ CountMute("ready")
        /\ UNCHANGED inner
     \/ /\ pc = "ready paper"
        /\ \/ Heard("present") /\ Goto("settle") /\ inner' = 0 /\ UNCHANGED <<caller, timeouts>>
           \/ Heard("absent") /\ Goto("ready") /\ timeouts' = 0 /\ UNCHANGED <<caller, inner>>
           \/ Heard("none") /\ CountMute("ready") /\ UNCHANGED inner
  /\ UNCHANGED <<transfer, overprint>> /\ World

SettleMute ==
  IF inner + 1 = MuteThreshold
  THEN Goto("reconnect") /\ caller' = "settle" /\ inner' = MuteThreshold
  ELSE /\ Goto("settle") /\ UNCHANGED caller
       /\ inner' = IF inner = MuteThreshold THEN inner ELSE inner + 1

SettleReset == inner' = IF inner = MuteThreshold THEN inner ELSE 0

Settle ==
  /\ \/ pc = "settle" /\ Heard("closed") /\ Goto("settle paper") /\ UNCHANGED <<caller, inner>>
     \/ pc = "settle paper" /\ Heard("present") /\ Goto("settling") /\ UNCHANGED <<caller, inner>>
     \/ /\ \/ pc = "settle" /\ Heard("open")
           \/ pc = "settle paper" /\ Heard("absent")
        /\ Goto("settle") /\ SettleReset /\ UNCHANGED caller
     \/ pc \in {"settle", "settle paper"} /\ Heard("none") /\ SettleMute
  /\ UNCHANGED <<timeouts, transfer, overprint>> /\ World

\* The deadline of wait_for_ready, checked after an answer of not ready.
SettleTimesOut ==
  /\ \/ pc = "settle" /\ Heard("open")
     \/ pc = "settle paper" /\ Heard("absent")
     \/ pc \in {"settle", "settle paper"} /\ Heard("none") /\ inner + 1 # MuteThreshold
  /\ Goto("ready")
  /\ UNCHANGED <<caller, counts, transfer, overprint>> /\ World

\* The sheet's second paper-present event, or `settle` seconds.
Settled ==
  /\ pc = "settling"
  /\ Goto("print")
  /\ UNCHANGED <<caller, asked, counts, transfer, overprint>> /\ World
-----------------------------------------------------------------------------
(* The printer.                                                             *)

HostState == UNCHANGED <<pc, caller, asked, counts, reply, overprint>>

PrintRow ==
  /\ motor /\ buf > 0 /\ Takes /\ room > 0
  /\ buf' = buf - 1 /\ room' = room - 1 /\ ink' = ink + 1
  /\ notes' = IF Present /\ room' <= SensorRows THEN Append(notes, "absent") ELSE notes
  /\ wholes' = IF ink' = Rows /\ ~overprint THEN wholes + 1 ELSE wholes
  /\ HostState
  /\ UNCHANGED <<transfer, link, motor, ended, mute, behind, user>>

\* Raster past the end of the sheet: the motor stops, the rest is discarded
\* and nothing more is heard until a new connection.
Overrun ==
  /\ motor /\ buf > 0 /\ Takes /\ room = 0
  /\ buf' = 0 /\ motor' = FALSE /\ mute' = TRUE
  /\ notes' = IF client = "up" THEN Append(notes, "stop") ELSE notes
  /\ HostState
  /\ UNCHANGED <<transfer, link, sheet, ended, behind, user>>

StopMotor ==
  /\ motor /\ buf = 0 /\ ended
  /\ motor' = FALSE
  /\ notes' = IF client = "up" THEN Append(notes, "stop") ELSE notes
  /\ HostState
  /\ UNCHANGED <<transfer, link, sheet, buf, ended, mute, behind, user>>

\* The notification reaches _dispatch_event, which has listeners and the
\* motor-stop waiter only while print_bitmap runs.
Deliver ==
  /\ client = "up" /\ notes # <<>>
  /\ notes' = Tail(notes) /\ behind' = FALSE
  /\ sawLid' = (sawLid \/ (pc \in Printing /\ Head(notes) = "lid"))
  /\ sawAbsent' = (sawAbsent \/ (pc \in Printing /\ Head(notes) = "absent"))
  /\ stopped' = (stopped \/ (pc \in Printing /\ Head(notes) = "stop"))
  /\ HostState
  /\ UNCHANGED <<rows, link, sheet, buf, motor, ended, mute, user>>

Printer == PrintRow \/ Overrun \/ StopMotor \/ Deliver
-----------------------------------------------------------------------------
(* The user and the world.                                                  *)

Others == HostState /\ UNCHANGED transfer
Running == pc # "end"
Fault(f) ==
  /\ Running /\ f \in Faults /\ faults < MaxFaults
  /\ faults' = faults + 1 /\ met' = met \cup {f}

AbortArrives ==
  /\ Running /\ ~abort /\ abort' = TRUE
  /\ Others /\ UNCHANGED <<link, sheet, printer, lid, troubles>>

LidFault == IF pc \in {"paper", "eject", "feeding"} THEN "lid while ejecting"
            ELSE IF pc \in {"print", "settle paper", "settling"} THEN "early lid" ELSE "lid"

\* The printer discards what it holds and stops; it says so.
OpenLid ==
  /\ Fault(LidFault)
  /\ lid = "closed" /\ lid' = "open"
  /\ buf' = 0 /\ motor' = FALSE
  /\ notes' = IF client # "up" \/ mute THEN notes
              ELSE notes \o (IF motor THEN <<"lid", "stop">> ELSE <<"lid">>)
  /\ Others /\ UNCHANGED <<link, sheet, ended, mute, behind, abort>>

\* Without the quick lid, the user takes longer than the host needs to learn
\* that the lid is open.
CloseLid ==
  /\ lid = "open" /\ lid' = "closed"
  /\ "quick lid" \in Faults \/ pc \notin Printing
  /\ Others /\ UNCHANGED <<link, sheet, printer, abort, troubles>>

PullSheet ==
  /\ Running /\ lid = "open" /\ (room > 0 \/ ink > 0)
  /\ room' = 0 /\ ink' = 0
  /\ Others /\ UNCHANGED <<wholes, link, printer, user>>

\* A sheet is inserted when none is at the sensor and nothing moves.
InsertSheet ==
  /\ Running /\ ~Present /\ ~motor /\ pc \notin Printing
  /\ room' = Rows /\ ink' = 0
  /\ Others /\ UNCHANGED <<wholes, link, printer, user>>

InsertShortSheet ==
  /\ Fault("short") /\ ~Present /\ ~motor /\ pc \notin Printing
  /\ room' = ShortSheet /\ ink' = 0
  /\ Others /\ UNCHANGED <<wholes, link, printer, abort, lid>>

\* Transport._on_disconnected marks the client dead; what was on its way is
\* lost, what the printer holds it still prints.
DropLink ==
  /\ Fault("drop") /\ client = "up" /\ client' = "dropped"
  /\ ended' = TRUE /\ notes' = <<>> /\ behind' = FALSE
  /\ Others /\ UNCHANGED <<reach, sheet, buf, motor, mute, abort, lid>>

SwitchOff ==
  /\ Fault("off") /\ reach /\ reach' = FALSE
  /\ client' = IF client = "up" THEN "dropped" ELSE client
  /\ buf' = 0 /\ motor' = FALSE /\ ended' = TRUE /\ mute' = FALSE
  /\ notes' = <<>> /\ behind' = FALSE
  /\ Others /\ UNCHANGED <<sheet, abort, lid>>

SwitchOn ==
  /\ Running /\ ~reach /\ reach' = TRUE
  /\ Others /\ UNCHANGED <<client, sheet, printer, user>>

User == \/ AbortArrives \/ OpenLid \/ CloseLid \/ PullSheet \/ InsertSheet
        \/ InsertShortSheet \/ DropLink \/ SwitchOff \/ SwitchOn
-----------------------------------------------------------------------------
Prints == \/ StartPrint \/ PrintNotConnected \/ StopTransfer \/ WriteRow
         \/ WriteTail \/ FinishPadding \/ WriteFails \/ MotorStopped
         \/ CompletionTimesOut \/ LidCheck

Link == Disconnect \/ Connected \/ ConnectFails \/ ConnectOnce

Wait == \/ Ask \/ EjectAnswered \/ Feed \/ EjectFails \/ Cancel
        \/ FreshConnected \/ WatchLid \/ WatchLidFails \/ CheckPaper
        \/ ReadyWriteFails \/ WatchReady \/ Settle \/ SettleTimesOut \/ Settled

Next == Prints \/ Link \/ Wait \/ Printer \/ User

\* The event loop runs every coroutine that can run, the printer works on,
\* notifications arrive, and the deadline of wait_for_ready is a point in time:
\* it cannot be missed for ever.  Nothing is assumed of the user.
Fairness == /\ WF_vars(Prints \/ Link \/ Wait)
            /\ WF_vars(PrintRow \/ Overrun \/ StopMotor)
            /\ WF_vars(Deliver)
            /\ SF_vars(SettleTimesOut)

Spec == Init /\ [][Next]_vars /\ Fairness

-----------------------------------------------------------------------------
(* Properties.                                                              *)

TypeOK ==
  /\ pc \in PC /\ caller \in Callers /\ asked \in BOOLEAN
  /\ timeouts \in 0 .. MuteThreshold - 1 /\ inner \in 0 .. MuteThreshold
  /\ rows \in 0 .. Rows
  /\ sawLid \in BOOLEAN /\ sawAbsent \in BOOLEAN /\ stopped \in BOOLEAN
  /\ abort \in BOOLEAN /\ reply \in {"none", "ok", "cancelled", "connection lost", "error"}
  /\ client \in {"up", "dropped", "none"} /\ reach \in BOOLEAN
  /\ lid \in {"open", "closed"}
  /\ room \in 0 .. Rows /\ ink \in 0 .. 2 * Rows /\ buf \in 0 .. Rows
  /\ motor \in BOOLEAN /\ ended \in BOOLEAN /\ mute \in BOOLEAN /\ behind \in BOOLEAN
  /\ notes \in Seq({"lid", "absent", "stop"})
  /\ overprint \in BOOLEAN /\ wholes \in Nat
  /\ met \subseteq Faults /\ faults \in 0 .. MaxFaults

\* page_end answers ok only when some sheet carries the whole page: whatever
\* was discarded behind an opened lid or past a short sheet was printed again.
OkMeansWhole == reply = "ok" => wholes > 0

\* Only an interruption costs a second copy: the sensor going clear near the
\* end of a page of the right length is not taken for a sheet that ran out.
OneCopy == wholes <= 1 + faults

\* What a page survives according to docs/print-flow.md: the lid opened during
\* the page, a sheet that is too short.
Ordinary == met \subseteq {"lid", "short"}

\* A page is never printed over the rest of an interrupted one: the sheet that
\* was inside is ejected before the next transfer starts.
FreshSheet == Ordinary => ~overprint

\* Only the user's cancel ends a page without printing it.
OnlyCancelLosesPage == Ordinary /\ reply \notin {"none", "ok"} => abort

\* A cancel is answered, whatever page_end is waiting for: no open lid, empty
\* tray, mute or switched-off printer keeps the job from ending.
AbortAnswered == abort ~> reply # "none"

\* A user who puts right what went wrong.
UserHelps == WF_vars(CloseLid) /\ WF_vars(SwitchOn) /\ WF_vars(InsertSheet)

\* The page comes to its end by itself once the user closes the lid, switches
\* the printer on and inserts a sheet.
PageEnds == UserHelps => <>(reply # "none")
=============================================================================
