---------------------------- MODULE PrinterEvents ----------------------------
(***************************************************************************)
(* Events of the printer and the queries that wait for them: the dispatch  *)
(* of notifications to listeners and waiters (printer.py, events.py), the  *)
(* write and the wait of _query.  The commands that ask are in            *)
(* PrinterCommands.                                                        *)
(*                                                                         *)
(* The printer runs what it was written in order and answers over a        *)
(* connection that keeps the order; it may answer at any time, also before *)
(* the write returns, after the query gave up, or never.  A query is told  *)
(* its answer by the type of the event alone.  One command runs at a time  *)
(* (that is BridgeSession), so that at most one query waits.               *)
(***************************************************************************)
EXTENDS Naturals, Sequences

CONSTANTS
  SheetFeeds, \* feeds that bring the longest sheet out of the sensor
  MaxFeeds,   \* max_feeds of eject_paper
  Ahead,      \* ahead of eject_paper
  Blind,      \* feeds that clear the rollers when no sheet is known (3)
  Pulses,     \* _IDENTIFY_PULSES
  Timers,     \* auto-off settings
  Wanted,     \* Bridge.config.auto_off_minutes, one of Timers
  NoAnswer,   \* None
  MaxInbox,   \* bound: commands the printer has not yet run
  MaxNotes    \* bound: events on their way

Lids == {"closed", "open"}
Papers == {"present", "absent"}

\* What is answered other than a setting of the timer.
Words == Lids \cup Papers \cup {"value", "nothing", "done", "error", "ready", "not ready",
                              "blind", "ejected", "still present"}

ASSUME EventsAssumption ==
  /\ {SheetFeeds, MaxFeeds, Ahead, Blind, MaxInbox, MaxNotes} \subseteq Nat \ {0}
  /\ Pulses \in Nat \ {0} /\ Wanted \in Timers
  /\ Timers \cap Words = {} /\ NoAnswer \notin Timers \cup Words
  /\ MaxNotes > 1

VARIABLES
  lid, sheet, timer, \* the printer: its lid, the feeds until the sheet leaves
                     \* the sensor (0: none there) and its auto-off setting
  rollers,  \* the sheet that last left the sensor is still in the rollers
  mute,     \* it discards what it is sent
  up,       \* Printer.is_connected
  inbox,    \* what it was written and has not run
  notes,    \* its events on their way
  op,       \* the command that runs, or "none"
  todo,     \* its steps to come
  pc,       \* where its first step is
  waiter,   \* the entry of _waiters: the kind waited for, and what it was given
  absent,   \* the event of eject_paper: "off", "clear" or "set"
  sent,     \* feeds sent
  says,     \* what the last command answered
  since     \* what the world did since the command was called

world == <<lid, sheet, rollers, timer, mute>>
link == <<up, inbox, notes>>
run == <<op, todo, pc, waiter, absent, sent, says>>
vars == <<world, link, run, since>>

Kinds == {"lid", "paper", "timer", "battery", "firmware", "serial"}
Values == Lids \cup Papers \cup Timers \cup {"value"}

\* The sensor; it is unreliable under an open lid.
Sensed(l, s) == IF l = "open" THEN Papers
                ELSE IF s > 0 THEN {"present"} ELSE {"absent"}

NoWaiter == [kind |-> "none", got |-> NoAnswer]

Init ==
  /\ lid \in Lids /\ sheet \in 0..SheetFeeds /\ timer \in Timers /\ mute = FALSE
  /\ rollers \in BOOLEAN /\ (rollers => sheet = 0)
  /\ up = FALSE /\ inbox = <<>> /\ notes = <<>>
  /\ op = "none" /\ todo = <<>> /\ pc = "next" /\ waiter = NoWaiter
  /\ absent = "off" /\ sent = 0 /\ says = "nothing"
  /\ since = [lids |-> {}, papers |-> {}, calm |-> TRUE]
-----------------------------------------------------------------------------
(* The printer, its link and its user.                                      *)

Note(kind, value) == [kind |-> kind, value |-> value]

\* The user leaves room for what the printer itself has to say.
Room == Len(notes) < MaxNotes
UserRoom == Len(notes) + 1 < MaxNotes

\* What a readiness check may have seen of the lid and the sheet.
Witness(l, s) ==
  since' = IF op = "check_ready"
           THEN [since EXCEPT !.lids = @ \cup {l}, !.papers = @ \cup Sensed(l, s)]
           ELSE since

MoveLid ==
  /\ UserRoom /\ lid' = IF lid = "open" THEN "closed" ELSE "open"
  /\ notes' = IF up /\ ~mute THEN Append(notes, Note("lid", lid')) ELSE notes
  /\ Witness(lid', sheet)
  /\ UNCHANGED <<sheet, rollers, timer, mute, up, inbox, run>>

\* The user inserts a sheet or pulls the one inside.  The sheet that eject_paper
\* feeds out may be pulled as well.
MoveSheet ==
  /\ UserRoom /\ sheet' \in IF sheet = 0 THEN 1..SheetFeeds ELSE {0}
  /\ rollers' = FALSE
  /\ notes' = IF up /\ ~mute
              THEN Append(notes, Note("paper", IF sheet = 0 THEN "present" ELSE "absent"))
              ELSE notes
  /\ since' = [since EXCEPT !.calm = @ /\ (op = "check_ready" \/ (op = "eject" /\ sheet > 0)),
                 !.papers = IF op = "check_ready" THEN @ \cup Sensed(lid, sheet') ELSE @]
  /\ UNCHANGED <<lid, timer, mute, up, inbox, run>>

GoesMute == /\ up /\ ~mute /\ mute' = TRUE
            /\ UNCHANGED <<lid, sheet, rollers, timer, link, run, since>>

\* The connection drops; who waits for an event is not told.  The next
\* connection finds a printer that listens again.
Drops ==
  /\ up /\ up' = FALSE /\ inbox' = <<>> /\ notes' = <<>> /\ mute' = FALSE
  /\ UNCHANGED <<lid, sheet, rollers, timer, run, since>>

Answer(c) ==
  /\ \E v \in CASE c.do = "lid" -> {lid}
                [] c.do = "paper" -> Sensed(lid, sheet)
                [] c.do = "timer" -> {timer}
                [] OTHER -> {"value"} :
       notes' = Append(notes, Note(c.do, v))
  /\ UNCHANGED <<sheet, rollers, timer, since>>

\* The motor; the sensor reports the sheet's end when it passes.  A sheet past
\* it takes a feed of clear_rows to come out of the rollers.
Move(do) ==
  /\ sheet' = IF sheet > 0 THEN sheet - 1 ELSE 0
  /\ rollers' = (sheet = 1 \/ (rollers /\ do # "clear"))
  /\ notes' = IF sheet = 1 THEN Append(notes, Note("paper", "absent")) ELSE notes
  /\ Witness(lid, sheet') /\ UNCHANGED timer

RunHead ==
  /\ inbox # <<>> /\ Room
  /\ inbox' = Tail(inbox)
  /\ LET c == Head(inbox) IN
       IF mute THEN UNCHANGED <<sheet, rollers, timer, notes, since>>
       ELSE \/ c.do \in Kinds /\ Answer(c)
            \/ c.do \in {"feed", "clear"} /\ Move(c.do)
            \/ c.do = "set" /\ timer' = c.to /\ UNCHANGED <<sheet, rollers, notes, since>>
  /\ UNCHANGED <<lid, mute, up, run>>

World == MoveLid \/ MoveSheet \/ GoesMute \/ Drops \/ RunHead
-----------------------------------------------------------------------------
(* _on_notification and _dispatch_event.                                    *)

\* watch_paper of eject_paper.
Clears(e) == e.kind = "paper" /\ e.value = "absent"

\* The listeners come first; then the first waiter of that type that has no
\* answer takes the event, whatever asked for it.
Deliver ==
  /\ notes # <<>> /\ notes' = Tail(notes)
  /\ LET e == Head(notes) IN
       /\ absent' = IF absent # "off" /\ Clears(e) THEN "set" ELSE absent
       /\ waiter' = IF waiter.kind = e.kind /\ waiter.got = NoAnswer
                    THEN [waiter EXCEPT !.got = e.value] ELSE waiter
  /\ UNCHANGED <<world, up, inbox, op, todo, pc, sent, says, since>>
-----------------------------------------------------------------------------
(* _query: the write, then the waiter, then the event or the timeout.       *)

Command(do, to) == [do |-> do, to |-> to]

CanSend == up /\ Len(inbox) < MaxInbox

Write(do, to) ==
  /\ CanSend /\ inbox' = Append(inbox, Command(do, to))
  /\ UNCHANGED <<notes, up>>

\* An answer that came before this is lost to the query.
Register(kind) ==
  /\ pc = "written" /\ pc' = "waiting" /\ waiter' = [kind |-> kind, got |-> NoAnswer]
  /\ UNCHANGED <<world, link, op, todo, absent, sent, says, since>>

\* The wait ends with the event or with the timeout, and its entry goes.  A
\* timeout together with the event is one that came just before it.
Ends(v) == pc = "waiting" /\ v = waiter.got /\ waiter' = NoWaiter
=============================================================================
