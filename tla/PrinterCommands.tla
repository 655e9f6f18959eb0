--------------------------- MODULE PrinterCommands ---------------------------
(***************************************************************************)
(* What asks and feeds the printer outside of a page: check_ready,         *)
(* query_device_info, set_auto_off_timer and eject_paper (printer.py), the *)
(* commands status, info, auto_off, eject, identify and test_page of a     *)
(* session (bridge/session.py) and _apply_auto_off of Bridge.connect       *)
(* (bridge/server.py).                                                     *)
(*                                                                         *)
(* A command is the sequence of its steps, and an answer may add steps or  *)
(* drop some.  A step is a query, named for its kind unless its answer     *)
(* decides more: "answering" is _answering_printer, "apply" the query of   *)
(* _apply_auto_off, "look" that of identify, "eject" eject_paper.          *)
(***************************************************************************)
EXTENDS PrinterEvents

CONSTANTS
  Ops,        \* commands called
  Details     \* queries of info whose answers decide nothing, in their order

ASSUME OpsAssumption ==
  /\ Ops \subseteq {"check_ready", "status", "info", "test_page", "auto_off", "eject",
                  "identify", "connect"}
  /\ Details \in Seq({"battery", "firmware", "serial"})

Pulse == [i \in 1..(2 * Pulses) |-> IF i % 2 = 1 THEN "feed" ELSE "paper"]

\* Bug for the mutant runs: auto_off trusts the connection.
Bug_NoBarrier ==
  [check_ready |-> <<"lid", "paper">>,
   status      |-> <<"answering", "lid", "paper", "battery">>,
   info        |-> <<"answering">> \o Details \o <<"lid", "paper", "timer">>,
   test_page   |-> <<"answering">> \o Details \o <<"lid", "paper", "timer">>,
   auto_off    |-> <<"set", "timer">>,
   eject       |-> <<"eject">>,
   identify    |-> <<"answering", "look">> \o Pulse,
   connect     |-> <<>>]

Steps ==
  [check_ready |-> <<"lid", "paper">>,
   status      |-> <<"answering", "lid", "paper", "battery">>,
   info        |-> <<"answering">> \o Details \o <<"lid", "paper", "timer">>,
   test_page   |-> <<"answering">> \o Details \o <<"lid", "paper", "timer">>,
   auto_off    |-> <<"answering", "set", "timer">>,
   eject       |-> <<"eject">>,
   identify    |-> <<"answering", "look">> \o Pulse,
   connect     |-> <<>>]

Asks(s) == CASE s \in {"answering", "look", "eject"} -> "paper"
             [] s = "apply" -> "timer"
             [] OTHER -> s

Step == Head(todo)
At(s) == op # "none" /\ pc = "next" /\ Step = s
-----------------------------------------------------------------------------
(* A command is called, goes on and ends.                                   *)

InFlight == {inbox[i].do : i \in DOMAIN inbox} \cup {notes[i].kind : i \in DOMAIN notes}

\* Nothing is under way that could be taken for an answer to this command.
Calm(o) ==
  CASE o = "check_ready" -> InFlight = {}
    [] o \in {"eject", "info", "test_page", "auto_off"} -> InFlight \cap {"paper", "feed", "clear"} = {}
    [] OTHER -> TRUE

Called(o, steps) ==
  /\ op = "none" /\ op' = o /\ todo' = steps /\ says' = "nothing"
  /\ since' = [lids   |-> IF o = "check_ready" THEN {lid} ELSE {},
               papers |-> IF o = "check_ready" THEN Sensed(lid, sheet) ELSE {},
               calm   |-> Calm(o)]
  /\ UNCHANGED <<pc, waiter, absent, sent>>

\* auto_off may be called without minutes.
Call(o) ==
  /\ o \in Ops \ {"connect"} /\ up
  /\ \E steps \in {Steps[o]} \cup IF o = "auto_off" THEN {<<"answering", "timer">>} ELSE {} :
       Called(o, steps)
  /\ UNCHANGED <<world, link>>

\* Bridge.connect, by open, identify or test_page.
Connect(o) ==
  /\ o \in Ops \cap {"connect", "identify", "test_page"} /\ ~up
  /\ Called(o, <<"apply">> \o Steps[o])
  /\ up' = TRUE
  /\ UNCHANGED <<world, inbox, notes>>

\* Bug for the mutant runs: the listener of eject_paper stays behind.
Bug_ListenerStays(v) ==
  /\ op' = "none" /\ todo' = <<>> /\ pc' = "next" /\ sent' = 0
  /\ says' = v /\ UNCHANGED absent

\* The end of a command; the finally of eject_paper removed its listener.
Return(v) ==
  /\ op' = "none" /\ todo' = <<>> /\ pc' = "next" /\ absent' = "off" /\ sent' = 0
  /\ says' = v

GoOn(steps, v) ==
  IF steps = <<>> THEN Return(v)
  ELSE /\ todo' = steps /\ pc' = "next" /\ absent' = "off" /\ sent' = 0
       /\ UNCHANGED <<op, says>>

\* ConnectionError leaves the command; identify and status answer an error.
\* _apply_auto_off takes any exception for a problem of the next command.
Fails ==
  /\ op # "none" /\ ~up
  /\ \/ pc \in {"next", "blind", "fill"}
     \/ pc = "watch" /\ (absent = "set" \/ sent < MaxFeeds)
  /\ IF Step = "apply" \/ (Step = "set" /\ op # "auto_off") THEN GoOn(Tail(todo), "done") ELSE Return("error")
  /\ UNCHANGED <<world, link, waiter, since>>
-----------------------------------------------------------------------------
(* Queries and what their answers decide.                                   *)

Query ==
  /\ op # "none" /\ pc = "next" /\ Asks(Step) \in Kinds
  /\ Write(Asks(Step), NoAnswer) /\ pc' = "written"
  /\ absent' = IF Step = "eject" THEN "clear" ELSE absent
  /\ UNCHANGED <<world, op, todo, waiter, sent, says, since>>

Registered ==
  /\ op # "none" /\ Register(Asks(Step))

\* Bug for the mutant runs: silence counts as a closed lid.
Bug_SilenceIsReady(v) == v \in {"open", "absent"}

\* check_ready: the answers with which it says no.
NotReady(v) == v \in {NoAnswer, "open", "absent"}

\* eject_paper after its query.
EjectsAfter(v) ==
  /\ pc' = IF v = "present" THEN "fill" ELSE "blind"
  /\ sent' = 0 /\ UNCHANGED <<op, todo, absent, says>>

\* query_device_info asks for the sheet only under a closed lid, and
\* _apply_auto_off sets the timer unless it is as wanted.
After(v) ==
  LET rest == Tail(todo) IN
  CASE Step = "answering" /\ v = NoAnswer ->
         pc' = "reconnect" /\ UNCHANGED <<op, todo, absent, sent, says>>
    [] Step = "eject" -> EjectsAfter(v)
    [] op = "check_ready" /\ NotReady(v) -> Return("not ready")
    [] op = "check_ready" /\ ~NotReady(v) -> GoOn(rest, "ready")
    [] op \in {"info", "test_page"} /\ Step = "lid" /\ v # "closed" -> GoOn(Tail(rest), v)
    [] Step = "look" /\ v = "present" -> GoOn(<<"eject">> \o rest, v)
    [] Step = "apply" /\ v # Wanted -> GoOn(<<"set">> \o rest, v)
    [] OTHER -> GoOn(rest, v)

QueryEnds == \E v \in Values \cup {NoAnswer} :
  /\ Ends(v) /\ After(v) /\ UNCHANGED <<world, link, since>>

\* _answering_printer: Printer.reconnect, which may fail.
Reconnect ==
  /\ pc = "reconnect" /\ inbox' = <<>> /\ notes' = <<>>
  /\ mute' = FALSE
  /\ \/ up' = TRUE /\ GoOn(Tail(todo), "done")
     \/ up' = FALSE /\ Return("error")
  /\ UNCHANGED <<lid, sheet, rollers, timer, waiter, since>>

\* set_auto_off_timer, by auto_off with any value or by _apply_auto_off.
SetTimer ==
  /\ At("set")
  /\ \E m \in IF op = "auto_off" THEN Timers ELSE {Wanted} : Write("set", m)
  /\ GoOn(Tail(todo), "done")
  /\ UNCHANGED <<world, waiter, since>>

PulseFeed ==
  /\ At("feed") /\ Write("feed", NoAnswer) /\ GoOn(Tail(todo), "done")
  /\ UNCHANGED <<world, waiter, since>>
-----------------------------------------------------------------------------
(* eject_paper: feeds kept ahead of the motor until the sensor is clear.    *)

EjectFeed(do) == Write(do, NoAnswer) /\ UNCHANGED <<world, waiter, since>>

Ejected(v) == GoOn(Tail(todo), v)

\* No sheet at the sensor, or no answer: the rollers are cleared blind.
BlindFeed ==
  /\ pc = "blind" /\ EjectFeed("clear")
  /\ IF sent + 1 = Blind THEN Ejected("blind")
     ELSE sent' = sent + 1 /\ UNCHANGED <<op, todo, pc, absent, says>>

Smaller(a, b) == IF a < b THEN a ELSE b

FillAhead ==
  /\ pc = "fill" /\ EjectFeed("feed") /\ sent' = sent + 1
  /\ pc' = IF sent + 1 < Smaller(Ahead, MaxFeeds) THEN "fill" ELSE "watch"
  /\ UNCHANGED <<op, todo, absent, says>>

\* Bug for the mutant runs: the sheet is left in the rollers.
Bug_LeftInRollers ==
  /\ pc = "watch" /\ absent = "set"
  /\ UNCHANGED <<link, world, waiter, since>> /\ Ejected("ejected")

SensorClear ==
  /\ pc = "watch" /\ absent = "set" /\ EjectFeed("clear") /\ Ejected("ejected")

\* Bug for the mutant runs: the feeds are not counted.
Bug_FeedsUncounted ==
  /\ pc = "watch" /\ absent = "clear" /\ sent < MaxFeeds
  /\ EjectFeed("feed") /\ UNCHANGED <<op, todo, pc, absent, sent, says>>

\* feed_seconds pass without the event.
FeedOn ==
  /\ pc = "watch" /\ absent = "clear" /\ sent < MaxFeeds
  /\ EjectFeed("feed") /\ sent' = sent + 1 /\ UNCHANGED <<op, todo, pc, absent, says>>

GiveUp ==
  /\ pc = "watch" /\ absent = "clear" /\ sent >= MaxFeeds
  /\ Ejected("still present") /\ UNCHANGED <<world, link, waiter, since>>

Eject == BlindFeed \/ FillAhead \/ SensorClear \/ FeedOn \/ GiveUp
-----------------------------------------------------------------------------
Calls == \E o \in Ops : Call(o) \/ Connect(o)

Runs == Query \/ Registered \/ QueryEnds \/ Reconnect \/ SetTimer \/ PulseFeed
        \/ Eject \/ Fails

Next == World \/ Deliver \/ Calls \/ Runs

\* A command runs on and its waits time out; the printer, when it is there,
\* runs what it was sent, and what it says arrives.
Fairness == WF_vars(Runs) /\ WF_vars(RunHead) /\ WF_vars(Deliver)

Spec == Init /\ [][Next]_vars /\ Fairness
-----------------------------------------------------------------------------
(* Properties.                                                              *)

\* Types; a waiter and the listener of eject_paper exist only while their
\* command runs, and the queues keep within their bounds.
TypeOK ==
  /\ lid \in Lids /\ sheet \in 0..SheetFeeds /\ timer \in Timers
  /\ rollers \in BOOLEAN /\ (rollers => sheet = 0) /\ mute \in BOOLEAN /\ up \in BOOLEAN
  /\ Len(inbox) <= MaxInbox /\ Len(notes) <= MaxNotes
  /\ op \in Ops \cup {"none"}
  /\ pc \in {"next", "written", "waiting", "reconnect", "blind", "fill", "watch"}
  /\ waiter.kind \in Kinds \cup {"none"} /\ waiter.got \in Values \cup {NoAnswer}
  /\ (waiter.kind # "none") <=> (pc = "waiting")
  /\ sent <= IF pc = "blind" THEN Blind ELSE MaxFeeds
  /\ op = "none" => todo = <<>> /\ pc = "next" /\ absent = "off"
  /\ absent # "off" => todo # <<>> /\ Step = "eject"

\* check_ready says "ready" only of a lid that was closed and a sheet that was
\* sensed since it was called, unless answers to earlier queries or earlier
\* events were still on their way to it.
ReadyWasSeen == says = "ready" /\ since.calm =>
                  "closed" \in since.lids /\ "present" \in since.papers

\* The auto-off setting that info and auto_off report is the printer's own.  A
\* late answer to an earlier query cannot pass for it: _answering_printer has
\* its own answer first, or a new connection, unless an event of the sheet
\* passed for that answer.
TimerIsTrue == says \in Timers /\ since.calm => says = timer

\* eject_paper says a sheet it saw is out only when it is: none is at the
\* sensor, and none in the rollers once the last feed has run; only a printer
\* that goes mute or drops its connection loses that feed.  The user may pull
\* the sheet meanwhile.  Excluded by since.calm: an answer, an event or a feed of
\* the sheet still under way at the call (an earlier sheet's paper-absent event
\* would pass for this one's), and a sheet inserted since.
FeedsClear == up /\ ~mute => \E i \in DOMAIN inbox : inbox[i].do = "clear"
EjectedIsOut == says = "ejected" /\ since.calm => sheet = 0 /\ (rollers => FeedsClear)

\* Every command comes to its end, whatever the printer, the user and the
\* connection do meanwhile.
CommandEnds == op # "none" ~> op = "none"
=============================================================================
