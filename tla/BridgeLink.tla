----------------------------- MODULE BridgeLink -----------------------------
(***************************************************************************)
(* The Bluetooth connection of the bridge and its idle timer:              *)
(* Transport.connect, disconnect, write and _on_disconnected               *)
(* (transport.py), Printer.connect and reconnect (printer.py), and         *)
(* Bridge.connect, disconnect, start_hold, _expire_hold and cancel_hold    *)
(* (bridge/server.py), as the commands of a session drive them, up to the  *)
(* end of serve.                                                           *)
(*                                                                         *)
(* Sessions come one after the other and run one command at a time (that   *)
(* is BridgeSession); what runs beside the command is the timer's own      *)
(* disconnect task, and the printer may drop the connection at any time.   *)
(* A client is a BleakClient object.  The printer has one connection, and  *)
(* the operating system keeps it until a client that is attached to it     *)
(* disconnects or the printer goes away.                                   *)
(***************************************************************************)
EXTENDS Naturals

CONSTANTS
  ClientIds,   \* BleakClient objects; five are enough to find one unused
  NoClient,
  First,       \* commands a session may begin with, and go on with after close
  Commands,    \* commands the sessions send
  Holds,       \* idle_disconnect_minutes > 0
  Scans,       \* the printer is looked up by a scan before each connect
  TimerRaces,  \* commands may arrive while the timer's disconnect runs
  WriteErrors  \* a write may fail on a connection that is still up

ASSUME LinkAssumption ==
  /\ NoClient \notin ClientIds
  /\ First \subseteq Commands
  /\ Commands \subseteq {"open", "wait_ready", "page_end", "status", "close", "disconnect"}
  /\ {Holds, Scans, TimerRaces, WriteErrors} \subseteq BOOLEAN

VARIABLES
  session,   \* a session is served
  begun,     \* it sent a command since it began, closed or disconnected
  used,      \* Session._used_link
  pc,        \* the running command: "none" or the await it is at
  then,      \* what follows the disconnect: "end" or "connect"
  mine,      \* the client the command disconnects
  client,    \* Transport._client
  connected, \* Transport._connected
  attached,  \* clients attached to the connection; none: it is down
  broken,    \* history: a write failed on the connection that is up
  hold,      \* Bridge._hold_handle is armed
  counted,   \* no command was taken since it was armed
  task,      \* Bridge._hold_task: "none", "due" or "disconnecting"
  its,       \* the client the task disconnects
  server,    \* serve: "up", "stopping", "releasing" or "exited"
  last       \* the client serve disconnects

command == <<pc, then, mine>>
transport == <<client, connected>>
air == <<attached, broken>>
timer == <<hold, counted>>
expiry == <<task, its>>
service == <<server, last>>
vars == <<session, begun, used, command, transport, air, timer, expiry, service>>

IsConnected == connected /\ client # NoClient
Up == attached # {}
Unused == ClientIds \ (attached \cup {client, mine, its, last})

Init ==
  /\ session = FALSE /\ begun = FALSE /\ used = FALSE
  /\ pc = "none" /\ then = "end" /\ mine = NoClient
  /\ client = NoClient /\ connected = FALSE /\ attached = {} /\ broken = FALSE
  /\ hold = FALSE /\ counted = FALSE /\ task = "none" /\ its = NoClient
  /\ server = "up" /\ last = NoClient
-----------------------------------------------------------------------------
(* Bridge.start_hold and cancel_hold.                                       *)

CancelHold == hold' = FALSE /\ counted' = FALSE

StartHold == hold' = (IsConnected /\ Holds) /\ counted' = (IsConnected /\ Holds)

\* A command that has nothing to do with the timer.
KeepHold == UNCHANGED hold /\ counted' = FALSE

\* _expire_hold: the disconnect runs as a task of its own.
Expire ==
  /\ hold /\ task = "none"
  /\ hold' = FALSE /\ task' = "due"
  /\ UNCHANGED <<service, session, begun, used, command, transport, air, counted, its>>

\* Bridge.disconnect, up to its await.
ExpireDisconnects ==
  /\ task = "due" /\ CancelHold
  /\ IF IsConnected
     THEN task' = "disconnecting" /\ its' = client /\ connected' = FALSE
     ELSE task' = "none" /\ UNCHANGED <<its, connected>>
  /\ UNCHANGED <<service, session, begun, used, command, client, air>>

\* Disconnecting a client that is still attached takes the connection down for
\* every client; the finally of Transport.disconnect then forgets whatever
\* client is current.
Gone(c) ==
  /\ attached' = IF c \in attached THEN {} ELSE attached
  /\ broken' = (broken /\ c \notin attached)
Forgotten == client' = NoClient /\ connected' = FALSE

ExpireEnds ==
  /\ task = "disconnecting" /\ task' = "none" /\ its' = NoClient
  /\ Gone(its) /\ Forgotten
  /\ UNCHANGED <<service, session, begun, used, command, timer>>

Timer == Expire \/ ExpireDisconnects \/ ExpireEnds
-----------------------------------------------------------------------------
(* Sessions and their commands.                                             *)

\* Bug for the mutant runs: the socket stays open while serve waits.
Bug_AcceptsOn ==
  /\ server \in {"up", "stopping"}
  /\ ~session /\ session' = TRUE /\ begun' = FALSE /\ used' = FALSE
  /\ UNCHANGED <<service, command, transport, air, timer, expiry>>

StartSession ==
  /\ server = "up"
  /\ ~session /\ session' = TRUE /\ begun' = FALSE /\ used' = FALSE
  /\ UNCHANGED <<service, command, transport, air, timer, expiry>>

Taken(k) ==
  /\ session /\ pc = "none" /\ k \in Commands /\ (~begun => k \in First)
  /\ TimerRaces \/ task = "none"
  /\ begun' = (k \notin {"close", "disconnect"})

\* Bug for the mutant runs: a connection that is up keeps its timer.
Bug_HoldRunsOn ==
  /\ IF IsConnected THEN pc' = "none" /\ KeepHold ELSE pc' = "connect" /\ CancelHold
  /\ UNCHANGED <<then, mine>>

\* Bridge.connect stops the timer and keeps a connection that is up.
BridgeConnect ==
  /\ CancelHold
  /\ pc' = IF IsConnected THEN "none" ELSE "connect"
  /\ UNCHANGED <<then, mine>>

Open ==
  /\ Taken("open") /\ used' = TRUE /\ BridgeConnect
  /\ UNCHANGED <<service, session, transport, air, expiry>>

\* wait_ready connects without claiming the connection.
WaitReady ==
  /\ Taken("wait_ready") /\ UNCHANGED used
  /\ IF IsConnected THEN pc' = "using" /\ KeepHold ELSE pc' = "connect" /\ CancelHold
  /\ UNCHANGED <<service, session, then, mine, transport, air, expiry>>

\* page_end and eject need a connection and do not stop the timer; status,
\* info and auto_off do not claim the connection either.
Use(k, claims) ==
  /\ Taken(k)
  /\ used' = (used \/ (claims /\ IsConnected))
  /\ pc' = IF IsConnected THEN "using" ELSE "none"
  /\ KeepHold
  /\ UNCHANGED <<service, session, then, mine, transport, air, expiry>>

PageEnd == Use("page_end", TRUE)
Status == Use("status", FALSE)

Close ==
  /\ Taken("close") /\ StartHold
  /\ UNCHANGED <<service, session, used, command, transport, air, expiry>>

\* Transport.disconnect, up to its await.
Disconnecting(next) ==
  pc' = "disconnect" /\ then' = next /\ mine' = client /\ connected' = FALSE

Disconnect ==
  /\ Taken("disconnect") /\ used' = FALSE /\ CancelHold
  /\ IF IsConnected THEN Disconnecting("end") ELSE UNCHANGED <<command, connected>>
  /\ UNCHANGED <<service, session, client, air, expiry>>

\* Bug for the mutant runs: the timer is left to the close command.
Bug_NoHoldAtEnd == UNCHANGED timer

\* The end of run: the connection is left to the timer.
HoldAtEnd == IF used THEN StartHold ELSE UNCHANGED timer

\* Bug for the mutant runs: the session ends under its command.
Bug_EndMidCommand ==
  /\ session /\ HoldAtEnd
  /\ session' = FALSE /\ begun' = FALSE /\ used' = FALSE
  /\ UNCHANGED <<service, command, transport, air, expiry>>

EndSession ==
  /\ session /\ pc = "none" /\ HoldAtEnd
  /\ session' = FALSE /\ begun' = FALSE /\ used' = FALSE
  /\ UNCHANGED <<service, command, transport, air, expiry>>
-----------------------------------------------------------------------------
(* The awaits of a command.                                                 *)

\* The command fails or is done with the connection.
Finish == pc' = "none" /\ UNCHANGED <<then, mine>>

\* The printer advertises only while it has no connection.
ConnectStarts ==
  /\ pc = "connect" /\ ~IsConnected
  /\ \/ /\ Scans => ~Up
        /\ client' \in Unused
        /\ pc' = "attach" /\ mine' = client' /\ UNCHANGED then
     \/ UNCHANGED client /\ Finish
  /\ UNCHANGED <<service, session, begun, used, connected, air, timer, expiry>>

Attach ==
  /\ pc = "attach"
  /\ \/ /\ attached' = attached \cup {mine} /\ connected' = TRUE
        /\ pc' = "subscribe" /\ UNCHANGED <<then, mine, client, broken>>
     \/ /\ client' = NoClient /\ UNCHANGED <<connected, air>>
        /\ Finish
  /\ UNCHANGED <<service, session, begun, used, timer, expiry>>

\* start_notify on the current client: without one an AttributeError leaves
\* connect, on a dead one the BleakError disconnects.
Subscribe ==
  /\ pc = "subscribe"
  /\ \/ client # NoClient /\ client \in attached /\ pc' = "using"
        /\ UNCHANGED <<then, mine, connected>>
     \/ client = NoClient /\ Finish /\ UNCHANGED connected
     \/ client # NoClient /\ client \notin attached /\ Disconnecting("end")
  /\ UNCHANGED <<service, session, begun, used, client, air, timer, expiry>>

UseEnds ==
  /\ pc = "using" /\ Finish
  /\ UNCHANGED <<service, session, begun, used, transport, air, timer, expiry>>

\* A mute printer: Printer.reconnect.
Reconnect ==
  /\ pc = "using" /\ client # NoClient /\ Disconnecting("connect")
  /\ UNCHANGED <<service, session, begun, used, client, air, timer, expiry>>

WriteFails ==
  /\ pc = "using" /\ WriteErrors /\ IsConnected /\ connected' = FALSE /\ broken' = Up
  /\ UNCHANGED <<service, session, begun, used, command, client, attached, timer, expiry>>

\* A loop that waits for the printer finds no connection and connects again.
ConnectsAgain ==
  /\ pc = "using" /\ ~IsConnected /\ CancelHold
  /\ pc' = "connect" /\ UNCHANGED <<then, mine>>
  /\ UNCHANGED <<service, session, begun, used, transport, air, expiry>>

\* Bug for the mutant runs: the old client is dropped, not disconnected.
Bug_Forget ==
  /\ pc = "disconnect"
  /\ UNCHANGED air /\ Forgotten
  /\ pc' = IF then = "end" THEN "none" ELSE "connect"
  /\ then' = "end" /\ mine' = NoClient
  /\ UNCHANGED <<service, session, begun, used, timer, expiry>>

Disconnected ==
  /\ pc = "disconnect"
  /\ Gone(mine) /\ Forgotten
  /\ pc' = IF then = "end" THEN "none" ELSE "connect"
  /\ then' = "end" /\ mine' = NoClient
  /\ UNCHANGED <<service, session, begun, used, timer, expiry>>

Command == \/ ConnectStarts \/ Attach \/ Subscribe \/ UseEnds \/ Reconnect
           \/ WriteFails \/ ConnectsAgain \/ Disconnected

\* The printer switches off or leaves range: _on_disconnected marks the
\* transport down, whichever client it is called for.
PeerDrops ==
  /\ Up /\ attached' = {} /\ connected' = FALSE /\ broken' = FALSE
  /\ UNCHANGED <<service, session, begun, used, command, client, timer, expiry>>
-----------------------------------------------------------------------------
(* serve.                                                                   *)

\* SIGTERM or SIGINT: leaving `async with server` closes the socket and waits
\* for the connections that are open.
Stop ==
  /\ server = "up" /\ server' = "stopping"
  /\ UNCHANGED <<last, session, begun, used, command, transport, air, timer, expiry>>

\* The process ends; a disconnect its tasks have asked for goes through.
Exits(gone) ==
  /\ server' = "exited" /\ last' = NoClient /\ task' = "none" /\ its' = NoClient
  /\ attached' = IF gone \cap attached # {} THEN {} ELSE attached
  /\ broken' = (broken /\ gone \cap attached = {})
  /\ Forgotten

\* Bug for the mutant runs: serve leaves the connection to the system.
Bug_JustExits ==
  /\ server = "stopping" /\ ~session /\ CancelHold /\ Exits({its})
  /\ UNCHANGED <<session, begun, used, command>>

\* Bridge.disconnect in the finally of serve, up to its await.
ServeReleases ==
  /\ server = "stopping" /\ ~session /\ CancelHold
  /\ IF IsConnected
     THEN /\ server' = "releasing" /\ last' = client /\ connected' = FALSE
          /\ UNCHANGED <<client, air, expiry>>
     ELSE Exits({its})
  /\ UNCHANGED <<session, begun, used, command>>

ServeExits ==
  /\ server = "releasing" /\ Exits({last, its})
  /\ UNCHANGED <<session, begun, used, command, timer>>

Serve == ServeReleases \/ ServeExits
-----------------------------------------------------------------------------
Session == StartSession \/ EndSession
           \/ Open \/ WaitReady \/ PageEnd \/ Status \/ Close \/ Disconnect

Next == Session \/ Command \/ Timer \/ PeerDrops \/ Stop \/ Serve

\* The timer fires, its task runs on, and so does serve once it is stopped.
Fairness == /\ WF_vars(Expire) /\ WF_vars(ExpireDisconnects) /\ WF_vars(ExpireEnds)
            /\ WF_vars(Serve)

Spec == Init /\ [][Next]_vars /\ Fairness
-----------------------------------------------------------------------------
(* Properties.                                                              *)

TypeOK ==
  /\ session \in BOOLEAN /\ begun \in BOOLEAN /\ used \in BOOLEAN
  /\ pc \in {"none", "connect", "attach", "subscribe", "using", "disconnect"}
  /\ then \in {"end", "connect"}
  /\ {client, mine, its} \subseteq ClientIds \cup {NoClient}
  /\ connected \in BOOLEAN /\ attached \subseteq ClientIds
  /\ broken \in BOOLEAN /\ (broken => WriteErrors /\ Up)
  /\ hold \in BOOLEAN /\ counted \in BOOLEAN
  /\ task \in {"none", "due", "disconnecting"}
  /\ pc # "none" => session
  /\ server \in {"up", "stopping", "releasing", "exited"}
  /\ last \in ClientIds \cup {NoClient} /\ (last # NoClient) <=> (server = "releasing")

\* Nothing runs that could still touch the connection.
Quiet == pc = "none" /\ task = "none"

\* No connection is left behind while the bridge runs: of what the operating
\* system keeps up the transport holds the client, the only object that can
\* take it down.
NoOrphanLink == Quiet /\ server # "exited" /\ Up => client \in attached

\* "Minutes without a command": no command came since the timer was armed.
TimerCountsCommands == [][Expire => counted]_vars

\* Once no more sessions come, the bridge lets the printer go: the connection is
\* down for good, and the printer is left to other users and to its own
\* auto-off.  Sessions begin with a command in First.  The exception is a
\* connection on which a write failed: the transport takes it for gone, and the
\* bridge does not disconnect it.
IdleLinkIsDropped == Holds => (<>[]~session => <>[](Up => broken))

\* serve drops the printer connection on the way out: BlueZ would keep it and
\* the printer would stop advertising.  No command and no task of the timer
\* leaves one behind it, with the same exception.
ReleasedAtExit == [][server # "exited" /\ server' = "exited" /\ Up' => broken]_vars

\* A stopped bridge exits when its clients have left: it lets no new one in.
StopEnds == []<>~session => (server = "stopping" ~> server = "exited")
=============================================================================
