--------------------------- MODULE BridgeLink_proofs ---------------------------
(***************************************************************************)
(* Proofs about BridgeLink, for any number of client objects.              *)
(*                                                                         *)
(* TimerCountsCommands needs that a session begins with a command that     *)
(* stops the timer, or arms it anew (StopsTimer); CountInv says that then   *)
(* an armed timer belongs to a session that sent nothing since.            *)
(*                                                                         *)
(* That no connection is left behind rests on OwnInv: what the operating   *)
(* system keeps up belongs to the transport's client, and whoever is about *)
(* to disconnect holds that very client.  Two hypotheses keep a second     *)
(* client away: no command runs beside the timer's disconnect, and one     *)
(* that finds the transport down while the connection is up, after a       *)
(* failed write, looks for the printer first and finds it silent.          *)
(*                                                                         *)
(* HeldInv follows who has claimed the connection: what no session claims, *)
(* the timer does, but for a connection on which a write failed (broken).  *)
(***************************************************************************)
EXTENDS BridgeLink, TLAPS

StopsTimer == First \subseteq {"open", "close", "disconnect"}
OneAtATime == StopsTimer /\ ~TimerRaces /\ (Scans \/ ~WriteErrors)

\* A client is made before it is attached, and a command runs in a session.
IInv == TypeOK /\ (pc = "attach" => mine # NoClient)

\* A timer that is armed has counted: the session sent no command since.
CountInv == hold => counted /\ ~begun

\* The timer and its task run between commands.
AloneInv == hold \/ task # "none" => pc = "none" /\ ~begun

OwnInv ==
  /\ server # "exited" => attached \subseteq {client}
  /\ pc = "attach" => attached = {} /\ mine = client
  /\ pc = "disconnect" => mine = client
  /\ task = "disconnecting" => its = client /\ ~connected
  /\ server \in {"releasing", "exited"} => ~session
  /\ server = "releasing" => last = client /\ ~connected /\ task # "disconnecting"

\* Only after a failed write does the transport take for gone what is up.
DownInv ==
  Up /\ server # "exited" =>
     \/ connected \/ broken
     \/ task = "disconnecting" \/ pc = "disconnect" \/ server = "releasing"

LEMMA Ids == NoClient \notin ClientIds
BY LinkAssumption

LEMMA InitInv == Init => IInv /\ CountInv /\ AloneInv /\ OwnInv /\ DownInv
BY DEF Init, IInv, TypeOK, CountInv, AloneInv, OwnInv, DownInv, Up

\* Only a failed write breaks a connection, and it is over when it goes down.
LEMMA BrokenStep ==
  ASSUME IInv, [Next]_vars
  PROVE  broken' \in BOOLEAN /\ (broken' => WriteErrors /\ Up')
<1>1. broken \in BOOLEAN /\ (broken => WriteErrors /\ Up)
  BY DEF IInv, TypeOK
<1>2. CASE UNCHANGED air
  BY <1>1, <1>2 DEF air, Up
<1>3. CASE Attach
  <2>1. broken' = broken /\ (Up => Up')
    BY <1>3 DEF Attach, Up, air
  <2> QED
    BY <1>1, <2>1
<1>4. CASE WriteFails
  BY <1>4 DEF WriteFails, Up
<1>5. CASE ExpireEnds \/ Disconnected
  BY <1>1, <1>5 DEF ExpireEnds, Disconnected, Gone, Up
<1>6. CASE PeerDrops
  BY <1>6 DEF PeerDrops
<1>7. CASE Serve
  BY <1>1, <1>7 DEF Serve, ServeReleases, ServeExits, Exits, Up, air
<1> QED
  BY <1>2, <1>3, <1>4, <1>5, <1>6, <1>7 DEF Next, Session, StartSession, EndSession, Open,
     WaitReady, PageEnd, Status, Use, Close, Disconnect, Command, ConnectStarts, Subscribe,
     UseEnds, Reconnect, ConnectsAgain, Timer, Expire, ExpireDisconnects, Stop, vars

LEMMA TypesStep == IInv /\ [Next]_vars => IInv'
<1> SUFFICES ASSUME IInv, [Next]_vars PROVE IInv'
  OBVIOUS
<1> USE Ids, BrokenStep DEF IInv, TypeOK, IsConnected
<1>1. CASE Session
  <2>1. CASE StartSession \/ EndSession
    BY <2>1 DEF StartSession, EndSession, HoldAtEnd, StartHold, service, command,
       transport, timer, expiry, air
  <2>2. CASE Open \/ WaitReady
    BY <2>2 DEF Open, WaitReady, Taken, BridgeConnect, CancelHold, KeepHold, service,
       command, transport, timer, expiry, air
  <2>3. CASE PageEnd \/ Status
    BY <2>3, ZenonT(60) DEF PageEnd, Status, Use, Taken, KeepHold, service, transport, expiry, air
  <2>4. CASE Close \/ Disconnect
    BY <2>4 DEF Close, Disconnect, Taken, StartHold, CancelHold, Disconnecting, service,
       command, transport, expiry, air
  <2> QED
    BY <1>1, <2>1, <2>2, <2>3, <2>4 DEF Session
<1>2. CASE Command
  <2>1. CASE ConnectStarts
    BY <2>1, SMTT(30) DEF ConnectStarts, Unused, Finish, service, timer, expiry, air
  <2>2. CASE Attach
    BY <2>2, ZenonT(60) DEF Attach, Finish, service, timer, expiry, air
  <2>3. CASE Subscribe
    BY <2>3, ZenonT(60) DEF Subscribe, Finish, Disconnecting, service, timer, expiry, air
  <2>4. CASE UseEnds
    BY <2>4, SMTT(30) DEF UseEnds, Finish, service, transport, timer, expiry, air
  <2>6. CASE Reconnect
    BY <2>6, ZenonT(60) DEF Reconnect, Disconnecting, service, timer, expiry, air
  <2>5. CASE WriteFails \/ ConnectsAgain \/ Disconnected
    BY <2>5, ZenonT(60) DEF WriteFails, ConnectsAgain, Disconnected, CancelHold, Gone, Forgotten,
       service, command, transport, timer, expiry, air
  <2> QED
    BY <1>2, <2>1, <2>2, <2>3, <2>4, <2>5, <2>6 DEF Command
<1>3. CASE Timer
  <2>1. CASE Expire
    BY <2>1, ZenonT(60) DEF Expire, service, command, transport, air
  <2>2. CASE ExpireDisconnects
    BY <2>2, ZenonT(60) DEF ExpireDisconnects, CancelHold, service, command, air
  <2>3. CASE ExpireEnds
    BY <2>3, ZenonT(60) DEF ExpireEnds, Gone, Forgotten, service, command, timer, air
  <2> QED
    BY <1>3, <2>1, <2>2, <2>3 DEF Timer
<1>4. CASE PeerDrops \/ Stop
  <2>1. CASE PeerDrops
    <3>1. attached' = {} /\ connected' = FALSE /\ client' = client
          /\ UNCHANGED <<service, session, begun, used, command, timer, expiry>>
      BY <2>1, Zenon DEF PeerDrops
    <3>2. attached' \subseteq ClientIds /\ connected' \in BOOLEAN
      BY <3>1
    <3>3. UNCHANGED <<server, last, session, begun, used, pc, then, mine, client, hold, counted,
                      task, its>>
      BY <3>1 DEF service, command, timer, expiry, air
    <3> QED
      BY <3>2, <3>3
  <2>2. CASE Stop
    BY <2>2 DEF Stop, command, transport, timer, expiry, air
  <2> QED
    BY <1>4, <2>1, <2>2
<1>5. CASE Serve
  BY <1>5 DEF Serve, ServeReleases, ServeExits, Exits, CancelHold, Forgotten, command,
     expiry, timer, air
<1>6. CASE UNCHANGED vars
  BY <1>6 DEF vars, service, command, transport, timer, expiry, air
<1> QED
  BY <1>1, <1>2, <1>3, <1>4, <1>5, <1>6 DEF Next

\* TypeOK: types; a command runs only in a session, and serve holds a client
\* to disconnect exactly while it releases the connection.
THEOREM LinkTypes == Spec => []TypeOK
<1>1. IInv => TypeOK
  BY DEF IInv
<1> QED
  BY <1>1, InitInv, TypesStep, PTL DEF Spec
-----------------------------------------------------------------------------
(* The idle timer.                                                          *)

LEMMA CountStep ==
  ASSUME StopsTimer, IInv, CountInv, [Next]_vars
  PROVE  CountInv'
<1> USE DEF CountInv
<1>1. CASE Session
  <2>1. CASE StartSession \/ EndSession
    BY <2>1 DEF StartSession, EndSession, HoldAtEnd, StartHold, timer
  <2>2. CASE Open
    BY <2>2 DEF Open, BridgeConnect, CancelHold
  <2>3. CASE WaitReady \/ PageEnd \/ Status
    BY <2>3 DEF WaitReady, PageEnd, Status, Use, Taken, KeepHold, CancelHold, StopsTimer
  <2>4. CASE Close \/ Disconnect
    BY <2>4 DEF Close, Disconnect, Taken, StartHold, CancelHold
  <2> QED
    BY <1>1, <2>1, <2>2, <2>3, <2>4 DEF Session
<1>2. CASE Command
  BY <1>2 DEF Command, ConnectStarts, Attach, Subscribe, UseEnds, Reconnect, WriteFails,
     ConnectsAgain, Disconnected, CancelHold, timer
<1>3. CASE Timer
  BY <1>3 DEF Timer, Expire, ExpireDisconnects, ExpireEnds, CancelHold, timer
<1>4. CASE PeerDrops \/ Stop \/ Serve \/ UNCHANGED vars
  BY <1>4 DEF PeerDrops, Stop, Serve, ServeReleases, ServeExits, CancelHold, timer, vars
<1> QED
  BY <1>1, <1>2, <1>3, <1>4 DEF Next

\* TimerCountsCommands: the timer drops the connection only when no command
\* came since it was armed.
THEOREM TimerCounts ==
  ASSUME StopsTimer
  PROVE  Spec => TimerCountsCommands
<1> DEFINE Inv == IInv /\ CountInv
<1>1. Inv /\ [Next]_vars => Inv'
  BY TypesStep, CountStep
<1>2. Inv /\ [Next]_vars => [Expire => counted]_vars
  BY DEF CountInv, Expire
<1> QED
  BY <1>1, <1>2, InitInv, PTL DEF Spec, TimerCountsCommands
-----------------------------------------------------------------------------
(* The one client.                                                          *)

LEMMA AloneStep ==
  ASSUME OneAtATime, IInv, AloneInv, CountInv, [Next]_vars
  PROVE  AloneInv'
<1> USE DEF AloneInv
<1>1. CASE Session
  <2>1. CASE StartSession \/ EndSession
    BY <2>1 DEF StartSession, EndSession, HoldAtEnd, StartHold, IInv, TypeOK, command,
       timer, expiry
  <2>2. CASE Open \/ Disconnect
    BY <2>2 DEF Open, Disconnect, Taken, BridgeConnect, CancelHold, OneAtATime, expiry
  <2>3. CASE WaitReady \/ PageEnd \/ Status
    BY <2>3 DEF WaitReady, PageEnd, Status, Use, Taken, KeepHold, CancelHold, OneAtATime,
       StopsTimer, expiry
  <2>4. CASE Close
    BY <2>4 DEF Close, Taken, StartHold, command, expiry
  <2> QED
    BY <1>1, <2>1, <2>2, <2>3, <2>4 DEF Session
<1>2. CASE Command
  BY <1>2 DEF Command, ConnectStarts, Attach, Subscribe, UseEnds, Reconnect, WriteFails,
     ConnectsAgain, Disconnected, CancelHold, timer, expiry
<1>3. CASE Timer
  BY <1>3 DEF Timer, Expire, ExpireDisconnects, ExpireEnds, CancelHold, timer, command
<1>4. CASE PeerDrops \/ Stop \/ Serve \/ UNCHANGED vars
  BY <1>4 DEF PeerDrops, Stop, Serve, ServeReleases, ServeExits, Exits, CancelHold, timer,
     command, expiry, vars
<1> QED
  BY <1>1, <1>2, <1>3, <1>4 DEF Next

\* A command that looks for its printer finds it without a connection.
LEMMA NobodyAttached ==
  ASSUME OneAtATime, IInv, AloneInv, OwnInv, DownInv, pc = "connect", ~IsConnected,
         Scans => ~Up
  PROVE  attached = {}
<1>1. task = "none" /\ session /\ server \notin {"releasing", "exited"}
  BY DEF AloneInv, OwnInv, IInv, TypeOK
<1>2. CASE Scans
  BY <1>2 DEF Up
<1>3. CASE ~Scans
  <2>1. Up => connected
    BY <1>1, <1>3 DEF DownInv, OneAtATime, IInv, TypeOK
  <2>2. Up => client # NoClient
    BY <1>1, Ids DEF Up, OwnInv, IInv, TypeOK
  <2> QED
    BY <2>1, <2>2 DEF Up, IsConnected
<1> QED
  BY <1>2, <1>3

LEMMA OwnStep ==
  ASSUME OneAtATime, IInv, AloneInv, OwnInv, DownInv, [Next]_vars
  PROVE  OwnInv'
<1> USE Ids DEF OwnInv
<1>1. CASE Session
  BY <1>1 DEF Session, StartSession, EndSession, Open, WaitReady, PageEnd, Status, Use, Close,
     Disconnect, Taken, BridgeConnect, Disconnecting, OneAtATime, AloneInv, service, command,
     transport, expiry, air
<1>2. CASE ConnectStarts
  <2>1. /\ UNCHANGED <<air, session, service>>
        /\ attached = {} \/ (pc' = "none" /\ client' = client)
    <3>1. UNCHANGED <<air, session, service>> /\ pc = "connect" /\ ~IsConnected
      BY <1>2, Zenon DEF ConnectStarts
    <3>2. CASE Scans => ~Up
      <4>1. attached = {}
        BY <3>1, <3>2, NobodyAttached, Zenon
      <4> QED
        BY <3>1, <4>1, Zenon
    <3>3. CASE ~(Scans => ~Up)
      BY <1>2, <3>1, <3>3, Zenon DEF ConnectStarts, Finish
    <3> QED
      BY <3>2, <3>3
  <2>2. task = "none" /\ task' = "none" /\ server \notin {"releasing", "exited"}
    BY <1>2 DEF ConnectStarts, AloneInv, IInv, TypeOK, expiry, air
  <2>3. pc' # "disconnect" /\ (pc' = "attach" => mine' = client')
    BY <1>2 DEF ConnectStarts, Finish
  <2> QED
    BY <2>1, <2>2, <2>3 DEF service, air
<1>3. CASE Attach \/ Subscribe \/ UseEnds \/ Reconnect
  BY <1>3 DEF Attach, Subscribe, UseEnds, Reconnect, Finish, Disconnecting, AloneInv,
     IInv, TypeOK, service, transport, expiry, air
<1>4. CASE WriteFails \/ ConnectsAgain \/ Disconnected
  BY <1>4 DEF WriteFails, ConnectsAgain, Disconnected, Gone, Forgotten, AloneInv, IInv,
     TypeOK, service, command, transport, expiry, air
<1>5. CASE Timer
  <2>1. CASE Expire
    BY <2>1 DEF Expire, service, command, transport, air
  <2>2. CASE ExpireDisconnects
    <3>1. /\ UNCHANGED <<service, session, command, client, air>>
          /\ \/ IsConnected /\ its' = client /\ connected' = FALSE
             \/ task' = "none" /\ UNCHANGED connected
      BY <2>2, Zenon DEF ExpireDisconnects
    <3> QED
      BY <2>2, <3>1 DEF IsConnected, service, command, air
  <2>3. CASE ExpireEnds
    BY <2>3 DEF ExpireEnds, Gone, Forgotten, AloneInv, service, command, air
  <2> QED
    BY <1>5, <2>1, <2>2, <2>3 DEF Timer
<1>6. CASE PeerDrops \/ Stop
  BY <1>6 DEF PeerDrops, Stop, service, command, transport, expiry, air
<1>7. CASE Serve
  BY <1>7 DEF Serve, ServeReleases, ServeExits, Exits, Forgotten, IsConnected, IInv, TypeOK,
     command, expiry, air
<1>8. CASE UNCHANGED vars
  BY <1>8 DEF vars, service, command, transport, expiry, air
<1> QED
  BY <1>1, <1>2, <1>3, <1>4, <1>5, <1>6, <1>7, <1>8 DEF Next, Command

LEMMA DownStep ==
  ASSUME OneAtATime, IInv, AloneInv, OwnInv, DownInv, [Next]_vars
  PROVE  DownInv'
<1> USE Ids DEF DownInv, Up
<1>1. CASE Session
  BY <1>1 DEF Session, StartSession, EndSession, Open, WaitReady, PageEnd, Status, Use, Close,
     Disconnect, Taken, BridgeConnect, Disconnecting, service, command, transport, expiry, air
<1>2. CASE ConnectStarts
  BY <1>2 DEF ConnectStarts, Finish, service, expiry, air
<1>3. CASE Attach \/ Subscribe \/ UseEnds \/ Reconnect
  BY <1>3 DEF Attach, Subscribe, UseEnds, Reconnect, Finish, Disconnecting, OwnInv,
     service, transport, expiry, air
<1>4. CASE WriteFails \/ ConnectsAgain \/ Disconnected
  BY <1>4 DEF WriteFails, ConnectsAgain, Disconnected, Gone, Forgotten, OwnInv, IInv,
     TypeOK, service, command, transport, expiry, air
<1>5. CASE Timer
  BY <1>5 DEF Timer, Expire, ExpireDisconnects, ExpireEnds, Gone, Forgotten, OwnInv,
     AloneInv, service, command, transport, air
<1>6. CASE PeerDrops \/ Stop
  BY <1>6 DEF PeerDrops, Stop, service, command, transport, expiry, air
<1>7. CASE Serve
  BY <1>7 DEF Serve, ServeReleases, ServeExits, Exits, command, air
<1>8. CASE UNCHANGED vars
  BY <1>8 DEF vars, service, command, transport, expiry, air
<1> QED
  BY <1>1, <1>2, <1>3, <1>4, <1>5, <1>6, <1>7, <1>8 DEF Next, Command

OwnerInv == IInv /\ CountInv /\ AloneInv /\ OwnInv /\ DownInv

LEMMA OwnerStep ==
  ASSUME OneAtATime
  PROVE  OwnerInv /\ [Next]_vars => OwnerInv'
BY TypesStep, CountStep, AloneStep, OwnStep, DownStep DEF OwnerInv, OneAtATime

\* NoOrphanLink: whenever nothing runs, a connection the operating system keeps
\* up belongs to the client of the transport, which can take it down.
THEOREM NoLinkIsOrphaned ==
  ASSUME OneAtATime
  PROVE  Spec => []NoOrphanLink
<1>1. OwnerInv => NoOrphanLink
  BY DEF OwnerInv, OwnInv, NoOrphanLink, Up
<1>2. Init => OwnerInv
  BY InitInv DEF OwnerInv
<1> QED
  BY <1>1, <1>2, OwnerStep, PTL DEF Spec

\* ReleasedAtExit: serve leaves no connection behind it, whatever the timer's
\* task was doing, except one on which a write failed.
THEOREM ExitReleases ==
  ASSUME OneAtATime
  PROVE  Spec => ReleasedAtExit
<1> DEFINE Released == server # "exited" /\ server' = "exited" /\ Up' => broken
<1>1. OwnerInv /\ [Next]_vars => [Released]_vars
  <2> SUFFICES ASSUME OwnerInv, [Next]_vars, server # "exited", server' = "exited", Up'
               PROVE  broken
    OBVIOUS
  <2>1. Serve
    BY DEF Next, Session, StartSession, EndSession, Open, WaitReady, PageEnd, Status, Use,
       Close, Disconnect, Command, ConnectStarts, Attach, Subscribe, UseEnds, Reconnect,
       WriteFails, ConnectsAgain, Disconnected, Timer, Expire, ExpireDisconnects,
       ExpireEnds, PeerDrops, Stop, service, vars
  <2>2. attached \subseteq {client} /\ (client # NoClient \/ attached = {})
    BY Ids DEF OwnerInv, OwnInv, IInv, TypeOK
  <2>3. CASE ServeReleases
    <3>1. Exits({its}) /\ ~session /\ ~IsConnected /\ server = "stopping"
      BY <2>3 DEF ServeReleases
    <3>2. Up /\ attached' = attached /\ client \in attached /\ its \notin attached
      BY <2>2, <3>1 DEF Exits, Up
    <3>3. ~connected /\ pc = "none" /\ task # "disconnecting"
      BY <2>2, <3>1, <3>2 DEF IsConnected, OwnerInv, OwnInv, IInv, TypeOK
    <3>4. broken
      BY <3>1, <3>2, <3>3 DEF OwnerInv, DownInv
    <3> QED
      BY <3>4
  <2>4. CASE ServeExits
    BY <2>2, <2>4 DEF ServeExits, Exits, Up, OwnerInv, OwnInv
  <2> QED
    BY <2>1, <2>3, <2>4 DEF Serve
<1>2. Init => OwnerInv
  BY InitInv DEF OwnerInv
<1> QED
  BY <1>1, <1>2, OwnerStep, PTL DEF Spec, ReleasedAtExit
-----------------------------------------------------------------------------
(* The connection that nobody uses.                                         *)

\* A session that has not claimed the connection sends nothing that makes one;
\* a connection that is not claimed is left to the timer or to its task.
HeldInv ==
  /\ used => session
  /\ begun => used
  /\ pc \in {"connect", "attach", "subscribe", "using"} => used
  /\ pc = "disconnect" /\ then = "connect" => used
  /\ Holds /\ IsConnected /\ ~used => hold \/ task = "due"

LEMMA HeldStep ==
  ASSUME StopsTimer, IInv, HeldInv, [Next]_vars
  PROVE  HeldInv'
<1> USE DEF HeldInv, IsConnected
<1>1. CASE Session
  <2>1. CASE StartSession \/ EndSession
    BY <2>1 DEF StartSession, EndSession, HoldAtEnd, StartHold, command, transport, timer,
       expiry, IInv, TypeOK
  <2>2. CASE Open
    BY <2>2 DEF Open, Taken, BridgeConnect, CancelHold, transport, expiry
  <2>3. CASE WaitReady \/ PageEnd \/ Status
    <3>1. begun /\ used /\ used' /\ session'
      BY <2>3 DEF WaitReady, PageEnd, Status, Use, Taken, StopsTimer
    <3> QED
      BY <3>1
  <2>4. CASE Close \/ Disconnect
    BY <2>4 DEF Close, Disconnect, Taken, StartHold, CancelHold, Disconnecting, command,
       transport, expiry
  <2> QED
    BY <1>1, <2>1, <2>2, <2>3, <2>4 DEF Session
<1>2. CASE Command
  <2>1. CASE ConnectStarts \/ Attach \/ Subscribe \/ UseEnds \/ Reconnect \/ WriteFails
             \/ ConnectsAgain
    <3>1. used /\ used' /\ session' = session
      BY <2>1 DEF ConnectStarts, Attach, Subscribe, UseEnds, Reconnect, WriteFails,
         ConnectsAgain
    <3>2. begun' = begun
      BY <2>1 DEF ConnectStarts, Attach, Subscribe, UseEnds, Reconnect, WriteFails,
         ConnectsAgain
    <3> QED
      BY <3>1, <3>2
  <2>2. CASE Disconnected
    BY <2>2 DEF Disconnected, Forgotten, IInv, TypeOK
  <2> QED
    BY <1>2, <2>1, <2>2 DEF Command
<1>3. CASE Timer
  BY <1>3 DEF Timer, Expire, ExpireDisconnects, ExpireEnds, CancelHold, Forgotten, command,
     transport
<1>4. CASE Serve
  BY <1>4 DEF Serve, ServeReleases, ServeExits, Exits, CancelHold, Forgotten, command
<1>5. CASE PeerDrops \/ Stop \/ UNCHANGED vars
  BY <1>5 DEF PeerDrops, Stop, command, transport, timer, expiry, vars
<1> QED
  BY <1>1, <1>2, <1>3, <1>4, <1>5 DEF Next

\* Bridge.start_hold: when no session is served, a connection that is up is the
\* transport's, and its timer is armed or the timer's task is about to drop it;
\* else it is being dropped, by that task or by serve.  No session leaves a
\* connection behind without a timer, whatever it sent or left undone.  The
\* exception is a connection on which a write failed: it is up, and no timer
\* will drop it.
THEOREM IdleLinkIsTimed ==
  ASSUME OneAtATime
  PROVE  Spec => [](Holds /\ ~session /\ server # "exited" /\ Up /\ ~broken =>
                      \/ IsConnected /\ client \in attached /\ (hold \/ task = "due")
                      \/ task = "disconnecting" /\ its \in attached
                      \/ server = "releasing" /\ last \in attached)
<1> DEFINE Timed == Holds /\ ~session /\ server # "exited" /\ Up /\ ~broken =>
                      \/ IsConnected /\ client \in attached /\ (hold \/ task = "due")
                      \/ task = "disconnecting" /\ its \in attached
                      \/ server = "releasing" /\ last \in attached
           Inv == OwnerInv /\ HeldInv
<1>1. Init => Inv
  BY InitInv DEF Init, OwnerInv, HeldInv, IsConnected
<1>2. Inv /\ [Next]_vars => Inv'
  BY OwnerStep, HeldStep DEF OwnerInv, OneAtATime
<1>3. Inv => Timed
  <2> SUFFICES ASSUME Inv, Holds, ~session, server # "exited", Up, ~broken
               PROVE  Timed
    OBVIOUS
  <2>1. attached = {client} /\ client # NoClient
    BY Ids DEF OwnerInv, OwnInv, IInv, TypeOK, Up
  <2>2. pc = "none" /\ ~used
    BY DEF OwnerInv, IInv, TypeOK, HeldInv
  <2>3. connected \/ task = "disconnecting" \/ server = "releasing"
    BY <2>2 DEF OwnerInv, DownInv
  <2>4. connected => IsConnected /\ (hold \/ task = "due")
    BY <2>1, <2>2 DEF HeldInv, IsConnected
  <2> QED
    BY <2>1, <2>3, <2>4 DEF OwnerInv, OwnInv
<1> QED
  BY <1>1, <1>2, <1>3, PTL DEF Spec
=============================================================================
