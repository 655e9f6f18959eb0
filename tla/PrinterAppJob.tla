---------------------------- MODULE PrinterAppJob ----------------------------
(***************************************************************************)
(* A print job of the printer application: the raster callbacks of job.c,  *)
(* the client side of the socket protocol in bridge.c and the open and     *)
(* close of the device in device.c, against the session of the bridge that *)
(* serves the connection (bridge/session.py: the order of messages is      *)
(* BridgeSession's, the page it collects is _cmd_page_begin, _cmd_lines    *)
(* and _cmd_page_end).                                                     *)
(*                                                                         *)
(* PAPPL drives the callbacks on one thread: it starts pages, writes their *)
(* lines, and ends the job early when a callback fails or the user cancels *)
(* it.  The thread blocks in phomemo_bridge_reply only.  A call is `doing` *)
(* from its send to the callback's reaction to what it returned, `ret`.    *)
(* Messages for the user and the printer's state reasons are left out.     *)
(***************************************************************************)
EXTENDS Naturals, Sequences

CONSTANTS
  Rows,           \* rows of a page
  RowsPerMessage, \* ROWS_PER_MESSAGE
  MaxPages,       \* bound on the pages of all jobs
  MaxStops,       \* bound on how often the bridge stops
  StopsInCallback \* the bridge may also stop under an event callback

ASSUME JobAssumption ==
  /\ Rows \in Nat \ {0} /\ RowsPerMessage \in Nat \ {0}
  /\ MaxPages \in Nat \ {0} /\ MaxStops \in Nat /\ StopsInCallback \in BOOLEAN

VARIABLES
  pc,        \* the callback the thread is in, or where PAPPL is
  doing,     \* the bridge call in progress
  ret,       \* what it returned
  calling,   \* its on_event callback runs
  page,      \* number of the last page started
  first,     \* the first page of this job
  y,         \* rows PAPPL wrote of this page
  held,      \* job.c: the rows in `buffer`
  pageOpen,  \* job.c: page_open
  abortSent, \* job.c: abort_sent
  failed,    \* job.c: failed
  canceled,  \* the user canceled the job
  errors,    \* errors-detected is among the job's reasons
  believed,  \* pages reported as printed
  fd,        \* bridge.c: fd >= 0
  alive,     \* the bridge serves this connection
  up, down,  \* messages on it
  pending,   \* session: the command that runs, if any
  flag,      \* session: _abort is set
  pageIn,    \* session: _page is not None
  got,       \* session: the rows in it
  printed,   \* pages the printer printed
  stops,     \* how often the bridge stopped
  trouble    \* bridge, printer or raster failed this job ("now"), or the bridge stopped
             \* before it began ("before"), or neither ("no")

thread == <<pc, doing, ret, calling>>
pj == <<held, pageOpen, abortSent, failed>>
pappl == <<page, first, y, canceled, errors, believed>>
socket == <<fd, alive, up, down>>
session == <<pending, flag, pageIn, got>>
faults == <<stops, trouble>>
vars == <<thread, pj, pappl, socket, session, printed, faults>>

EVENT == [event |-> TRUE]
ACK == [ack |-> TRUE]
Msg(k) == [cmd |-> k, rows |-> <<>>]
LinesMsg == [cmd |-> "lines", rows |-> held]
Whole(p) == [i \in 1 .. Rows |-> <<p, i>>]

Init ==
  /\ pc = "closed" /\ doing = "none" /\ ret = "none" /\ calling = FALSE
  /\ page = 0 /\ first = 1 /\ y = 0
  /\ held = <<>> /\ pageOpen = FALSE /\ abortSent = FALSE /\ failed = FALSE
  /\ canceled = FALSE /\ errors = FALSE /\ believed = {}
  /\ fd = FALSE /\ alive = FALSE /\ up = <<>> /\ down = <<>>
  /\ pending = <<>> /\ flag = FALSE /\ pageIn = FALSE /\ got = <<>>
  /\ printed = {} /\ stops = 0 /\ trouble = "no"
-----------------------------------------------------------------------------
(* bridge.c.                                                                *)

At(k) == doing = "none" /\ pc = k
Returned(k) == doing = k /\ ret # "none"
NoCall == doing' = "none" /\ ret' = "none" /\ UNCHANGED calling

\* phomemo_bridge_send: without a socket it fails, on a dead one the write
\* fails and drop_link forgets the socket.
Send(m) ==
  /\ up' = IF fd /\ alive THEN Append(up, m) ELSE up
  /\ fd' = (fd /\ alive)
  /\ UNCHANGED <<alive, down>>

\* phomemo_bridge_call: the reply is read only if the send went well.
Call(m) ==
  /\ Send(m)
  /\ doing' = m.cmd /\ ret' = (IF fd /\ alive THEN "none" ELSE "error")
  /\ UNCHANGED calling

\* open_bridge: a new connection, and the open request on it.  The bridge may
\* not run, or serve someone else.
Connects ==
  /\ doing' = "open" /\ ret' = "none" /\ UNCHANGED calling
  /\ fd' = TRUE /\ alive' = TRUE /\ up' = <<Msg("open")>> /\ down' = <<>>
  /\ pending' = <<>> /\ flag' = FALSE /\ pageIn' = FALSE /\ got' = <<>>

Refused ==
  /\ doing' = "open" /\ ret' = "error" /\ trouble' = "now"
  /\ UNCHANGED <<calling, socket, session>>

Dial == (Connects /\ UNCHANGED trouble) \/ Refused

\* phomemo_bridge_close.
CloseSocket == fd' = FALSE /\ alive' = FALSE /\ UNCHANGED <<up, down>>

\* phomemo_bridge_reply, up to its next blocking point.
Replying == doing # "none" /\ ret = "none" /\ ~calling
HasCallback == doing \in {"wait_ready", "page_end"}

ReadEvent ==
  /\ Replying /\ fd /\ down # <<>> /\ Head(down) = EVENT
  /\ down' = Tail(down) /\ calling' = HasCallback
  /\ UNCHANGED <<pc, doing, ret, pj, pappl, fd, alive, up, session, printed, faults>>

\* Bug for the mutant runs: the callback runs for events only.
Bug_NoTick == FALSE /\ UNCHANGED vars

\* poll timed out; it also does so for ever when fd is -1.
Tick ==
  /\ Replying /\ HasCallback
  /\ ~fd \/ (alive /\ down = <<>>)
  /\ calling' = TRUE
  /\ UNCHANGED <<pc, doing, ret, pj, pappl, socket, session, printed, faults>>

\* job_event_cb: abort_if_cancelled.
Callback ==
  /\ calling /\ calling' = FALSE
  /\ IF canceled /\ ~abortSent
     THEN abortSent' = TRUE /\ Send(Msg("abort"))
     ELSE UNCHANGED <<abortSent, socket>>
  /\ UNCHANGED <<pc, doing, ret, held, pageOpen, failed, pappl, session, printed, faults>>

\* Bug for the mutant runs: the acknowledgement passes for the reply.
Bug_SkipsNothing(m) == FALSE

\* `pending` is never "abort": every acknowledgement is skipped.
Skips(m) == m = ACK

ReadReply ==
  /\ Replying /\ fd /\ down # <<>> /\ Head(down) # EVENT
  /\ down' = Tail(down)
  /\ ret' = IF Skips(Head(down)) THEN "none"
            ELSE IF Head(down) = ACK THEN "ok" ELSE Head(down).result
  /\ UNCHANGED <<pc, doing, calling, pj, pappl, fd, alive, up, session, printed, faults>>

ReadEof ==
  /\ Replying /\ fd /\ down = <<>> /\ ~alive
  /\ ret' = "error" /\ fd' = FALSE
  /\ UNCHANGED <<pc, doing, calling, pj, pappl, alive, up, down, session, printed, faults>>

Reading == ReadEvent \/ Tick \/ Callback \/ ReadReply \/ ReadEof
-----------------------------------------------------------------------------
(* device.c: the device of a printer is open while there are jobs.          *)

Idle == UNCHANGED <<pj, pappl, printed, stops>>

OpenDevice ==
  /\ At("closed") /\ pc' = "opening" /\ Dial /\ Idle

DeviceOpened ==
  /\ pc = "opening" /\ Returned("open") /\ NoCall
  /\ IF ret = "ok" THEN pc' = "idle" /\ UNCHANGED socket
                   ELSE pc' = "closed" /\ CloseSocket
  /\ Idle /\ UNCHANGED <<session, trouble>>

CloseDevice ==
  /\ At("idle") /\ pc' = "closing" /\ Call(Msg("close"))
  /\ Idle /\ UNCHANGED <<session, trouble>>

DeviceClosed ==
  /\ Returned("close") /\ NoCall /\ pc' = "closed" /\ CloseSocket
  /\ Idle /\ UNCHANGED <<session, trouble>>
-----------------------------------------------------------------------------
(* job.c.                                                                   *)

\* A callback fails: the user is told unless the job was canceled, and PAPPL
\* ends the job.  After a page that failed it may also go on with the next one.
Tells(error) ==
  errors' = (errors \/ error) /\ UNCHANGED <<page, first, y, canceled, believed>>

EndsWith(error) == pc' = "ended" /\ Tells(error)
PageFails(error) == pc' \in {"ended", "between"} /\ Tells(error)

Keep == UNCHANGED <<session, printed, stops>>

\* rstartjob: a connection that died since is found out by the first page.
StartJob ==
  /\ At("idle") /\ page < MaxPages
  /\ first' = page + 1 /\ canceled' = FALSE /\ errors' = FALSE
  /\ UNCHANGED <<page, y, believed, pj, printed, stops>>
  /\ \/ fd /\ pc' = "between" /\ trouble' = (IF alive THEN "no" ELSE "before")
        /\ UNCHANGED <<doing, ret, calling, socket, session>>
     \/ ~fd /\ pc' = "start job" /\ ((Connects /\ trouble' = "no") \/ Refused)

JobStarted ==
  /\ pc = "start job" /\ Returned("open") /\ NoCall
  /\ IF ret = "ok" THEN pc' = "between" /\ UNCHANGED <<pappl, socket>>
                   ELSE EndsWith(TRUE) /\ CloseSocket
  /\ Keep /\ UNCHANGED <<pj, trouble>>

\* rstartpage: reset the page and wait for the printer.
ResetPage == held' = <<>> /\ pageOpen' = FALSE /\ abortSent' = FALSE /\ failed' = FALSE

StartPage ==
  /\ At("between") /\ page < MaxPages /\ ~canceled
  /\ page' = page + 1 /\ y' = 0 /\ pc' = "start page"
  /\ UNCHANGED <<first, canceled, errors, believed, printed, stops>>
  /\ \/ fd /\ ResetPage /\ Call(Msg("wait_ready")) /\ UNCHANGED <<session, trouble>>
     \/ ~fd /\ Dial /\ UNCHANGED pj

PageConnected ==
  /\ pc = "start page" /\ Returned("open")
  /\ \/ ret = "ok" /\ ResetPage /\ Call(Msg("wait_ready")) /\ UNCHANGED <<pc, pappl>>
     \/ ret # "ok" /\ NoCall /\ EndsWith(TRUE) /\ CloseSocket /\ UNCHANGED pj
  /\ Keep /\ UNCHANGED trouble

\* Bug for the mutant runs: the page is given up without a word.
Bug_QuietWait ==
  /\ Returned("wait_ready")
  /\ \/ ret = "ok" /\ Call(Msg("page_begin")) /\ UNCHANGED <<pc, pappl>>
     \/ ret # "ok" /\ NoCall /\ EndsWith(FALSE) /\ UNCHANGED socket
  /\ Keep /\ UNCHANGED <<pj, trouble>>

ReadyEnds ==
  /\ Returned("wait_ready")
  /\ \/ ret = "ok" /\ Call(Msg("page_begin")) /\ UNCHANGED <<pc, pappl>>
     \/ ret # "ok" /\ NoCall /\ EndsWith(~canceled) /\ UNCHANGED socket
  /\ Keep /\ UNCHANGED <<pj, trouble>>

BeginEnds ==
  /\ Returned("page_begin") /\ NoCall
  /\ IF ret = "ok" THEN pc' = "rows" /\ pageOpen' = TRUE /\ UNCHANGED pappl
                   ELSE EndsWith(TRUE) /\ UNCHANGED pageOpen
  /\ Keep /\ UNCHANGED <<held, abortSent, failed, socket, trouble>>

\* Bug for the mutant runs: the flush comes a row late.
Bug_FullLate(n) == n > RowsPerMessage

\* A buffer of n rows is full.
Full(n) == n = RowsPerMessage

\* rwriteline: rows of a page that failed or was canceled are dropped, a full
\* buffer is flushed.
WriteLine ==
  /\ At("rows") /\ y < Rows /\ y' = y + 1
  /\ held' = IF failed \/ canceled THEN held ELSE Append(held, <<page, y'>>)
  /\ IF held' # held /\ Full(Len(held'))
     THEN Call([cmd |-> "lines", rows |-> held'])
     ELSE UNCHANGED <<doing, ret, calling, socket>>
  /\ Keep /\ UNCHANGED <<pc, pageOpen, abortSent, failed, page, first, canceled,
                         errors, believed, trouble>>

\* flush_rows: the buffer is empty again, also after a failure.
LinesEnd ==
  /\ pc = "rows" /\ Returned("lines") /\ NoCall
  /\ held' = <<>> /\ failed' = (ret # "ok")
  /\ Keep /\ UNCHANGED <<pc, pageOpen, abortSent, pappl, socket, trouble>>

\* rendpage: PAPPL ends the page early when the job is canceled or its raster
\* has no more rows; the bridge refuses a page that is short of rows.
EndPage ==
  /\ At("rows") /\ pageOpen' = FALSE
  /\ trouble' = IF y < Rows /\ ~canceled THEN "now" ELSE trouble
  /\ \/ /\ canceled /\ pc' = "between"
        /\ UNCHANGED <<doing, ret, calling, socket, pappl>>
     \/ /\ ~canceled /\ failed /\ PageFails(TRUE)
        /\ UNCHANGED <<doing, ret, calling, socket>>
     \/ /\ ~canceled /\ ~failed /\ pc' = "end page"
        /\ Call(IF held # <<>> THEN LinesMsg ELSE Msg("page_end"))
        /\ UNCHANGED pappl
  /\ Keep /\ UNCHANGED <<held, abortSent, failed>>

FlushEnds ==
  /\ pc = "end page" /\ Returned("lines")
  /\ held' = <<>>
  /\ \/ ret = "ok" /\ Call(Msg("page_end")) /\ UNCHANGED <<pc, failed, pappl>>
     \/ ret # "ok" /\ NoCall /\ failed' = TRUE /\ PageFails(TRUE) /\ UNCHANGED socket
  /\ Keep /\ UNCHANGED <<pageOpen, abortSent, trouble>>

PageEnds ==
  /\ Returned("page_end") /\ NoCall
  /\ IF ret = "ok"
     THEN pc' = "between" /\ believed' = believed \cup {page}
          /\ UNCHANGED <<page, first, y, canceled, errors>>
     ELSE PageFails(ret # "cancelled")
  /\ Keep /\ UNCHANGED <<pj, socket, trouble>>

\* PAPPL has no more pages, or the job is canceled.
NoMorePages ==
  /\ At("between") /\ EndsWith(FALSE)
  /\ Keep /\ UNCHANGED <<doing, ret, calling, pj, socket, trouble>>

\* rendjob.
EndJob ==
  /\ At("ended") /\ pc' = "idle" /\ ResetPage
  /\ UNCHANGED <<doing, ret, calling, pappl, socket, session, printed, faults>>

Job == \/ StartJob \/ JobStarted \/ StartPage \/ PageConnected \/ ReadyEnds
       \/ BeginEnds \/ WriteLine \/ LinesEnd \/ EndPage \/ FlushEnds \/ PageEnds
       \/ NoMorePages \/ EndJob
-----------------------------------------------------------------------------
(* The session.                                                             *)

Others == UNCHANGED <<thread, pj, pappl, fd, alive>>
Runs(k) == alive /\ pending # <<>> /\ pending[1].cmd = k

TakeAbort ==
  /\ alive /\ up # <<>> /\ Head(up) = Msg("abort")
  /\ up' = Tail(up) /\ down' = Append(down, ACK) /\ flag' = TRUE
  /\ Others /\ UNCHANGED <<pending, pageIn, got, printed, faults>>

TakeCommand ==
  /\ alive /\ up # <<>> /\ Head(up) # Msg("abort")
  /\ up' = Tail(up)
  /\ IF pending = <<>>
     THEN pending' = <<Head(up)>> /\ flag' = FALSE /\ UNCHANGED down
     ELSE down' = Append(down, [cmd |-> Head(up).cmd, result |-> "error"])
          /\ UNCHANGED <<pending, flag>>
  /\ Others /\ UNCHANGED <<pageIn, got, printed, faults>>

\* A waiting or progress event; one at a time.
PushEvent ==
  /\ Runs("wait_ready") \/ Runs("page_end")
  /\ down = <<>> /\ down' = <<EVENT>>
  /\ Others /\ UNCHANGED <<up, session, printed, faults>>

Answer(r) ==
  /\ down' = Append(down, [cmd |-> pending[1].cmd, result |-> r])
  /\ pending' = <<>>
  /\ Others /\ UNCHANGED <<up, flag, stops>>

\* A sheet is seated, or the wait is aborted; printer errors end it too.
Waited ==
  /\ Runs("wait_ready")
  /\ \/ Answer("ok") /\ UNCHANGED trouble
     \/ flag /\ Answer("cancelled") /\ UNCHANGED trouble
     \/ Answer("error") /\ trouble' = "now"
  /\ UNCHANGED <<pageIn, got, printed>>

\* _cmd_page_begin: a page begun earlier is replaced, or stays when the new one
\* is refused (its size, bits, tone or density).
Begun ==
  /\ Runs("page_begin") /\ UNCHANGED printed
  /\ \/ Answer("ok") /\ pageIn' = TRUE /\ got' = <<>> /\ UNCHANGED trouble
     \/ Answer("error") /\ trouble' = "now" /\ UNCHANGED <<pageIn, got>>

\* _cmd_lines.
Collected ==
  /\ Runs("lines")
  /\ IF pageIn /\ Len(got) + Len(pending[1].rows) <= Rows
     THEN Answer("ok") /\ got' = got \o pending[1].rows
     ELSE Answer("error") /\ UNCHANGED got
  /\ UNCHANGED <<pageIn, printed, trouble>>

\* _cmd_page_end: an incomplete page is refused and stays, and so does a whole
\* one without a printer; any other end leaves no page.  An abort may come too
\* late.
Printed(r) ==
  \/ r = "ok" /\ printed' = printed \cup {got} /\ UNCHANGED trouble
  \/ r = "cancelled" /\ flag /\ UNCHANGED <<printed, trouble>>
  \/ r = "error" /\ trouble' = "now" /\ UNCHANGED printed

PageDone ==
  /\ Runs("page_end")
  /\ IF pageIn /\ Len(got) = Rows
     THEN \E r \in {"ok", "cancelled", "error"} :
            /\ Printed(r) /\ Answer(r)
            /\ \/ pageIn' = FALSE /\ got' = <<>>
               \/ r = "error" /\ UNCHANGED <<pageIn, got>>
     ELSE Answer("error") /\ UNCHANGED <<pageIn, got, printed, trouble>>

Acknowledged ==
  /\ Runs("open") \/ Runs("close")
  /\ Answer("ok") /\ UNCHANGED <<pageIn, got, printed, trouble>>

Session == \/ TakeAbort \/ TakeCommand \/ PushEvent \/ Waited \/ Begun
           \/ Collected \/ PageDone \/ Acknowledged
-----------------------------------------------------------------------------
(* The user and the service manager.                                        *)

InJob == pc \in {"start job", "between", "start page", "rows", "end page"}

Cancel ==
  /\ InJob /\ ~canceled
  /\ canceled' = TRUE
  /\ UNCHANGED <<thread, pj, page, first, y, errors, believed, socket, session,
                 printed, faults>>

\* The bridge stops; what it had sent can still be read.
UnderCallback == calling \/ (down # <<>> /\ Head(down) = EVENT)

BridgeStops ==
  /\ alive /\ stops < MaxStops
  /\ StopsInCallback \/ ~UnderCallback
  /\ alive' = FALSE /\ up' = <<>>
  /\ pending' = <<>> /\ flag' = FALSE /\ pageIn' = FALSE /\ got' = <<>>
  /\ stops' = stops + 1 /\ trouble' = "now"
  /\ UNCHANGED <<thread, pj, pappl, fd, down, printed>>
-----------------------------------------------------------------------------
Device == OpenDevice \/ DeviceOpened \/ CloseDevice \/ DeviceClosed

Next == Device \/ Job \/ Reading \/ Session \/ Cancel \/ BridgeStops

\* The thread runs on, and so does the bridge; but a sheet may never come.
Ends == Begun \/ Collected \/ Acknowledged \/ (flag /\ (Waited \/ PageDone))

Fairness == /\ WF_vars(Device \/ Job \/ Reading)
            /\ WF_vars(TakeAbort \/ TakeCommand)
            /\ WF_vars(Ends)

Spec == Init /\ [][Next]_vars /\ Fairness
-----------------------------------------------------------------------------
(* Properties.                                                              *)

Cmds == {"open", "wait_ready", "page_begin", "lines", "page_end", "close"}
Results == {"ok", "cancelled", "error"}
RowSeqs == Seq((1 .. MaxPages) \X (1 .. Rows))
Requests == [cmd : Cmds \cup {"abort"}, rows : RowSeqs]
Replies == [cmd : Cmds, result : Results]

\* Types; the buffer never holds more than one message of rows.  Replies stay
\* in step with calls, also when an abort crosses a reply: what a call takes for
\* its reply answers that very call.
TypeOK ==
  /\ pc \in {"closed", "opening", "closing", "idle", "start job", "between",
             "start page", "rows", "end page", "ended"}
  /\ doing \in Cmds \cup {"none"} /\ ret \in Results \cup {"none"}
  /\ calling \in BOOLEAN
  /\ page \in 0 .. MaxPages /\ first \in 1 .. MaxPages /\ y \in 0 .. Rows
  /\ held \in RowSeqs /\ Len(held) <= RowsPerMessage
  /\ {pageOpen, abortSent, failed, canceled, errors} \subseteq BOOLEAN
  /\ believed \subseteq 1 .. MaxPages
  /\ {fd, alive, flag, pageIn} \subseteq BOOLEAN
  /\ up \in Seq(Requests) /\ down \in Seq(Replies \cup {ACK, EVENT})
  /\ pending \in Seq(Requests) /\ Len(pending) <= 1
  /\ got \in RowSeqs /\ printed \subseteq RowSeqs /\ stops \in 0 .. MaxStops
  /\ trouble \in {"no", "before", "now"}
  /\ fd => \A i \in 1 .. Len(down) :
       down[i] \in Replies => ret = "none" /\ down[i].cmd = doing

\* The printer prints only pages with all their rows in order, none of them of
\* another page: no row is lost or sent twice where a message ends, and what a
\* canceled page left in the bridge never gets into the next one.  A page the
\* application reports as printed is one of them.
PagesWhole ==
  /\ \A r \in printed : \E p \in 1 .. page : r = Whole(p)
  /\ \A p \in believed : Whole(p) \in printed

\* A page is never lost in silence: when a job is over, each of its pages is
\* printed, or the job is marked with an error, or the user canceled it.  And it
\* is marked with an error only when the bridge or the printer failed it, or its
\* raster was short: neither a cancel, early or late, nor the order of its own
\* calls does.
LossIsReported ==
  /\ pc = "ended" => errors \/ canceled \/ first .. page \subseteq believed
  /\ errors => trouble # "no"

\* A restart of the bridge fails the job in progress; the jobs that begin later
\* reconnect and print (docs/troubleshooting.md).
QueuedJobsPrint == errors => trouble # "before"

\* A cancel ends the job, also one that waits for a sheet that never comes.
CancelEndsJob == canceled /\ InJob ~> ~InJob
=============================================================================
