------------------------- MODULE PrinterAppJob_proofs -------------------------
(***************************************************************************)
(* Proofs about PrinterAppJob, for every page length, message size, number *)
(* of pages and of stops of the bridge, under a callback or not: its types *)
(* and that replies keep in step with calls, that only whole pages are     *)
(* printed, and that no page is lost in silence.                           *)
(*                                                                         *)
(* IInv follows a command through the socket and back.  WireInv: between   *)
(* the two programs there is one command at most, or its reply, and it is  *)
(* that of the call in progress; events, acknowledgements and aborts are   *)
(* beside it.  CancelInv: an abort under way behind a command is of a job  *)
(* that the user canceled.  RowsInv: the page in the bridge holds the first *)
(* rows of this page and the buffer those that follow, with a moment where *)
(* the rows are in both, when a lines command is answered and flush_rows   *)
(* has not returned.  PrintedInv: an ok of page_end is true.  TroubleInv:  *)
(* a failure has a cause outside of the job.  ReportInv: what became of    *)
(* the pages before this one.  ServedInv and EventInv, at the end: a call  *)
(* has something to wait for.                                              *)
(***************************************************************************)
EXTENDS PrinterAppJob, SequenceTheorems, TLAPS

\* A call waits for its reply.
Waiting == doing # "none" /\ ret = "none"

\* Which calls each callback makes.
CallInv ==
  /\ doing = "none" => ret = "none"
  /\ calling => Waiting
  /\ pc \in {"closed", "idle", "between", "ended"} => doing = "none"
  /\ pc \in {"opening", "start job"} => doing = "open"
  /\ pc = "closing" => doing = "close"
  /\ pc = "start page" => doing \in {"open", "wait_ready", "page_begin"}
  /\ pc = "rows" => doing \in {"none", "lines"}
  /\ pc = "end page" => doing \in {"lines", "page_end"}

\* What a callback finds in the job's variables.
PageInv ==
  /\ pc \in {"start page", "rows", "end page"} => page > 0
  /\ pc = "start page" => y = 0
  /\ doing \in {"wait_ready", "page_begin"} => held = <<>>
  /\ doing \in {"wait_ready", "page_begin", "lines", "page_end"} => ~failed
  /\ pc \in {"closed", "opening", "closing", "idle"} => ~failed
  /\ pc = "rows" /\ doing = "none" => Len(held) < RowsPerMessage

\* The commands on their way to the session, and the replies on their way back.
Sent == {i \in 1 .. Len(up) : up[i].cmd # "abort"}
Answers == {i \in 1 .. Len(down) : down[i] \notin {ACK, EVENT}}

Carries(m) == m.cmd = doing /\ (doing = "lines" => m.rows = held)

\* There is one command at most, or its reply, and it is the call's.
WireInv ==
  /\ alive => fd
  /\ fd => /\ ~alive => up = <<>> /\ pending = <<>>
           /\ pending # <<>> => /\ Waiting /\ Carries(pending[1])
                                /\ Sent = {} /\ Answers = {}
           /\ \A i \in Sent : /\ Waiting /\ Carries(up[i])
                              /\ Sent = {i} /\ Answers = {}
           /\ \A i \in Answers : /\ Waiting /\ down[i].cmd = doing
                                 /\ Answers = {i}

\* What is answered cancelled was canceled in this job: an abort behind the
\* command or beside it is of this job.
CancelInv ==
  /\ ret = "cancelled" => canceled /\ HasCallback
  /\ fd => /\ pending # <<>> /\ (flag \/ up # <<>>) => canceled
           /\ \A i \in Sent : i < Len(up) => canceled
           /\ \A i \in Answers :
                down[i].result = "cancelled" => canceled /\ HasCallback

\* The reply is out.
Answered == ret # "none" \/ Answers # {}

\* The reply is ok.
Accepted == ret = "ok" \/ \E i \in Answers : down[i].result = "ok"

\* The bridge's page holds the first rows of this page, and the buffer those
\* after them, until a lines command has been answered.
Starts == \A i \in 1 .. Len(got) : got[i] = <<page, i>>
Follows(n) == \A i \in 1 .. Len(held) : held[i] = <<page, n + i>>

InRows == (pc = "rows" /\ ~failed) \/ (pc = "end page" /\ doing = "lines")

RowsInv ==
  fd /\ alive =>
    /\ doing = "page_begin" /\ Accepted => pageIn /\ got = <<>>
    /\ InRows =>
         /\ pageIn /\ Starts
         /\ doing = "lines" /\ Answered =>
              Len(got) <= y /\ (pc = "end page" \/ ~canceled => Len(got) = y)
         /\ ~(doing = "lines" /\ Answered) =>
              /\ Follows(Len(got)) /\ Len(got) + Len(held) <= y
              /\ pc = "end page" \/ ~canceled => Len(got) + Len(held) = y
    /\ doing = "page_end" /\ ~Answered => pageIn /\ Starts /\ Len(got) = y

\* What page_end answers is true.
PrintedInv ==
  doing = "page_end" =>
    /\ ret = "ok" => Whole(page) \in printed
    /\ fd => \A i \in Answers : down[i].result = "ok" => Whole(page) \in printed

\* An error, a lost connection and a page that failed have their cause in the
\* bridge, the printer or the raster.
LinkTrouble ==
  /\ fd /\ ~alive => trouble # "no"
  /\ InJob /\ ~(fd /\ alive) => trouble # "no"
  /\ InJob /\ ret = "error" => trouble # "no"
  /\ InJob /\ fd => \A i \in Answers : down[i].result = "error" => trouble # "no"

TroubleInv == LinkTrouble /\ (failed \/ errors => trouble # "no")

\* A page that ends without a cancel has all its rows, or its raster was short.
ShortInv == pc = "end page" => y = Rows \/ trouble # "no"

\* What became of the job's pages, before the page that is under way or after.
ReportInv ==
  /\ pc = "start job" => first = page + 1
  /\ pc \in {"start page", "rows", "end page"} =>
       errors \/ canceled \/ first .. page - 1 \subseteq believed
  /\ pc \in {"between", "ended"} => errors \/ canceled \/ first .. page \subseteq believed

\* The types of TypeOK, in parts.
Words ==
  /\ pc \in {"closed", "opening", "closing", "idle", "start job", "between",
             "start page", "rows", "end page", "ended"}
  /\ doing \in Cmds \cup {"none"} /\ ret \in Results \cup {"none"}
  /\ trouble \in {"no", "before", "now"}

Flags ==
  /\ calling \in BOOLEAN
  /\ pageOpen \in BOOLEAN /\ abortSent \in BOOLEAN /\ failed \in BOOLEAN
  /\ canceled \in BOOLEAN /\ errors \in BOOLEAN
  /\ fd \in BOOLEAN /\ alive \in BOOLEAN /\ flag \in BOOLEAN /\ pageIn \in BOOLEAN

Numbers ==
  /\ page \in 0 .. MaxPages /\ first \in 1 .. MaxPages /\ y \in 0 .. Rows
  /\ believed \subseteq 1 .. MaxPages
  /\ stops \in 0 .. MaxStops

Buffer == held \in RowSeqs /\ Len(held) <= RowsPerMessage

\* Commands go up, among aborts, and one may run.
Commands == [cmd : Cmds, rows : RowSeqs]

Queues == /\ up \in Seq(Commands \cup {Msg("abort")})
          /\ down \in Seq(Replies \cup {ACK, EVENT})
          /\ pending = <<>> \/ \E m \in Commands : pending = <<m>>

Pages == got \in RowSeqs /\ printed \subseteq RowSeqs

Lists == Buffer /\ Queues /\ Pages

Basics == Words /\ Flags /\ Numbers /\ Lists /\ CallInv /\ PageInv

-----------------------------------------------------------------------------
(* Types, calls, and what a callback finds.                                 *)

\* Commands, aborts, replies, acknowledgements and events are told apart.
LEMMA Kinds ==
  /\ ACK # EVENT /\ ACK \notin Replies /\ EVENT \notin Replies
  /\ \A k \in Cmds : Msg(k) \in Commands
  /\ \A k : Msg(k).cmd = k
  /\ \A r \in RowSeqs : [cmd |-> "lines", rows |-> r] \in Commands
  /\ \A m \in Commands : m # Msg("abort") /\ m.cmd \in Cmds /\ m.cmd # "abort"
<1>1. <<>> \in RowSeqs
  BY DEF RowSeqs
<1> QED
  BY <1>1 DEF ACK, EVENT, Replies, Msg, Commands, Cmds

LEMMA InitInv == Init => Words /\ Flags /\ Numbers /\ Lists /\ CallInv /\ PageInv
<1> SUFFICES ASSUME Init PROVE Words /\ Flags /\ Numbers /\ Lists /\ CallInv /\ PageInv
  OBVIOUS
<1>1. Words /\ Flags
  BY DEF Init, Words, Flags, Cmds, Results
<1>2. Numbers
  BY JobAssumption DEF Init, Numbers
<1>3. Lists
  BY JobAssumption DEF Init, Lists, Buffer, Queues, Pages, RowSeqs
<1>4. CallInv /\ PageInv
  BY DEF Init, CallInv, PageInv
<1> QED
  BY <1>1, <1>2, <1>3, <1>4

\* The session leaves the job's variables alone.
LEMMA SessionFrame ==
  Session => /\ UNCHANGED <<pc, doing, ret, calling, held, pageOpen, abortSent, failed>>
             /\ UNCHANGED <<page, first, y, canceled, errors, believed, fd, alive, stops>>
BY DEF Session, TakeAbort, TakeCommand, PushEvent, Waited, Begun, Collected, PageDone,
   Acknowledged, Others, Answer, thread, pj, pappl, session, faults

\* The parts make up TypeOK.
LEMMA TypesAre ==
  ASSUME Words, Flags, Numbers, Lists,
         fd => \A i \in 1 .. Len(down) :
           down[i] \in Replies => ret = "none" /\ down[i].cmd = doing
  PROVE  TypeOK
<1>1. Commands \cup {Msg("abort")} \subseteq Requests
  <2>1. <<>> \in RowSeqs
    BY DEF RowSeqs
  <2> QED
    BY <2>1 DEF Commands, Msg, Requests
<1>2. up \in Seq(Requests)
  BY <1>1 DEF Lists, Queues
<1>3. pending \in Seq(Requests) /\ Len(pending) <= 1
  <2>1. CASE pending = <<>>
    BY <2>1
  <2>2. ASSUME NEW m \in Commands, pending = <<m>> PROVE pending \in Seq(Requests) /\ Len(pending) <= 1
    BY <1>1, <2>2
  <2> QED
    BY <2>1, <2>2 DEF Lists, Queues
<1> QED
  BY <1>2, <1>3 DEF TypeOK, Words, Flags, Numbers, Lists, Buffer, Queues, Pages

\* The head of a queue, and its tail.
LEMMA Heads ==
  ASSUME NEW S, NEW s \in Seq(S), s # <<>>
  PROVE  /\ Head(s) = s[1] /\ Head(s) \in S /\ Len(s) \in Nat \ {0}
         /\ Tail(s) \in Seq(S) /\ Len(Tail(s)) = Len(s) - 1
         /\ \A i \in 1 .. Len(s) - 1 : Tail(s)[i] = s[i + 1]
BY HeadTailProperties, EmptySeq

\* What is under way to the job, and what to the session.
LEMMA EventOrReply ==
  ASSUME Queues, down # <<>>
  PROVE  Head(down) \in Replies \cup {ACK, EVENT}
BY Heads DEF Queues

LEMMA WordsStep ==
  ASSUME Words, Queues, CallInv, [Next]_vars
  PROVE  Words'
<1> USE DEF Words
<1>1. CASE Device
  <2>1. CASE OpenDevice \/ DeviceOpened
    BY <2>1 DEF OpenDevice, DeviceOpened, Dial, Connects, Refused, Returned, NoCall, At,
       Idle, CloseSocket, socket, session, pj, pappl, Cmds, Results
  <2>2. CASE CloseDevice \/ DeviceClosed
    BY <2>2 DEF CloseDevice, DeviceClosed, Call, Send, Msg, Returned, NoCall, At,
       Idle, CloseSocket, socket, session, pj, pappl, Cmds, Results
  <2> QED
    BY <1>1, <2>1, <2>2 DEF Device
<1>2. CASE Job
  <2>1. CASE StartJob \/ JobStarted
    BY <2>1, JobAssumption DEF StartJob, JobStarted, Connects, Refused, Returned, NoCall, At, EndsWith,
       Tells, Keep, CloseSocket, socket, session, pj, pappl, Cmds, Results
  <2>2. CASE StartPage
    BY <2>2, JobAssumption DEF StartPage, Dial, Connects, Refused, ResetPage, Call, Send, Msg, At,
       socket, session, pj, Cmds, Results
  <2>3. CASE PageConnected \/ ReadyEnds
    BY <2>3 DEF PageConnected, ReadyEnds, ResetPage, Call, Send, Msg, Returned, NoCall,
       EndsWith, Tells, Keep, CloseSocket, socket, session, pj, pappl, Cmds, Results
  <2>4. CASE BeginEnds \/ LinesEnd
    BY <2>4 DEF BeginEnds, LinesEnd, Returned, NoCall, EndsWith, Tells, Keep, socket,
       session, pappl, Cmds, Results
  <2>5. CASE WriteLine
    BY <2>5, JobAssumption DEF WriteLine, Call, Send, At, Keep, socket, session, Cmds, Results
  <2>6. CASE EndPage
    BY <2>6 DEF EndPage, Call, Send, Msg, LinesMsg, At, Keep, PageFails, Tells, socket,
       session, pappl, Cmds, Results
  <2>7. CASE FlushEnds
    BY <2>7 DEF FlushEnds, Call, Send, Msg, Returned, NoCall, Keep, PageFails, Tells, socket,
       session, pappl, Cmds, Results
  <2>8. CASE PageEnds
    BY <2>8 DEF PageEnds, Returned, NoCall, Keep, PageFails, Tells, socket, session, pj,
       Cmds, Results
  <2>9. CASE NoMorePages \/ EndJob
    BY <2>9 DEF NoMorePages, EndJob, At, EndsWith, Tells, ResetPage, Keep, socket, session,
       pj, pappl, faults
  <2> QED
    BY <1>2, <2>1, <2>2, <2>3, <2>4, <2>5, <2>6, <2>7, <2>8, <2>9 DEF Job
<1>3. CASE Reading
  <2>1. CASE ReadEvent \/ Tick \/ Callback \/ ReadEof
    BY <2>1 DEF ReadEvent, Tick, Callback, ReadEof, Send, Replying, HasCallback, pj, pappl, session,
       socket, faults, Results
  <2>2. CASE ReadReply
    <3>1. Head(down) \in Replies \cup {ACK}
      BY <2>2, EventOrReply DEF ReadReply
    <3>2. ret' \in Results \cup {"none"}
      BY <2>2, <3>1 DEF ReadReply, Skips, Replies, Results
    <3> QED
      BY <2>2, <3>2 DEF ReadReply, pj, pappl, session, faults
  <2> QED
    BY <1>3, <2>1, <2>2 DEF Reading
<1>4. CASE Session
  <2>1. trouble' \in {"no", "before", "now"}
    BY <1>4 DEF Session, TakeAbort, TakeCommand, PushEvent, Waited, Begun, Collected,
       PageDone, Printed, Acknowledged, Others, Answer, session, faults
  <2> QED
    BY <1>4, <2>1, SessionFrame
<1>5. CASE Cancel \/ BridgeStops
  BY <1>5, JobAssumption DEF Cancel, BridgeStops, thread, pj, pappl, socket, session, faults
<1>6. CASE UNCHANGED vars
  BY <1>6 DEF vars, thread, pj, pappl, socket, session, faults
<1> QED
  BY <1>1, <1>2, <1>3, <1>4, <1>5, <1>6 DEF Next

LEMMA FlagsStep ==
  ASSUME Flags, [Next]_vars
  PROVE  Flags'
<1> USE DEF Flags
<1>1. CASE Device
  <2>1. CASE OpenDevice \/ DeviceOpened
    BY <2>1 DEF OpenDevice, DeviceOpened, Dial, Connects, Refused, Returned, NoCall, At,
       Idle, CloseSocket, socket, session, pj, pappl, Cmds, Results
  <2>2. CASE CloseDevice \/ DeviceClosed
    BY <2>2 DEF CloseDevice, DeviceClosed, Call, Send, Msg, Returned, NoCall, At,
       Idle, CloseSocket, socket, session, pj, pappl, Cmds, Results
  <2> QED
    BY <1>1, <2>1, <2>2 DEF Device
<1>2. CASE Job
  <2>1. CASE StartJob \/ JobStarted
    BY <2>1, JobAssumption DEF StartJob, JobStarted, Connects, Refused, Returned, NoCall, At, EndsWith,
       Tells, Keep, CloseSocket, socket, session, pj, pappl, Cmds, Results
  <2>2. CASE StartPage
    BY <2>2, JobAssumption DEF StartPage, Dial, Connects, Refused, ResetPage, Call, Send, Msg, At,
       socket, session, pj, Cmds, Results
  <2>3. CASE PageConnected \/ ReadyEnds
    BY <2>3 DEF PageConnected, ReadyEnds, ResetPage, Call, Send, Msg, Returned, NoCall,
       EndsWith, Tells, Keep, CloseSocket, socket, session, pj, pappl, Cmds, Results
  <2>4. CASE BeginEnds \/ LinesEnd
    BY <2>4 DEF BeginEnds, LinesEnd, Returned, NoCall, EndsWith, Tells, Keep, socket,
       session, pappl, Cmds, Results
  <2>5. CASE WriteLine
    BY <2>5, JobAssumption DEF WriteLine, Call, Send, At, Keep, socket, session, Cmds, Results
  <2>6. CASE EndPage
    BY <2>6 DEF EndPage, Call, Send, Msg, LinesMsg, At, Keep, PageFails, Tells, socket,
       session, pappl, Cmds, Results
  <2>7. CASE FlushEnds
    BY <2>7 DEF FlushEnds, Call, Send, Msg, Returned, NoCall, Keep, PageFails, Tells, socket,
       session, pappl, Cmds, Results
  <2>8. CASE PageEnds
    BY <2>8 DEF PageEnds, Returned, NoCall, Keep, PageFails, Tells, socket, session, pj,
       Cmds, Results
  <2>9. CASE NoMorePages \/ EndJob
    BY <2>9 DEF NoMorePages, EndJob, At, EndsWith, Tells, ResetPage, Keep, socket, session,
       pj, pappl, faults
  <2> QED
    BY <1>2, <2>1, <2>2, <2>3, <2>4, <2>5, <2>6, <2>7, <2>8, <2>9 DEF Job
<1>3. CASE Reading
  <2>1. CASE ReadEvent
    <3>1. HasCallback \in BOOLEAN
      BY DEF HasCallback
    <3> QED
      BY <2>1, <3>1 DEF ReadEvent, pj, pappl, session
  <2>4. CASE Tick \/ ReadEof
    BY <2>4 DEF Tick, ReadEof, pj, pappl, session, socket
  <2>2. CASE ReadReply
    BY <2>2 DEF ReadReply, pj, pappl, session
  <2>3. CASE Callback
    <3>1. abortSent' \in BOOLEAN /\ fd' \in BOOLEAN /\ alive' = alive
      BY <2>3 DEF Callback, Send, socket
    <3> QED
      BY <2>3, <3>1 DEF Callback, pappl, session
  <2> QED
    BY <1>3, <2>1, <2>2, <2>3, <2>4 DEF Reading
<1>4. CASE Session
  <2>1. flag' \in BOOLEAN /\ pageIn' \in BOOLEAN
    BY <1>4 DEF Session, TakeAbort, TakeCommand, PushEvent, Waited, Begun, Collected,
       PageDone, Printed, Acknowledged, Others, Answer, session, faults
  <2> QED
    BY <1>4, <2>1, SessionFrame
<1>5. CASE Cancel \/ BridgeStops
  BY <1>5, JobAssumption DEF Cancel, BridgeStops, thread, pj, pappl, socket, session, faults
<1>6. CASE UNCHANGED vars
  BY <1>6 DEF vars, thread, pj, pappl, socket, session, faults
<1> QED
  BY <1>1, <1>2, <1>3, <1>4, <1>5, <1>6 DEF Next

\* Where a call is made.
LEMMA Places ==
  ASSUME Words, CallInv
  PROVE  /\ doing \in {"wait_ready", "page_begin"} => pc = "start page"
         /\ doing = "lines" => pc \in {"rows", "end page"}
         /\ doing = "page_end" => pc = "end page"
         /\ doing = "close" => pc = "closing"
BY DEF Words, CallInv

LEMMA NumbersStep ==
  ASSUME Numbers, PageInv, Words, CallInv, [Next]_vars
  PROVE  Numbers'
<1> USE DEF Numbers
<1>1. CASE Device
  BY <1>1 DEF Device, OpenDevice, DeviceOpened, CloseDevice, DeviceClosed, Idle, pappl
<1>2. CASE Job
  <2>1. CASE StartJob
    <3>1. page < MaxPages /\ first' = page + 1 /\ UNCHANGED <<page, y, believed, stops>>
      BY <2>1 DEF StartJob
    <3> QED
      BY <3>1, JobAssumption
  <2>2. CASE StartPage
    <3>1. page < MaxPages /\ page' = page + 1 /\ y' = 0 /\ UNCHANGED <<first, believed, stops>>
      BY <2>2 DEF StartPage
    <3> QED
      BY <3>1, JobAssumption
  <2>3. CASE WriteLine
    BY <2>3, JobAssumption DEF WriteLine, Keep
  <2>4. CASE PageEnds
    <3>1. page \in 1 .. MaxPages
      <4>1. doing = "page_end"
        BY <2>4 DEF PageEnds, Returned
      <4>2. pc = "end page"
        BY <4>1, Places
      <4>3. page > 0
        BY <4>2 DEF PageInv
      <4> QED
        BY <4>3
    <3> QED
      BY <2>4, <3>1 DEF PageEnds, PageFails, Tells, Keep
  <2>5. CASE JobStarted \/ PageConnected \/ ReadyEnds \/ BeginEnds \/ LinesEnd
    BY <2>5 DEF JobStarted, PageConnected, ReadyEnds, BeginEnds, LinesEnd, EndsWith, Tells, Keep, pappl
  <2>6. CASE EndPage \/ FlushEnds \/ NoMorePages \/ EndJob
    BY <2>6 DEF EndPage, FlushEnds, NoMorePages, EndJob, PageFails, EndsWith, Tells, Keep, pappl, faults
  <2> QED
    BY <1>2, <2>1, <2>2, <2>3, <2>4, <2>5, <2>6 DEF Job
<1>3. CASE Reading
  BY <1>3 DEF Reading, ReadEvent, Tick, Callback, ReadReply, ReadEof, pappl, faults
<1>4. CASE Session
  BY <1>4, SessionFrame
<1>5. CASE Cancel
  BY <1>5 DEF Cancel, faults
<1>6. CASE BridgeStops
  BY <1>6, JobAssumption DEF BridgeStops, pappl
<1>7. CASE UNCHANGED vars
  BY <1>7 DEF vars, pappl, faults
<1> QED
  BY <1>1, <1>2, <1>3, <1>4, <1>5, <1>6, <1>7 DEF Next

\* Every callback makes its calls in turn.
LEMMA CallStep ==
  ASSUME Words, Flags, Flags', CallInv, [Next]_vars
  PROVE  CallInv'
<1> USE DEF CallInv, Waiting, Flags
<1>1. CASE Device
  BY <1>1 DEF Device, OpenDevice, DeviceOpened, CloseDevice, DeviceClosed, Dial, Connects,
     Refused, Call, Msg, Returned, NoCall, At
<1>2. CASE Job
  <2>1. CASE StartJob \/ JobStarted \/ NoMorePages \/ EndJob
    BY <2>1 DEF StartJob, JobStarted, NoMorePages, EndJob, Connects, Refused, Returned, NoCall, At, EndsWith
  <2>2. CASE StartPage \/ PageConnected
    BY <2>2 DEF StartPage, PageConnected, Dial, Connects, Refused, Call, Msg, Returned, NoCall, At,
       EndsWith
  <2>3. CASE ReadyEnds \/ BeginEnds
    BY <2>3 DEF ReadyEnds, BeginEnds, Call, Msg, Returned, NoCall, EndsWith, Words
  <2>4. CASE WriteLine \/ LinesEnd
    BY <2>4 DEF WriteLine, LinesEnd, Call, Returned, NoCall, At
  <2>5. CASE EndPage \/ FlushEnds
    BY <2>5 DEF EndPage, FlushEnds, PageFails, Call, Msg, LinesMsg, Returned, NoCall, At
  <2>6. CASE PageEnds
    BY <2>6 DEF PageEnds, PageFails, Returned, NoCall
  <2> QED
    BY <1>2, <2>1, <2>2, <2>3, <2>4, <2>5, <2>6 DEF Job
<1>3. CASE Reading
  BY <1>3 DEF Reading, ReadEvent, Tick, Callback, ReadReply, ReadEof, Replying
<1>4. CASE Session
  BY <1>4, SessionFrame
<1>5. CASE Cancel \/ BridgeStops \/ UNCHANGED vars
  BY <1>5 DEF Cancel, BridgeStops, vars, thread
<1> QED
  BY <1>1, <1>2, <1>3, <1>4, <1>5 DEF Next

\* What is sent is a command or an abort.
LEMMA SendQueues ==
  ASSUME Queues, NEW m \in Commands \cup {Msg("abort")}, Send(m), pending' = pending
  PROVE  Queues'
BY AppendProperties DEF Queues, Send

\* A new connection starts with an open request.
LEMMA DialQueues ==
  ASSUME Queues, Connects \/ Refused
  PROVE  Queues'
<1>1. Msg("open") \in Commands
  BY Kinds DEF Cmds
<1>2. CASE Connects
  <2>1. <<Msg("open")>> \in Seq(Commands \cup {Msg("abort")})
    BY <1>1
  <2> QED
    BY <1>2, <2>1 DEF Connects, Queues
<1> QED
  BY <1>2 DEF Refused, Queues, socket, session

LEMMA QueuesStep ==
  ASSUME Queues, Buffer, Words, Buffer', [Next]_vars
  PROVE  Queues'
<1> USE Kinds
<1>1. CASE Device
  <2>1. CASE OpenDevice \/ DeviceOpened \/ DeviceClosed
    BY <2>1, DialQueues DEF OpenDevice, DeviceOpened, DeviceClosed, Dial, CloseSocket, socket, session, Queues
  <2>2. CASE CloseDevice
    BY <2>2, SendQueues DEF CloseDevice, Call, session, Cmds
  <2> QED
    BY <1>1, <2>1, <2>2 DEF Device
<1>2. CASE Job
  <2>1. CASE StartJob
    BY <2>1, DialQueues DEF StartJob, socket, session, Queues
  <2>2. CASE JobStarted \/ BeginEnds \/ LinesEnd \/ PageEnds \/ NoMorePages \/ EndJob
    BY <2>2 DEF JobStarted, BeginEnds, LinesEnd, PageEnds, NoMorePages, EndJob, CloseSocket, socket, session, Queues, Keep
  <2>3. CASE StartPage
    <3>1. CASE Call(Msg("wait_ready")) /\ UNCHANGED session
      BY <3>1, SendQueues DEF Call, session, Cmds
    <3>2. CASE Dial
      BY <3>2, DialQueues DEF Dial
    <3> QED
      BY <2>3, <3>1, <3>2 DEF StartPage
  <2>4. CASE PageConnected
    BY <2>4, SendQueues DEF PageConnected, Call, CloseSocket, Keep, session, Queues, Cmds
  <2>5. CASE ReadyEnds
    BY <2>5, SendQueues DEF ReadyEnds, Call, Keep, socket, session, Queues, Cmds
  <2>6. CASE WriteLine
    <3>1. [cmd |-> "lines", rows |-> held'] \in Commands
      BY DEF Buffer
    <3> QED
      BY <2>6, <3>1, SendQueues DEF WriteLine, Call, Keep, socket, session, Queues
  <2>7. CASE EndPage
    <3>1. LinesMsg \in Commands /\ Msg("page_end") \in Commands
      BY DEF LinesMsg, Buffer, Cmds
    <3> QED
      BY <2>7, <3>1, SendQueues DEF EndPage, Call, Keep, socket, session, Queues
  <2>8. CASE FlushEnds
    BY <2>8, SendQueues DEF FlushEnds, Call, Keep, socket, session, Queues, Cmds
  <2> QED
    BY <1>2, <2>1, <2>2, <2>3, <2>4, <2>5, <2>6, <2>7, <2>8 DEF Job
<1>3. CASE Reading
  <2>1. CASE ReadEvent \/ ReadReply
    BY <2>1, Heads DEF ReadEvent, ReadReply, session, Queues
  <2>2. CASE Tick \/ ReadEof
    BY <2>2 DEF Tick, ReadEof, session, socket, Queues
  <2>3. CASE Callback
    BY <2>3, SendQueues DEF Callback, session, socket, Queues
  <2> QED
    BY <1>3, <2>1, <2>2, <2>3 DEF Reading
<1>4. CASE Session
  <2>1. CASE TakeAbort
    BY <2>1, Heads, AppendProperties DEF TakeAbort, Queues
  <2>2. CASE TakeCommand
    <3>1. /\ up # <<>> /\ Head(up) \in Commands /\ up' = Tail(up)
          /\ Tail(up) \in Seq(Commands \cup {Msg("abort")})
      BY <2>2, Heads DEF TakeCommand, Queues
    <3>2. [cmd |-> Head(up).cmd, result |-> "error"] \in Replies
      BY <3>1 DEF Replies, Results
    <3>3. \/ pending' = <<Head(up)>> /\ down' = down
          \/ pending' = pending /\ down' = Append(down, [cmd |-> Head(up).cmd, result |-> "error"])
      BY <2>2 DEF TakeCommand
    <3>4. down' \in Seq(Replies \cup {ACK, EVENT})
      BY <3>2, <3>3, AppendProperties DEF Queues
    <3> QED
      BY <3>1, <3>3, <3>4 DEF Queues
  <2>3. CASE PushEvent
    BY <2>3 DEF PushEvent, session, Queues
  <2>4. ASSUME NEW r \in Results, Answer(r), alive, pending # <<>>, pending[1].cmd \in Cmds
        PROVE  Queues'
    <3>1. [cmd |-> pending[1].cmd, result |-> r] \in Replies
      BY <2>4 DEF Replies
    <3> QED
      BY <2>4, <3>1, AppendProperties DEF Answer, Queues
  <2>5. CASE Waited \/ Begun \/ Acknowledged
    BY <2>5, <2>4 DEF Waited, Begun, Acknowledged, Runs, Cmds, Results
  <2>6. CASE Collected \/ PageDone
    BY <2>6, <2>4 DEF Collected, PageDone, Printed, Runs, Cmds, Results
  <2> QED
    BY <1>4, <2>1, <2>2, <2>3, <2>5, <2>6 DEF Session
<1>5. CASE Cancel \/ UNCHANGED vars
  BY <1>5 DEF Cancel, vars, socket, session, Queues
<1>6. CASE BridgeStops
  BY <1>6 DEF BridgeStops, Queues
<1> QED
  BY <1>1, <1>2, <1>3, <1>4, <1>5, <1>6 DEF Next

\* A buffer that is not flushed has room for a row.
LEMMA Fills ==
  ASSUME Numbers, Buffer, PageInv, WriteLine
  PROVE  /\ y' = y + 1 /\ page' = page
         /\ \/ held' = held /\ (failed \/ canceled)
            \/ /\ ~failed /\ ~canceled /\ held' \in RowSeqs
               /\ Len(held') = Len(held) + 1
               /\ \A i \in 1 .. Len(held) : held'[i] = held[i]
               /\ held'[Len(held) + 1] = <<page, y + 1>>
<1>1. <<page, y + 1>> \in (1 .. MaxPages) \X (1 .. Rows)
  BY JobAssumption DEF WriteLine, Numbers, PageInv, At
<1>2. y' = y + 1 /\ page' = page
      /\ held' = IF failed \/ canceled THEN held ELSE Append(held, <<page, y + 1>>)
  BY DEF WriteLine
<1> QED
  BY <1>1, <1>2, AppendProperties DEF Buffer, RowSeqs

\* No rows.
LEMMA EmptyRows == <<>> \in RowSeqs /\ Len(<<>>) = 0
BY DEF RowSeqs

LEMMA BufferStep ==
  ASSUME Buffer, Numbers, PageInv, [Next]_vars
  PROVE  Buffer'
<1> USE DEF Buffer
<1>1. CASE held' = held
  BY <1>1
<1>2. CASE held' = <<>>
  BY <1>2, EmptyRows, JobAssumption
<1>3. CASE WriteLine
  <2>1. Len(held') <= RowsPerMessage
    <3>1. pc = "rows" /\ doing = "none"
      BY <1>3 DEF WriteLine, At
    <3>2. Len(held) < RowsPerMessage /\ Len(held) \in Nat
      BY <3>1 DEF PageInv, RowSeqs
    <3> QED
      BY <1>3, <3>2, Fills, JobAssumption
  <2> QED
    BY <1>3, <2>1, Fills
<1>4. CASE Device
  BY <1>1, <1>4 DEF Device, OpenDevice, DeviceOpened, CloseDevice, DeviceClosed, Idle, pj
<1>5. CASE Job
  <2>1. CASE StartJob \/ JobStarted \/ StartPage \/ PageConnected \/ ReadyEnds \/ BeginEnds
    BY <1>1, <1>2, <2>1 DEF StartJob, JobStarted, StartPage, PageConnected, ReadyEnds, BeginEnds, ResetPage, pj
  <2>2. CASE LinesEnd \/ EndPage \/ FlushEnds \/ PageEnds \/ NoMorePages \/ EndJob
    BY <1>1, <1>2, <2>2 DEF LinesEnd, EndPage, FlushEnds, PageEnds, NoMorePages, EndJob, ResetPage, pj
  <2> QED
    BY <1>3, <1>5, <2>1, <2>2 DEF Job
<1>6. CASE Reading
  BY <1>1, <1>6 DEF Reading, ReadEvent, Tick, Callback, ReadReply, ReadEof, pj
<1>7. CASE Session
  BY <1>1, <1>7, SessionFrame
<1>8. CASE Cancel \/ BridgeStops \/ UNCHANGED vars
  BY <1>1, <1>8 DEF Cancel, BridgeStops, vars, pj
<1> QED
  BY <1>4, <1>5, <1>6, <1>7, <1>8 DEF Next

\* The session's page changes by the session, a new connection and a stop.
\* Only the session touches its page.
LEMMA GotFrame ==
  ASSUME [Next]_vars
  PROVE  \/ Session
         \/ printed' = printed /\ (UNCHANGED <<got, pageIn>> \/ got' = <<>>)
<1> USE DEF session, faults
<1>1. CASE Device
  BY <1>1 DEF Device, OpenDevice, DeviceOpened, CloseDevice, DeviceClosed, Idle, Dial, Connects, Refused
<1>2. CASE Job
  <2>1. CASE StartJob \/ JobStarted \/ StartPage \/ PageConnected \/ ReadyEnds \/ BeginEnds
    BY <2>1 DEF StartJob, JobStarted, StartPage, PageConnected, ReadyEnds, BeginEnds, Dial, Connects, Refused, Keep
  <2>2. CASE WriteLine \/ LinesEnd \/ EndPage \/ FlushEnds \/ PageEnds \/ NoMorePages \/ EndJob
    BY <2>2 DEF WriteLine, LinesEnd, EndPage, FlushEnds, PageEnds, NoMorePages, EndJob, Keep
  <2> QED
    BY <1>2, <2>1, <2>2 DEF Job
<1>3. CASE Reading
  BY <1>3 DEF Reading, ReadEvent, Tick, Callback, ReadReply, ReadEof
<1>4. CASE Cancel \/ BridgeStops \/ UNCHANGED vars
  BY <1>4 DEF Cancel, BridgeStops, vars
<1> QED
  BY <1>1, <1>2, <1>3, <1>4 DEF Next

LEMMA PagesStep ==
  ASSUME Pages, Queues, [Next]_vars
  PROVE  Pages'
<1> USE EmptyRows DEF Pages
<1>1. CASE Session
  <2>1. CASE TakeAbort \/ TakeCommand \/ PushEvent \/ Waited \/ Begun \/ Acknowledged
    BY <2>1 DEF TakeAbort, TakeCommand, PushEvent, Waited, Begun, Acknowledged, session
  <2>2. CASE Collected
    <3>1. pending # <<>>
      BY <2>2 DEF Collected, Runs
    <3>2. pending[1].rows \in RowSeqs
      BY <3>1 DEF Queues, Commands
    <3>3. got \o pending[1].rows \in RowSeqs
      BY <3>2, ConcatProperties DEF RowSeqs
    <3> QED
      BY <2>2, <3>3 DEF Collected
  <2>3. CASE PageDone
    BY <2>3 DEF PageDone, Printed
  <2> QED
    BY <1>1, <2>1, <2>2, <2>3 DEF Session
<1> QED
  BY <1>1, GotFrame

LEMMA PageInvStep ==
  ASSUME Words, Numbers, Flags, Flags', Buffer, Buffer', CallInv, PageInv, [Next]_vars
  PROVE  PageInv'
<1>0. failed \in BOOLEAN /\ failed' \in BOOLEAN
  BY DEF Flags
<1> USE <1>0
<1>1. CASE Device
  <2>1. doing' \in {"none", "open", "close"} /\ failed' = failed /\ ~failed
    BY <1>1, Places DEF Device, OpenDevice, DeviceOpened, CloseDevice, DeviceClosed, Dial, Connects,
       Refused, Call, Msg, Returned, NoCall, At, Idle, pj, PageInv
  <2>2. pc' \in {"closed", "opening", "closing", "idle"}
    BY <1>1 DEF Device, OpenDevice, DeviceOpened, CloseDevice, DeviceClosed
  <2> QED
    BY <2>1, <2>2 DEF PageInv
<1>2. CASE Job
  <2>1. CASE StartJob \/ JobStarted
    <3>1. doing' \in {"none", "open"}
      BY <2>1 DEF StartJob, JobStarted, Connects, Refused, Returned, NoCall, At
    <3>2. pc' \in {"between", "start job", "ended"}
      BY <2>1 DEF StartJob, JobStarted, EndsWith
    <3> QED
      BY <3>1, <3>2 DEF PageInv
  <2>2. CASE StartPage
    <3>1. page' > 0 /\ y' = 0 /\ pc' = "start page"
      <4>1. y' = 0 /\ pc' = "start page"
        BY <2>2 DEF StartPage
      <4>2. page' = page + 1 /\ page \in 0 .. MaxPages
        BY <2>2 DEF StartPage, Numbers
      <4>3. page' > 0
        BY <4>2, JobAssumption
      <4> QED
        BY <4>1, <4>3
    <3>2. doing' = "open" \/ (doing' = "wait_ready" /\ held' = <<>> /\ ~failed')
      BY <2>2 DEF StartPage, Dial, Connects, Refused, ResetPage, Call, Msg
    <3> QED
      BY <3>1, <3>2 DEF PageInv
  <2>3. CASE PageConnected
    BY <2>3 DEF PageConnected, ResetPage, Call, Msg, Returned, NoCall, EndsWith, pappl, pj, PageInv
  <2>4. CASE ReadyEnds
    <3>1. pc = "start page"
      BY <2>4, Places DEF ReadyEnds, Returned
    <3> QED
      BY <2>4, <3>1 DEF ReadyEnds, Call, Msg, Returned, NoCall, EndsWith, pappl, pj, PageInv
  <2>5. CASE BeginEnds
    <3>1. pc = "start page" /\ held = <<>>
      BY <2>5, Places DEF BeginEnds, Returned, PageInv
    <3>2. Len(held) < RowsPerMessage
      <4>1. Len(held) = 0
        BY <3>1, EmptyRows
      <4> QED
        BY <4>1, JobAssumption
    <3> QED
      BY <2>5, <3>1, <3>2 DEF BeginEnds, Returned, NoCall, EndsWith, pappl, PageInv
  <2>6. CASE WriteLine
    <3>1. pc = "rows" /\ doing = "none" /\ UNCHANGED <<pc, page, failed>>
      BY <2>6 DEF WriteLine, At, Keep
    <3>2. \/ doing' = "lines" /\ ~failed
          \/ doing' = "none" /\ (held' = held \/ ~Full(Len(held')))
      <4>1. held' # held => ~failed
        BY <2>6 DEF WriteLine
      <4> QED
        BY <2>6, <3>1, <4>1 DEF WriteLine, Call
    <3>3. Len(held) < RowsPerMessage
      BY <3>1 DEF PageInv
    <3>4. Len(held') \in Nat /\ Len(held') <= RowsPerMessage
      BY LenProperties DEF Buffer, RowSeqs
    <3>5. doing' = "none" => Len(held') < RowsPerMessage
      BY <3>2, <3>3, <3>4, JobAssumption DEF Full
    <3> QED
      BY <3>1, <3>2, <3>5 DEF PageInv
  <2>7. CASE LinesEnd
    <3>1. Len(<<>>) < RowsPerMessage
      BY EmptyRows, JobAssumption
    <3> QED
      BY <2>7, <3>1 DEF LinesEnd, Returned, NoCall, pappl, PageInv
  <2>8. CASE EndPage
    <3>1. pc = "rows" /\ UNCHANGED <<page, failed>> /\ (doing' # "none" => ~failed)
      BY <2>8 DEF EndPage, PageFails, Tells, At, pappl
    <3>2. doing' \in {"none", "lines", "page_end"} /\ pc' \in {"between", "ended", "end page"}
      BY <2>8 DEF EndPage, PageFails, Call, LinesMsg, Msg, At
    <3>3. page' > 0
      BY <3>1 DEF PageInv
    <3>4. doing' = "none" \/ ~failed'
      BY <3>1
    <3> QED
      BY <3>2, <3>3, <3>4 DEF PageInv
  <2>9. CASE FlushEnds
    <3>1. pc = "end page" /\ ~failed /\ UNCHANGED <<page, y>>
      BY <2>9 DEF FlushEnds, PageFails, Tells, Returned, pappl, PageInv
    <3>2. \/ doing' = "none" /\ pc' \in {"between", "ended"}
          \/ doing' = "page_end" /\ pc' = pc /\ failed' = failed
      BY <2>9 DEF FlushEnds, PageFails, Call, Msg, NoCall
    <3> QED
      BY <3>1, <3>2 DEF PageInv
  <2>10. CASE PageEnds \/ NoMorePages \/ EndJob
    BY <2>10 DEF PageEnds, NoMorePages, EndJob, PageFails, EndsWith, Tells, ResetPage, Returned, NoCall, At, pj, PageInv
  <2> QED
    BY <1>2, <2>1, <2>2, <2>3, <2>4, <2>5, <2>6, <2>7, <2>8, <2>9, <2>10 DEF Job
<1>3. CASE Reading
  BY <1>3 DEF Reading, ReadEvent, Tick, Callback, ReadReply, ReadEof, pappl, pj, PageInv
<1>4. CASE Session
  BY <1>4, SessionFrame DEF PageInv
<1>5. CASE Cancel \/ BridgeStops \/ UNCHANGED vars
  BY <1>5 DEF Cancel, BridgeStops, vars, pappl, pj, thread, PageInv
<1> QED
  BY <1>1, <1>2, <1>3, <1>4, <1>5 DEF Next
-----------------------------------------------------------------------------
(* The queues.                                                              *)

\* Reading a message, or taking a command, moves the others up one place.
LEMMA DownTail ==
  ASSUME Queues, down # <<>>, down' = Tail(down)
  PROVE  /\ \A i \in Answers' : i + 1 \in Answers /\ down'[i] = down[i + 1]
         /\ Head(down) \in {ACK, EVENT} => (Answers' = {} => Answers = {})
         /\ Head(down) \notin {ACK, EVENT} => 1 \in Answers /\ down[1] = Head(down)
<1>1. /\ Head(down) = down[1] /\ Len(down) \in Nat \ {0} /\ Len(down') = Len(down) - 1
      /\ \A i \in 1 .. Len(down) - 1 : down'[i] = down[i + 1]
  BY Heads DEF Queues
<1>2. ASSUME NEW i \in Answers' PROVE i + 1 \in Answers /\ down'[i] = down[i + 1]
  BY <1>1, <1>2 DEF Answers
<1>3. ASSUME NEW i \in Answers, Head(down) \in {ACK, EVENT} PROVE i - 1 \in Answers'
  BY <1>1, <1>3 DEF Answers
<1>4. Head(down) \notin {ACK, EVENT} => 1 \in Answers
  BY <1>1 DEF Answers
<1> QED
  BY <1>1, <1>2, <1>3, <1>4

LEMMA UpTail ==
  ASSUME Queues, up # <<>>, up' = Tail(up)
  PROVE  /\ \A i \in Sent' : i + 1 \in Sent /\ up'[i] = up[i + 1] /\ (i < Len(up') => i + 1 < Len(up))
         /\ Head(up) # Msg("abort") => /\ 1 \in Sent /\ up[1] = Head(up) /\ Head(up) \in Commands
                                       /\ up' # <<>> => 1 < Len(up)
<1>1. /\ Head(up) = up[1] /\ Len(up) \in Nat \ {0} /\ Len(up') = Len(up) - 1
      /\ Head(up) \in Commands \cup {Msg("abort")} /\ up' \in Seq(Commands \cup {Msg("abort")})
      /\ \A i \in 1 .. Len(up) - 1 : up'[i] = up[i + 1]
  BY Heads DEF Queues
<1>2. ASSUME NEW i \in Sent' PROVE i + 1 \in Sent /\ up'[i] = up[i + 1] /\ (i < Len(up') => i + 1 < Len(up))
  BY <1>1, <1>2 DEF Sent
<1>3. Head(up) # Msg("abort") => 1 \in Sent
  BY <1>1, Kinds DEF Sent
<1>4. up' # <<>> => 1 < Len(up)
  <2>1. up' # <<>> => Len(up') \in Nat \ {0}
    BY <1>1, EmptySeq
  <2> QED
    BY <1>1, <2>1
<1> QED
  BY <1>1, <1>2, <1>3, <1>4

\* A message sent comes behind the others.
LEMMA DownAppend ==
  ASSUME Queues, NEW m \in Replies \cup {ACK, EVENT}, down' = Append(down, m)
  PROVE  /\ \A i \in Answers' : \/ i \in Answers /\ down'[i] = down[i]
                                \/ i = Len(down) + 1 /\ m \in Replies /\ down'[i] = m
         /\ Answers \subseteq Answers' /\ (m \in Replies => Len(down) + 1 \in Answers')
<1>1. /\ Len(down) \in Nat /\ Len(down') = Len(down) + 1 /\ down'[Len(down) + 1] = m
      /\ \A i \in 1 .. Len(down) : down'[i] = down[i]
  BY AppendProperties, LenProperties DEF Queues
<1>2. m \in Replies <=> m \notin {ACK, EVENT}
  BY Kinds
<1>3. 1 .. Len(down') = (1 .. Len(down)) \cup {Len(down) + 1}
  BY <1>1
<1>4. ASSUME NEW i \in Answers' PROVE \/ i \in Answers /\ down'[i] = down[i]
                                      \/ i = Len(down) + 1 /\ m \in Replies /\ down'[i] = m
  BY <1>1, <1>2, <1>3, <1>4 DEF Answers
<1>5. Answers \subseteq Answers'
  BY <1>1, <1>3 DEF Answers
<1>6. m \in Replies => Len(down) + 1 \in Answers'
  BY <1>1, <1>2, <1>3 DEF Answers
<1> QED
  BY <1>4, <1>5, <1>6

LEMMA UpAppend ==
  ASSUME Queues, NEW m \in Commands \cup {Msg("abort")}, up' = Append(up, m)
  PROVE  /\ Len(up') = Len(up) + 1 /\ Len(up) \in Nat
         /\ \A i \in Sent' : \/ i \in Sent /\ i < Len(up') /\ up'[i] = up[i]
                             \/ i = Len(up') /\ m \in Commands /\ up'[i] = m
         /\ Sent \subseteq Sent'
<1>1. /\ Len(up) \in Nat /\ Len(up') = Len(up) + 1 /\ up'[Len(up) + 1] = m
      /\ \A i \in 1 .. Len(up) : up'[i] = up[i]
  BY AppendProperties, LenProperties DEF Queues
<1>2. m.cmd # "abort" => m \in Commands
  BY Kinds
<1>3. 1 .. Len(up') = (1 .. Len(up)) \cup {Len(up) + 1}
  BY <1>1
<1>4. ASSUME NEW i \in Sent' PROVE \/ i \in Sent /\ i < Len(up') /\ up'[i] = up[i]
                                   \/ i = Len(up') /\ m \in Commands /\ up'[i] = m
  BY <1>1, <1>2, <1>3, <1>4 DEF Sent
<1>5. Sent \subseteq Sent'
  BY <1>1, <1>3 DEF Sent
<1> QED
  BY <1>1, <1>4, <1>5

-----------------------------------------------------------------------------
(* One command at most is on its way.                                       *)

\* Without a call nothing is under way.
LEMMA Quiet ==
  ASSUME WireInv, fd, ~Waiting
  PROVE  pending = <<>> /\ Sent = {} /\ Answers = {}
BY DEF WireInv

\* A call puts its command on its way.
LEMMA WireCalls ==
  ASSUME Queues, WireInv, Flags, ~Waiting, NEW m \in Commands, Call(m),
         m.cmd = "lines" => m.rows = held', UNCHANGED session
  PROVE  WireInv' /\ CancelInv' /\ (fd' => Answers' = {} /\ ret' = "none")
<1>1. CASE fd /\ alive
  <2>1. /\ doing' = m.cmd /\ ret' = "none" /\ up' = Append(up, m) /\ down' = down
        /\ pending' = pending /\ fd' /\ alive'
    BY <1>1 DEF Call, Send, session, Flags
  <2>2. Waiting' /\ Carries(m)'
    BY <2>1, Kinds DEF Waiting, Carries, Cmds
  <2>3. pending' = <<>> /\ Answers' = {}
    BY <1>1, <2>1, Quiet DEF Answers
  <2>4. \A i \in Sent' : i = Len(up') /\ up'[i] = m
    BY <1>1, <2>1, Quiet, UpAppend
  <2> QED
    BY <2>1, <2>2, <2>3, <2>4 DEF WireInv, CancelInv
<1>2. CASE ~(fd /\ alive)
  <2>1. ~alive
    BY <1>2 DEF WireInv
  <2>2. ~fd' /\ ~alive' /\ ret' = "error"
    BY <1>2, <2>1 DEF Call, Send
  <2> QED
    BY <2>2 DEF WireInv, CancelInv
<1> QED
  BY <1>1, <1>2

\* When a call is over, nothing is under way.
LEMMA WireRests ==
  ASSUME WireInv, Flags, ~Waiting, NoCall, UNCHANGED session, UNCHANGED socket \/ CloseSocket
  PROVE  WireInv' /\ CancelInv'
<1>1. doing' = "none" /\ ret' = "none" /\ UNCHANGED <<up, down, pending>>
  BY DEF NoCall, session, socket, CloseSocket
<1>2. CASE ~fd' /\ ~alive'
  BY <1>1, <1>2 DEF WireInv, CancelInv
<1>3. CASE fd' = fd /\ alive' = alive /\ fd
  <2>1. pending' = <<>> /\ Sent' = {} /\ Answers' = {}
    BY <1>1, <1>3, Quiet DEF Sent, Answers
  <2> QED
    BY <1>1, <1>3, <2>1 DEF WireInv, CancelInv
<1> QED
  BY <1>2, <1>3 DEF socket, CloseSocket, WireInv

\* A new connection has nothing on it but the open request.
LEMMA WireDials ==
  ASSUME WireInv, Flags, ~Waiting, Connects \/ Refused
  PROVE  WireInv' /\ CancelInv' /\ (fd' => Answers' = {})
<1>1. CASE Connects
  <2>1. /\ doing' = "open" /\ ret' = "none" /\ fd' /\ alive' /\ pending' = <<>>
        /\ up' = <<Msg("open")>> /\ down' = <<>>
    BY <1>1 DEF Connects
  <2>2. Waiting' /\ Carries(Msg("open"))'
    BY <2>1 DEF Waiting, Carries, Msg
  <2>3. Answers' = {} /\ \A i \in Sent' : i = 1 /\ Len(up') = 1 /\ up'[i] = Msg("open")
    BY <2>1 DEF Answers, Sent
  <2> QED
    BY <2>1, <2>2, <2>3 DEF WireInv, CancelInv
<1>2. CASE Refused
  <2>1. /\ doing' = "open" /\ ret' = "error" /\ UNCHANGED <<fd, alive, up, down, pending>>
    BY <1>2 DEF Refused, socket, session
  <2>2. CASE fd
    <3>1. pending' = <<>> /\ Sent' = {} /\ Answers' = {}
      BY <2>1, <2>2, Quiet DEF Sent, Answers
    <3> QED
      BY <2>1, <2>2, <3>1 DEF WireInv, CancelInv
  <2>3. CASE ~fd
    BY <2>1, <2>3 DEF WireInv, CancelInv
  <2> QED
    BY <2>2, <2>3
<1> QED
  BY <1>1, <1>2

LEMMA CancelParts ==
  ASSUME ret' = "cancelled" => canceled' /\ HasCallback',
         fd' => (pending' # <<>> /\ (flag' \/ up' # <<>>) => canceled'),
         fd' => \A i \in Sent' : i < Len(up') => canceled',
         fd' => \A i \in Answers' : down'[i].result = "cancelled" => canceled' /\ HasCallback'
  PROVE  CancelInv'
BY DEF CancelInv

\* Steps that leave the connection and the call alone.
LEMMA WireSame ==
  ASSUME WireInv, CancelInv, Flags, UNCHANGED <<doing, ret, socket, session>>,
         held' = held \/ doing # "lines",
         (canceled => canceled') \/ (doing = "none" /\ ret = "none")
  PROVE  WireInv' /\ CancelInv'
<1>1. UNCHANGED <<fd, alive, up, down, pending, flag>>
  BY DEF socket, session
<1>2. Sent' = Sent /\ Answers' = Answers /\ (Waiting' <=> Waiting)
  BY <1>1 DEF Sent, Answers, Waiting
<1>3. \A m : Carries(m)' <=> Carries(m)
  BY DEF Carries
<1>4. WireInv'
  BY <1>1, <1>2, <1>3 DEF WireInv
<1>5. CASE canceled => canceled'
  <2>1. HasCallback' <=> HasCallback
    BY DEF HasCallback
  <2>2. ret' = "cancelled" => canceled' /\ HasCallback'
    BY <1>5, <2>1 DEF CancelInv
  <2>3. fd' => fd
    BY <1>1
  <2>4. fd' => (pending' # <<>> /\ (flag' \/ up' # <<>>) => canceled')
    BY <1>1, <1>5 DEF CancelInv
  <2>5. fd' => \A i \in Sent' : i < Len(up') => canceled'
    BY <1>1, <1>2, <1>5 DEF CancelInv
  <2>6. fd' => \A i \in Answers' : down'[i].result = "cancelled" => canceled' /\ HasCallback'
    BY <1>1, <1>2, <1>5, <2>1 DEF CancelInv
  <2> QED
    BY <1>4, <2>2, <2>4, <2>5, <2>6, CancelParts
<1>6. CASE doing = "none" /\ ret = "none"
  <2>1. fd => pending' = <<>> /\ Sent' = {} /\ Answers' = {}
    BY <1>1, <1>2, <1>6, Quiet DEF Waiting
  <2>2. ret' # "cancelled"
    BY <1>6
  <2> QED
    BY <1>1, <1>4, <2>1, <2>2, CancelParts
<1> QED
  BY <1>4, <1>5, <1>6

LEMMA WireReadEvent ==
  ASSUME Queues, WireInv, CancelInv, ReadEvent
  PROVE  WireInv' /\ CancelInv' /\ (Answers' = {} <=> Answers = {})
<1>1. /\ fd /\ down # <<>> /\ down' = Tail(down) /\ Head(down) \in {ACK, EVENT}
      /\ UNCHANGED <<doing, ret, fd, alive, up, pending, flag, held, canceled>>
  BY DEF ReadEvent, Replying, pj, pappl, session
<1>2. /\ \A i \in Answers' : i + 1 \in Answers /\ down'[i] = down[i + 1]
      /\ Answers' = {} => Answers = {}
  BY <1>1, DownTail
<1>3. \A i \in Answers' : Waiting /\ down'[i].cmd = doing /\ Answers' = {i}
  <2>1. \A i \in Answers' : i \in Nat
    BY DEF Answers
  <2>2. \A i, j \in Answers' : i + 1 \in Answers /\ j + 1 \in Answers => i = j
    BY <1>1, <1>2, <2>1 DEF WireInv
  <2>3. \A i \in Answers' : Answers' = {i}
    BY <1>2, <2>2
  <2> QED
    BY <1>1, <1>2, <2>3 DEF WireInv
<1>4. Sent' = Sent /\ (Waiting' <=> Waiting) /\ (HasCallback' <=> HasCallback)
  BY <1>1 DEF Sent, Waiting, HasCallback
<1>5. \A m : Carries(m)' <=> Carries(m)
  BY <1>1 DEF Carries
<1>6. Answers = {} => Answers' = {}
  BY <1>2
<1>7. WireInv'
  BY <1>1, <1>3, <1>4, <1>5, <1>6 DEF WireInv
<1>8. CancelInv'
  BY <1>1, <1>2, <1>4 DEF CancelInv
<1> QED
  BY <1>2, <1>6, <1>7, <1>8

\* A reply at the head of the queue answers the call.
LEMMA Reply ==
  ASSUME Queues, WireInv, fd, down # <<>>, Head(down) \notin {ACK, EVENT}
  PROVE  /\ Head(down) \in Replies /\ Head(down).cmd = doing /\ Waiting
         /\ Head(down) = down[1] /\ Answers = {1} /\ Sent = {} /\ pending = <<>>
<1>1. 1 \in Answers /\ Head(down) = down[1] /\ Head(down) \in Replies
  <2>1. 1 \in Answers /\ Head(down) = down[1]
    BY DownTail, Heads DEF Queues, Answers
  <2> QED
    BY <2>1, EventOrReply
<1> QED
  BY <1>1 DEF WireInv

LEMMA WireReadReply ==
  ASSUME Queues, WireInv, CancelInv, ReadReply
  PROVE  /\ WireInv' /\ CancelInv'
         /\ \/ Head(down) = ACK /\ ret' = ret /\ (Answers' = {} <=> Answers = {})
            \/ /\ Head(down) \in Replies /\ ret' = down[1].result
               /\ Answers' = {} /\ Answers = {1}
<1>1. /\ fd /\ down # <<>> /\ down' = Tail(down) /\ Head(down) # EVENT
      /\ ret' = IF Head(down) = ACK THEN "none" ELSE Head(down).result
      /\ UNCHANGED <<doing, fd, alive, up, pending, flag, held, canceled>>
  BY Kinds DEF ReadReply, Replying, Skips, pj, pappl, session
<1>2. Sent' = Sent /\ (HasCallback' <=> HasCallback) /\ doing # "none" /\ ret = "none"
  BY <1>1 DEF Sent, HasCallback, ReadReply, Replying
<1>3. CASE Head(down) = ACK
  <2>1. ret' = ret /\ (Waiting' <=> Waiting)
    BY <1>1, <1>2, <1>3 DEF Waiting
  <2>2. /\ \A i \in Answers' : i + 1 \in Answers /\ down'[i] = down[i + 1]
        /\ Answers' = {} => Answers = {}
    BY <1>1, <1>3, DownTail
  <2>3. \A i \in Answers' : Waiting /\ down'[i].cmd = doing /\ Answers' = {i}
    <3>1. \A i \in Answers' : i \in Nat
      BY DEF Answers
    <3>2. \A i, j \in Answers' : i + 1 \in Answers /\ j + 1 \in Answers => i = j
      BY <1>1, <2>2, <3>1 DEF WireInv
    <3>3. \A i \in Answers' : Answers' = {i}
      BY <2>2, <3>2
    <3> QED
      BY <1>1, <2>2, <3>3 DEF WireInv
  <2>4. \A m : Carries(m)' <=> Carries(m)
    BY <1>1 DEF Carries
  <2>5. Answers = {} => Answers' = {}
    BY <2>2
  <2>6. WireInv'
    BY <1>1, <1>2, <2>1, <2>3, <2>4, <2>5 DEF WireInv
  <2>7. CancelInv'
    BY <1>1, <1>2, <2>1, <2>2 DEF CancelInv
  <2> QED
    BY <1>3, <2>1, <2>2, <2>5, <2>6, <2>7
<1>4. CASE Head(down) # ACK
  <2>1. /\ Head(down) \in Replies /\ Head(down).cmd = doing /\ Waiting
        /\ Head(down) = down[1] /\ Answers = {1} /\ Sent = {} /\ pending = <<>>
    BY <1>1, <1>4, Reply
  <2>2. Answers' = {}
    <3>1. \A i \in Answers' : i \in Nat \ {0} /\ i + 1 \in {1}
      BY <1>1, <2>1, DownTail DEF Answers
    <3> QED
      BY <3>1
  <2>3. Sent' = {} /\ pending' = <<>>
    BY <1>1, <1>2, <2>1
  <2>4. WireInv'
    BY <1>1, <2>2, <2>3 DEF WireInv
  <2>5. ret' = "cancelled" => canceled' /\ HasCallback'
    BY <1>1, <1>2, <1>4, <2>1 DEF CancelInv
  <2>6. CancelInv'
    BY <2>2, <2>3, <2>5, CancelParts
  <2> QED
    BY <1>1, <1>4, <2>1, <2>2, <2>4, <2>6
<1> QED
  BY <1>3, <1>4

\* A connection that ended has nothing under way.
LEMMA WireReadEof ==
  ASSUME WireInv, ReadEof
  PROVE  WireInv' /\ CancelInv'
<1>1. ~fd' /\ ~alive' /\ ret' = "error"
  BY DEF ReadEof
<1> QED
  BY <1>1 DEF WireInv, CancelInv

\* An abort goes out while a command is under way or its reply, after it.
LEMMA WireCallback ==
  ASSUME Queues, Flags, WireInv, CancelInv, Callback
  PROVE  WireInv' /\ CancelInv'
<1>1. UNCHANGED <<doing, ret, held, canceled, session, pending, flag>> /\ (Waiting' <=> Waiting)
  BY DEF Callback, Waiting, pappl, session
<1>2. CASE UNCHANGED socket
  BY <1>1, <1>2, WireSame
<1>3. CASE canceled /\ Send(Msg("abort"))
  <2>1. CASE fd /\ alive
    <3>1. up' = Append(up, Msg("abort")) /\ UNCHANGED <<fd, alive, down>>
      BY <1>3, <2>1 DEF Send, Flags
    <3>2. /\ Len(up') = Len(up) + 1 /\ Len(up) \in Nat
          /\ \A i \in Sent' : i \in Sent /\ up'[i] = up[i]
          /\ Sent \subseteq Sent'
      BY <3>1, UpAppend, Kinds
    <3>3. Answers' = Answers /\ Sent' = Sent
      BY <3>1, <3>2 DEF Answers
    <3>4. \A m : Carries(m)' <=> Carries(m)
      BY <1>1 DEF Carries
    <3>5. WireInv'
      BY <1>1, <2>1, <3>1, <3>2, <3>3, <3>4 DEF WireInv
    <3>6. HasCallback' <=> HasCallback
      BY <1>1 DEF HasCallback
    <3>7. CancelInv'
      BY <1>1, <1>3, <3>1, <3>3, <3>6 DEF CancelInv
    <3> QED
      BY <3>5, <3>7
  <2>2. CASE ~(fd /\ alive)
    <3>1. ~alive
      BY <2>2 DEF WireInv
    <3>2. ~fd' /\ ~alive' /\ ret' = ret
      BY <1>1, <1>3, <2>2, <3>1 DEF Send
    <3>3. HasCallback' <=> HasCallback
      BY <1>1 DEF HasCallback
    <3> QED
      BY <1>1, <3>2, <3>3 DEF WireInv, CancelInv
  <2> QED
    BY <2>1, <2>2
<1> QED
  BY <1>2, <1>3 DEF Callback

LEMMA WireTakeAbort ==
  ASSUME Queues, WireInv, CancelInv, TakeAbort
  PROVE  WireInv' /\ CancelInv' /\ (Answers' = {} <=> Answers = {})
<1>1. /\ alive /\ up # <<>> /\ up' = Tail(up) /\ down' = Append(down, ACK)
      /\ UNCHANGED <<doing, ret, fd, alive, pending, held, canceled>>
  BY DEF TakeAbort, Others, thread, pj, pappl
<1>2. \A i \in Sent' : i + 1 \in Sent /\ up'[i] = up[i + 1] /\ (i < Len(up') => i + 1 < Len(up))
  BY <1>1, UpTail
<1>3. Answers' = Answers /\ \A i \in Answers' : down'[i] = down[i]
  BY <1>1, DownAppend, Kinds
<1>4. (Waiting' <=> Waiting) /\ (HasCallback' <=> HasCallback) /\ \A m : Carries(m)' <=> Carries(m)
  BY <1>1 DEF Waiting, HasCallback, Carries
<1>5. \A i \in Sent' : Waiting /\ Carries(up'[i]) /\ Sent' = {i} /\ Answers = {}
  <2>1. \A i \in Sent' : i \in Nat
    BY DEF Sent
  <2>2. \A i, j \in Sent' : i = j
    <3>1. \A i, j \in Sent' : i + 1 = j + 1
      BY <1>1, <1>2 DEF WireInv
    <3> QED
      BY <2>1, <3>1
  <2>3. \A i \in Sent' : Sent' = {i}
    BY <2>2
  <2> QED
    BY <1>1, <1>2, <2>3 DEF WireInv
<1>6. Sent = {} => Sent' = {}
  BY <1>2
<1>7. WireInv'
  BY <1>1, <1>3, <1>4, <1>5, <1>6 DEF WireInv
<1>8. pending # <<>> => canceled
  BY <1>1 DEF CancelInv, WireInv
<1>9. CancelInv'
  BY <1>1, <1>2, <1>3, <1>4, <1>8 DEF CancelInv
<1> QED
  BY <1>3, <1>7, <1>9

LEMMA WireTakeCommand ==
  ASSUME Queues, Flags, WireInv, CancelInv, TakeCommand
  PROVE  WireInv' /\ CancelInv' /\ down' = down
<1>1. /\ alive /\ up # <<>> /\ up' = Tail(up) /\ Head(up) # Msg("abort")
      /\ UNCHANGED <<doing, ret, fd, alive, held, canceled>>
  BY DEF TakeCommand, Others, thread, pj, pappl
<1>2. /\ \A i \in Sent' : i + 1 \in Sent /\ i \in Nat \ {0}
      /\ 1 \in Sent /\ up[1] = Head(up) /\ (up' # <<>> => 1 < Len(up))
  BY <1>1, UpTail DEF Sent
<1>3. /\ Waiting /\ Carries(Head(up)) /\ Sent = {1} /\ Answers = {} /\ pending = <<>>
  BY <1>1, <1>2 DEF WireInv
<1>4. pending' = <<Head(up)>> /\ flag' = FALSE /\ down' = down
  BY <1>3 DEF TakeCommand
<1>5. Sent' = {} /\ Answers' = {}
  <2>1. \A i \in Sent' : i = 0 /\ i # 0
    BY <1>2, <1>3
  <2> QED
    BY <1>3, <1>4, <2>1 DEF Answers
<1>6. Waiting' /\ pending'[1].cmd = doing' /\ (doing' = "lines" => pending'[1].rows = held')
  BY <1>1, <1>3, <1>4 DEF Waiting, Carries
<1>7. WireInv'
  BY <1>1, <1>4, <1>5, <1>6 DEF WireInv, Carries
<1>8. up' # <<>> => canceled
  BY <1>1, <1>2 DEF CancelInv, WireInv
<1>9. ret' # "cancelled"
  BY <1>1, <1>3 DEF Waiting
<1>10. CancelInv'
  BY <1>1, <1>4, <1>5, <1>8, <1>9, CancelParts
<1> QED
  BY <1>4, <1>7, <1>10

LEMMA WirePushEvent ==
  ASSUME Queues, WireInv, CancelInv, PushEvent
  PROVE  WireInv' /\ CancelInv' /\ (Answers' = {} <=> Answers = {})
<1>1. /\ down = <<>> /\ down' = <<EVENT>>
      /\ UNCHANGED <<doing, ret, fd, alive, up, pending, flag, held, canceled>>
  BY DEF PushEvent, Others, thread, pj, pappl, session
<1>2. Answers' = {} /\ Answers = {} /\ Sent' = Sent
  BY <1>1 DEF Answers, Sent
<1>3. (Waiting' <=> Waiting) /\ (HasCallback' <=> HasCallback) /\ \A m : Carries(m)' <=> Carries(m)
  BY <1>1 DEF Waiting, HasCallback, Carries
<1>4. WireInv'
  BY <1>1, <1>2, <1>3 DEF WireInv
<1>5. CancelInv'
  BY <1>1, <1>2, <1>3 DEF CancelInv
<1> QED
  BY <1>2, <1>4, <1>5

\* The session runs the command the job waits for.
LEMMA Running ==
  ASSUME Queues, WireInv, alive, pending # <<>>
  PROVE  /\ fd /\ Waiting /\ Carries(pending[1]) /\ Sent = {} /\ Answers = {}
         /\ pending[1] \in Commands
BY DEF WireInv, Queues

\* An answer puts the reply of the call on its way, and cancelled only in a job that was.
LEMMA WireAnswers ==
  ASSUME Queues, WireInv, CancelInv, alive, pending # <<>>, NEW r \in Results, Answer(r),
         r = "cancelled" => flag /\ HasCallback
  PROVE  /\ WireInv' /\ CancelInv'
         /\ \A i \in Answers' : down'[i].result = r
         /\ Answers' # {} /\ ret' = "none" /\ doing' = doing
<1>1. /\ fd /\ Waiting /\ Carries(pending[1]) /\ Sent = {} /\ Answers = {}
      /\ pending[1] \in Commands
  BY Running
<1>2. /\ pending' = <<>> /\ UNCHANGED <<doing, ret, fd, alive, up, flag, held, canceled>>
      /\ down' = Append(down, [cmd |-> doing, result |-> r])
  BY <1>1 DEF Answer, Others, Carries, thread, pj, pappl
<1>3. [cmd |-> doing, result |-> r] \in Replies
  BY <1>1 DEF Replies, Carries, Commands
<1>4. /\ \A i \in Answers' : i = Len(down) + 1 /\ down'[i] = [cmd |-> doing, result |-> r]
      /\ Len(down) + 1 \in Answers'
  BY <1>1, <1>2, <1>3, DownAppend
<1>5. Sent' = {} /\ Waiting' /\ (HasCallback' <=> HasCallback)
  BY <1>1, <1>2 DEF Sent, Waiting, HasCallback
<1>6. \A i \in Answers' : down'[i].cmd = doing /\ down'[i].result = r /\ Answers' = {i}
  BY <1>4
<1>7. WireInv'
  BY <1>1, <1>2, <1>5, <1>6 DEF WireInv
<1>8. r = "cancelled" => canceled
  BY <1>1 DEF CancelInv
<1>9. ret' # "cancelled"
  BY <1>5 DEF Waiting
<1>10. CancelInv'
  BY <1>2, <1>5, <1>6, <1>8, <1>9, CancelParts
<1> QED
  BY <1>2, <1>4, <1>5, <1>6, <1>7, <1>10 DEF Waiting

\* When the bridge stops, its reply may still be read.
LEMMA WireStops ==
  ASSUME WireInv, CancelInv, Flags, BridgeStops
  PROVE  WireInv' /\ CancelInv'
<1>1. /\ ~alive' /\ up' = <<>> /\ pending' = <<>> /\ UNCHANGED <<doing, ret, fd, down, held, canceled>>
  BY DEF BridgeStops, thread, pj, pappl
<1>2. fd /\ Sent' = {} /\ Answers' = Answers /\ (Waiting' <=> Waiting) /\ (HasCallback' <=> HasCallback)
  BY <1>1 DEF Sent, Answers, Waiting, HasCallback, BridgeStops, WireInv
<1>3. WireInv'
  BY <1>1, <1>2 DEF WireInv
<1>4. CancelInv'
  BY <1>1, <1>2 DEF CancelInv
<1> QED
  BY <1>3, <1>4

\* A call starts after the last one has returned.
LEMMA CallsRest ==
  ASSUME CallInv
  PROVE  /\ \A k : At(k) \/ Returned(k) => ~Waiting
         /\ \A k : At(k) => ret = "none"
BY DEF At, Returned, Waiting, CallInv

LEMMA WireDevice ==
  ASSUME Queues, Flags, Words, CallInv, WireInv, CancelInv, Device
  PROVE  WireInv' /\ CancelInv'
<1>0. Msg("close") \in Commands /\ Msg("close").cmd # "lines"
  BY Kinds DEF Cmds
<1>1. CASE OpenDevice
  BY <1>1, WireDials, CallsRest DEF OpenDevice, Dial
<1>2. CASE DeviceOpened
  BY <1>2, WireRests, CallsRest DEF DeviceOpened
<1>3. CASE CloseDevice
  BY <1>0, <1>3, WireCalls, CallsRest DEF CloseDevice
<1>4. CASE DeviceClosed
  BY <1>4, WireRests, CallsRest DEF DeviceClosed
<1> QED
  BY <1>1, <1>2, <1>3, <1>4 DEF Device

LEMMA WireJob ==
  ASSUME Queues, Buffer, Buffer', Flags, Words, CallInv, WireInv, CancelInv, Job
  PROVE  WireInv' /\ CancelInv'
<1>0. \A k \in {"wait_ready", "page_begin", "page_end"} :
        Msg(k) \in Commands /\ Msg(k).cmd # "lines"
  BY Kinds DEF Cmds
<1>1. CASE StartJob
  <2>1. doing = "none" /\ ret = "none" /\ ~Waiting
    BY <1>1, CallsRest DEF StartJob, At
  <2>2. CASE Connects \/ Refused
    BY <2>1, <2>2, WireDials
  <2>3. CASE UNCHANGED <<doing, ret, socket, session>>
    <3>1. held' = held
      BY <1>1 DEF StartJob, pj
    <3> QED
      BY <2>1, <2>3, <3>1, WireSame
  <2> QED
    BY <1>1, <2>2, <2>3 DEF StartJob
<1>2. CASE JobStarted
  <2>1. ~Waiting /\ NoCall /\ UNCHANGED session /\ (UNCHANGED socket \/ CloseSocket)
    BY <1>2, CallsRest DEF JobStarted, Keep
  <2> QED
    BY <2>1, WireRests
<1>3. CASE StartPage
  <2>1. ~Waiting
    BY <1>3, CallsRest DEF StartPage
  <2> QED
    BY <1>0, <1>3, <2>1, WireCalls, WireDials DEF StartPage, Dial
<1>4. CASE PageConnected
  <2>1. ~Waiting /\ UNCHANGED session
    BY <1>4, CallsRest DEF PageConnected, Keep
  <2> QED
    BY <1>0, <1>4, <2>1, WireCalls, WireRests DEF PageConnected
<1>5. CASE ReadyEnds
  <2>1. ~Waiting /\ UNCHANGED session
    BY <1>5, CallsRest DEF ReadyEnds, Keep
  <2> QED
    BY <1>0, <1>5, <2>1, WireCalls, WireRests DEF ReadyEnds
<1>6. CASE BeginEnds \/ LinesEnd \/ PageEnds
  <2>1. ~Waiting /\ UNCHANGED <<session, socket>> /\ NoCall
    BY <1>6, CallsRest DEF BeginEnds, LinesEnd, PageEnds, Keep
  <2> QED
    BY <2>1, WireRests
<1>7. CASE WriteLine
  <2>1. ~Waiting /\ UNCHANGED session /\ doing = "none" /\ ret = "none" /\ canceled' = canceled
    BY <1>7, CallsRest DEF WriteLine, Keep, At
  <2>2. CASE Call([cmd |-> "lines", rows |-> held'])
    <3>1. [cmd |-> "lines", rows |-> held'] \in Commands
      BY Kinds DEF Buffer
    <3> QED
      BY <2>1, <2>2, <3>1, WireCalls
  <2>3. CASE UNCHANGED <<doing, ret, calling, socket>>
    BY <2>1, <2>3, WireSame
  <2> QED
    BY <1>7, <2>2, <2>3 DEF WriteLine
<1>8. CASE EndPage
  <2>1. ~Waiting /\ UNCHANGED session /\ doing = "none" /\ ret = "none" /\ held' = held
    BY <1>8, CallsRest DEF EndPage, Keep, At
  <2>2. CASE Call(LinesMsg)
    <3>1. LinesMsg \in Commands /\ LinesMsg.rows = held'
      BY <2>1, Kinds DEF Buffer, LinesMsg
    <3> QED
      BY <2>1, <2>2, <3>1, WireCalls
  <2>3. CASE Call(Msg("page_end"))
    BY <1>0, <2>1, <2>3, WireCalls
  <2>4. CASE UNCHANGED <<doing, ret, calling, socket>>
    BY <2>1, <2>4, WireSame
  <2> QED
    BY <1>8, <2>2, <2>3, <2>4 DEF EndPage
<1>9. CASE FlushEnds
  <2>1. ~Waiting /\ UNCHANGED session
    BY <1>9, CallsRest DEF FlushEnds, Keep
  <2> QED
    BY <1>0, <1>9, <2>1, WireCalls, WireRests DEF FlushEnds
<1>10. CASE NoMorePages \/ EndJob
  <2>1. doing = "none" /\ ret = "none" /\ UNCHANGED <<doing, ret, socket, session>>
    BY <1>10, CallsRest DEF NoMorePages, EndJob, At, Keep
  <2> QED
    BY <2>1, WireSame
<1> QED
  BY <1>1, <1>2, <1>3, <1>4, <1>5, <1>6, <1>7, <1>8, <1>9, <1>10 DEF Job

LEMMA WireSession ==
  ASSUME Queues, Flags, WireInv, CancelInv, Session
  PROVE  WireInv' /\ CancelInv'
<1>1. CASE TakeAbort \/ TakeCommand \/ PushEvent
  BY <1>1, WireTakeAbort, WireTakeCommand, WirePushEvent
<1>2. CASE Waited
  <2>1. /\ alive /\ pending # <<>> /\ pending[1].cmd = "wait_ready"
        /\ \E r \in Results : Answer(r) /\ (r = "cancelled" => flag)
    BY <1>2 DEF Waited, Runs, Results
  <2>2. HasCallback
    BY <2>1, Running DEF Carries, HasCallback
  <2> QED
    BY <2>1, <2>2, WireAnswers
<1>3. CASE Begun \/ Collected \/ Acknowledged
  <2>1. alive /\ pending # <<>> /\ \E r \in Results : Answer(r) /\ r # "cancelled"
    BY <1>3 DEF Begun, Collected, Acknowledged, Runs, Results
  <2> QED
    BY <2>1, WireAnswers
<1>4. CASE PageDone
  <2>1. /\ alive /\ pending # <<>> /\ pending[1].cmd = "page_end"
        /\ \E r \in Results : Answer(r) /\ (r = "cancelled" => flag)
    BY <1>4 DEF PageDone, Printed, Runs, Results
  <2>2. HasCallback
    BY <2>1, Running DEF Carries, HasCallback
  <2> QED
    BY <2>1, <2>2, WireAnswers
<1> QED
  BY <1>1, <1>2, <1>3, <1>4 DEF Session

LEMMA WireStep ==
  ASSUME Queues, Buffer, Buffer', Flags, Words, CallInv, WireInv, CancelInv, [Next]_vars
  PROVE  WireInv' /\ CancelInv'
<1>1. CASE Device \/ Job \/ Session
  BY <1>1, WireDevice, WireJob, WireSession
<1>2. CASE Reading
  <2>1. CASE Tick
    <3>1. UNCHANGED <<doing, ret, held, canceled, socket, session>>
      BY <2>1 DEF Tick, pj, pappl
    <3> QED
      BY <3>1, WireSame
  <2> QED
    BY <1>2, <2>1, WireReadEvent, WireReadReply, WireReadEof, WireCallback DEF Reading
<1>3. CASE Cancel
  <2>1. UNCHANGED <<doing, ret, held, socket, session>> /\ canceled'
    BY <1>3 DEF Cancel, thread, pj
  <2> QED
    BY <2>1, WireSame
<1>4. CASE BridgeStops
  BY <1>4, WireStops
<1>5. CASE UNCHANGED vars
  <2>1. UNCHANGED <<doing, ret, held, canceled, socket, session>>
    BY <1>5 DEF vars, thread, pj, pappl
  <2> QED
    BY <2>1, WireSame
<1> QED
  BY <1>1, <1>2, <1>3, <1>4, <1>5 DEF Next
-----------------------------------------------------------------------------
(* Steps that leave the call where it is.                                   *)

Passing == Reading \/ TakeAbort \/ TakeCommand \/ PushEvent \/ Cancel \/ UNCHANGED vars

LEMMA PassingKeeps ==
  ASSUME Passing
  PROVE  /\ UNCHANGED <<pc, doing, page, first, y, held, failed, errors, believed>>
         /\ UNCHANGED <<pageIn, got, printed, trouble>>
<1>1. CASE Reading
  BY <1>1 DEF Reading, ReadEvent, Tick, Callback, ReadReply, ReadEof, pj, pappl, session, faults
<1>2. CASE TakeAbort \/ TakeCommand \/ PushEvent
  BY <1>2 DEF TakeAbort, TakeCommand, PushEvent, Others, thread, pj, pappl, session, faults
<1>3. CASE Cancel \/ UNCHANGED vars
  BY <1>3 DEF Cancel, vars, thread, pj, pappl, session, faults
<1> QED
  BY <1>1, <1>2, <1>3 DEF Passing

LEMMA PassingSocket ==
  ASSUME Flags, Passing
  PROVE  (canceled => canceled') /\ (fd' => fd) /\ (fd /\ alive => fd') /\ alive' = alive
<1>1. CASE Reading
  BY <1>1 DEF Reading, ReadEvent, Tick, Callback, ReadReply, ReadEof, Send, pappl, socket, Flags
<1>2. CASE TakeAbort \/ TakeCommand \/ PushEvent
  BY <1>2 DEF TakeAbort, TakeCommand, PushEvent, Others, pappl
<1>3. CASE Cancel \/ UNCHANGED vars
  BY <1>3 DEF Cancel, vars, pappl, socket
<1> QED
  BY <1>1, <1>2, <1>3 DEF Passing

\* No reply is made up, and none is lost but with its connection.
LEMMA PassingReplies ==
  ASSUME Queues, Flags, WireInv, CancelInv, Passing
  PROVE  /\ fd' => \A i \in Answers' : \E j \in Answers : down'[i] = down[j]
         /\ \/ ret' = ret
            \/ fd /\ \E j \in Answers : ret' = down[j].result
            \/ fd /\ ~alive /\ ~fd'
         /\ fd' => (Answered' <=> Answered)
<1>1. CASE ReadEvent
  <2>1. fd /\ down # <<>> /\ down' = Tail(down) /\ ret' = ret
    BY <1>1 DEF ReadEvent
  <2>2. Answers' = {} <=> Answers = {}
    BY <1>1, WireReadEvent
  <2> QED
    BY <2>1, <2>2, DownTail DEF Answered
<1>2. CASE Tick \/ Callback \/ TakeCommand \/ Cancel \/ UNCHANGED vars
  <2>1. ret' = ret /\ down' = down
    <3>1. CASE TakeCommand
      BY <3>1, WireTakeCommand DEF TakeCommand, Others, thread
    <3>2. CASE Tick \/ Callback \/ Cancel \/ UNCHANGED vars
      BY <3>2 DEF Tick, Callback, Cancel, Send, vars, thread, socket
    <3> QED
      BY <1>2, <3>1, <3>2
  <2> QED
    BY <2>1 DEF Answers, Answered
<1>3. CASE ReadReply
  <2>1. fd /\ down # <<>> /\ down' = Tail(down) /\ ret = "none"
    BY <1>3 DEF ReadReply, Replying
  <2>2. \A i \in Answers' : \E j \in Answers : down'[i] = down[j]
    BY <2>1, DownTail
  <2>3. CASE Head(down) = ACK /\ ret' = ret /\ (Answers' = {} <=> Answers = {})
    BY <2>2, <2>3 DEF Answered
  <2>4. CASE Head(down) \in Replies /\ ret' = down[1].result /\ Answers = {1}
    <3>1. ret' # "none"
      BY <2>4, <2>1, Heads DEF Replies, Results, Queues
    <3> QED
      BY <2>1, <2>2, <2>4, <3>1 DEF Answered
  <2> QED
    BY <1>3, <2>3, <2>4, WireReadReply
<1>4. CASE ReadEof
  BY <1>4 DEF ReadEof
<1>5. CASE TakeAbort
  <2>1. down' = Append(down, ACK) /\ ret' = ret
    BY <1>5 DEF TakeAbort, Others, thread
  <2>2. \A i \in Answers' : \E j \in Answers : down'[i] = down[j]
    BY <2>1, DownAppend, Kinds
  <2>3. Answers' = {} <=> Answers = {}
    BY <1>5, WireTakeAbort
  <2> QED
    BY <2>1, <2>2, <2>3 DEF Answered
<1>6. CASE PushEvent
  <2>1. down = <<>> /\ down' = <<EVENT>> /\ ret' = ret
    BY <1>6 DEF PushEvent, Others, thread
  <2>2. Answers' = {} /\ Answers = {}
    BY <2>1 DEF Answers
  <2> QED
    BY <2>1, <2>2 DEF Answered
<1> QED
  BY <1>1, <1>2, <1>3, <1>4, <1>5, <1>6 DEF Passing, Reading
-----------------------------------------------------------------------------
(* The rows of the page.                                                    *)

\* Where no rows are on their way.
LEMMA RowsAway ==
  ASSUME \/ ~(fd' /\ alive')
         \/ /\ pc' \notin {"rows", "end page"}
            /\ doing' \notin {"page_begin", "page_end"}
  PROVE  RowsInv'
BY DEF RowsInv, InRows

\* Steps that leave the rows alone.
LEMMA RowsFrame ==
  ASSUME RowsInv, UNCHANGED <<pc, doing, page, y, held, failed, pageIn, got>>,
         canceled => canceled', fd' /\ alive' => fd /\ alive,
         fd' /\ alive' /\ doing \in {"page_begin", "lines", "page_end"} =>
           (Answered' <=> Answered) /\ (Accepted' => Accepted)
  PROVE  RowsInv'
<1> SUFFICES ASSUME fd' /\ alive' PROVE RowsInv'
  BY DEF RowsInv
<1>1. (Starts' <=> Starts) /\ (InRows' <=> InRows) /\ (Follows(Len(got))' <=> Follows(Len(got)))
  BY DEF Starts, InRows, Follows
<1>2. CASE doing \in {"page_begin", "lines", "page_end"}
  BY <1>1, <1>2 DEF RowsInv
<1>3. CASE doing \notin {"page_begin", "lines", "page_end"}
  BY <1>1, <1>3 DEF RowsInv
<1> QED
  BY <1>2, <1>3

\* A page command is under way.
LEMMA PageCommand ==
  ASSUME Queues, Words, Flags, CallInv, PageInv, WireInv, RowsInv, alive, pending # <<>>
  PROVE  /\ fd /\ ~Answered /\ doing = pending[1].cmd
         /\ doing = "lines" => /\ pending[1].rows = held /\ InRows /\ pageIn /\ Starts
                               /\ Follows(Len(got)) /\ Len(got) + Len(held) <= y
                               /\ pc = "end page" \/ ~canceled => Len(got) + Len(held) = y
         /\ doing = "page_end" => pageIn /\ Starts /\ Len(got) = y /\ pc = "end page"
<1>1. fd /\ Waiting /\ Carries(pending[1]) /\ Answers = {}
  BY Running
<1>2. ~Answered /\ doing = pending[1].cmd /\ (doing = "lines" => pending[1].rows = held)
  BY <1>1 DEF Answered, Waiting, Carries
<1>3. doing = "lines" => InRows
  BY Places DEF InRows, PageInv
<1> QED
  BY <1>1, <1>2, <1>3, Places DEF RowsInv

\* The rows of a lines command fit: it is never refused.
LEMMA RowsCollected ==
  ASSUME Queues, Words, Flags, Numbers, Buffer, Pages, CallInv, PageInv, WireInv, CancelInv,
         RowsInv, Collected
  PROVE  RowsInv' /\ Answer("ok")
<1>1. /\ alive /\ pending # <<>> /\ pending[1].cmd = "lines" /\ pageIn' = pageIn
  BY DEF Collected, Runs
<1>2. /\ fd /\ doing = "lines" /\ pending[1].rows = held /\ InRows /\ pageIn /\ Starts
      /\ Follows(Len(got)) /\ Len(got) + Len(held) <= y
      /\ pc = "end page" \/ ~canceled => Len(got) + Len(held) = y
  <2>1. doing = "lines" /\ fd
    BY <1>1, PageCommand
  <2> QED
    BY <1>1, <2>1, PageCommand
<1>3. Len(got) + Len(held) <= Rows
  <2>1. Len(got) \in Nat /\ Len(held) \in Nat
    BY LenProperties DEF Buffer, Pages, RowSeqs
  <2>2. y \in Nat /\ y <= Rows /\ Rows \in Nat
    BY JobAssumption DEF Numbers
  <2>3. Len(got) + Len(held) <= y
    BY <1>2
  <2> QED
    BY <2>1, <2>2, <2>3
<1>4. got' = got \o held /\ Answer("ok")
  BY <1>2, <1>3 DEF Collected
<1>5. UNCHANGED <<pc, doing, page, y, held, failed, canceled, fd, alive>>
  BY <1>4 DEF Answer, Others, thread, pj, pappl
<1>6. Answered'
  BY <1>1, <1>4, WireAnswers DEF Results, Answered
<1>7. /\ Len(got') = Len(got) + Len(held) /\ Len(got) \in Nat /\ Len(held) \in Nat
      /\ \A i \in 1 .. Len(got) : got'[i] = got[i]
      /\ \A i \in Len(got) + 1 .. Len(got) + Len(held) : got'[i] = held[i - Len(got)]
  BY <1>4, ConcatProperties, LenProperties DEF Buffer, Pages, RowSeqs
<1>8. Starts'
  <2> SUFFICES ASSUME NEW i \in 1 .. Len(got') PROVE got'[i] = <<page, i>>
    BY <1>5 DEF Starts
  <2>1. CASE i \in 1 .. Len(got)
    BY <1>2, <1>7, <2>1 DEF Starts
  <2>2. CASE i \in Len(got) + 1 .. Len(got) + Len(held)
    <3>1. i - Len(got) \in 1 .. Len(held) /\ Len(got) + (i - Len(got)) = i
      BY <1>7, <2>2
    <3> QED
      BY <1>2, <1>7, <2>2, <3>1 DEF Follows
  <2> QED
    BY <1>7, <2>1, <2>2
<1>9. InRows' /\ pageIn'
  BY <1>1, <1>2, <1>5 DEF InRows
<1> QED
  BY <1>2, <1>4, <1>5, <1>6, <1>7, <1>8, <1>9 DEF RowsInv

LEMMA RowsSession ==
  ASSUME Queues, Words, Flags, Numbers, Buffer, Pages, CallInv, PageInv, WireInv, CancelInv,
         RowsInv, Waited \/ Begun \/ Collected \/ PageDone \/ Acknowledged
  PROVE  RowsInv'
<1>0. /\ alive /\ pending # <<>> /\ fd /\ doing = pending[1].cmd
      /\ UNCHANGED <<pc, doing, page, y, held, failed, canceled, fd, alive>>
  BY PageCommand DEF Waited, Begun, Collected, PageDone, Acknowledged, Runs, Answer, Others, thread,
     pj, pappl
<1>1. CASE Waited \/ Acknowledged
  <2>1. doing \notin {"page_begin", "lines", "page_end"} /\ UNCHANGED <<pageIn, got>>
    BY <1>0, <1>1 DEF Waited, Acknowledged, Runs
  <2> QED
    BY <1>0, <2>1, RowsFrame
<1>2. CASE Begun
  <2>1. doing = "page_begin"
    BY <1>0, <1>2 DEF Begun, Runs
  <2>2. pc = "start page"
    BY <2>1, Places
  <2>3. PICK r \in Results : Answer(r) /\ (r = "ok" => pageIn' = TRUE /\ got' = <<>>) /\ r # "cancelled"
    BY <1>2 DEF Begun, Results
  <2>4. Accepted' => r = "ok"
    BY <1>0, <2>3, WireAnswers DEF Accepted
  <2> QED
    BY <1>0, <2>1, <2>2, <2>3, <2>4 DEF RowsInv, InRows
<1>3. CASE PageDone
  <2>1. doing = "page_end"
    BY <1>0, <1>3 DEF PageDone, Runs
  <2>2. \E r \in Results : Answer(r) /\ (r = "cancelled" => flag)
    BY <1>3 DEF PageDone, Printed, Results
  <2>3. Answered'
    BY <1>0, <2>1, <2>2, WireAnswers DEF HasCallback, Answered
  <2>4. doing' = "page_end" /\ pc' = "end page"
    BY <1>0, <2>1, Places
  <2> QED
    BY <2>3, <2>4 DEF RowsInv, InRows
<1> QED
  BY <1>1, <1>2, <1>3, RowsCollected

\* A call has just been made: there is no answer.
LEMMA Unanswered ==
  ASSUME Queues, WireInv, Flags, ~Waiting, NEW m \in Commands, Call(m),
         m.cmd = "lines" => m.rows = held', UNCHANGED session, fd' /\ alive'
  PROVE  fd /\ alive /\ ~Answered' /\ doing' = m.cmd
<1>1. Answers' = {} /\ ret' = "none"
  BY WireCalls
<1> QED
  BY <1>1 DEF Answered, Call, Send, Flags

\* A row written goes behind the last one.
LEMMA RowsWritten ==
  ASSUME Queues, Flags, Numbers, Buffer, Buffer', Pages, CallInv, WireInv, RowsInv, WriteLine
  PROVE  RowsInv'
<1> SUFFICES ASSUME fd', alive', ~failed' PROVE RowsInv'
  <2>1. pc' = "rows" /\ doing' \in {"none", "lines"}
    BY DEF WriteLine, At, Keep, Call
  <2> QED
    BY <2>1 DEF RowsInv, InRows
<1>1. /\ pc = "rows" /\ doing = "none" /\ y' = y + 1 /\ ~Waiting
      /\ UNCHANGED <<pc, page, failed, canceled, pageIn, got, session>>
  BY CallsRest DEF WriteLine, At, Keep, session
<1>2. fd /\ alive /\ doing' \in {"none", "lines"} /\ ~(doing' = "lines" /\ Answered')
  <2>1. CASE Call([cmd |-> "lines", rows |-> held'])
    <3>1. [cmd |-> "lines", rows |-> held'] \in Commands
      BY Kinds DEF Buffer
    <3> QED
      BY <1>1, <2>1, <3>1, Unanswered
  <2>2. CASE UNCHANGED <<doing, ret, calling, socket>>
    BY <1>1, <2>2 DEF socket
  <2> QED
    BY <2>1, <2>2 DEF WriteLine
<1>3. /\ pageIn /\ Starts /\ Follows(Len(got)) /\ Len(got) + Len(held) <= y
      /\ ~canceled => Len(got) + Len(held) = y
  BY <1>1, <1>2 DEF RowsInv, InRows, Flags
<1>4. Len(got) \in Nat /\ Len(held) \in Nat /\ y \in Nat
  BY LenProperties, JobAssumption DEF Buffer, Pages, Numbers, RowSeqs
<1>5. /\ Follows(Len(got))' /\ Len(got') + Len(held') <= y'
      /\ ~canceled' => Len(got') + Len(held') = y'
  <2>1. CASE canceled
    <3>1. held' = held
      BY <2>1 DEF WriteLine
    <3>2. Follows(Len(got))'
      BY <1>1, <1>3, <3>1 DEF Follows
    <3>3. Len(got') + Len(held') <= y'
      BY <1>1, <1>3, <1>4, <3>1
    <3> QED
      BY <1>1, <2>1, <3>2, <3>3
  <2>2. CASE ~canceled
    <3>1. held' = Append(held, <<page, y + 1>>)
      BY <1>1, <2>2 DEF WriteLine
    <3>2. /\ Len(held') = Len(held) + 1 /\ held'[Len(held) + 1] = <<page, y + 1>>
          /\ \A i \in 1 .. Len(held) : held'[i] = held[i]
      BY <3>1, AppendProperties DEF Buffer, RowSeqs
    <3>3. Len(got) + Len(held) = y
      BY <1>3, <2>2
    <3>4. Len(got') + Len(held') = y'
      BY <1>1, <1>4, <3>2, <3>3
    <3>5. Follows(Len(got))'
      <4> SUFFICES ASSUME NEW i \in 1 .. Len(held') PROVE held'[i] = <<page, Len(got) + i>>
        BY <1>1 DEF Follows
      <4>1. CASE i \in 1 .. Len(held)
        BY <1>3, <3>2, <4>1 DEF Follows
      <4>2. CASE i = Len(held) + 1
        <5>1. y + 1 = Len(got) + i
          BY <1>4, <3>3, <4>2
        <5> QED
          BY <3>2, <4>2, <5>1
      <4> QED
        BY <1>4, <3>2, <4>1, <4>2
    <3>6. Len(got') + Len(held') <= y'
      BY <1>1, <1>4, <3>4
    <3> QED
      BY <3>4, <3>5, <3>6
  <2> QED
    BY <2>1, <2>2
<1>6. pageIn' /\ Starts' /\ pc' = "rows" /\ doing' \notin {"page_begin", "page_end"}
  BY <1>1, <1>2, <1>3 DEF Starts
<1> QED
  BY <1>1, <1>2, <1>5, <1>6 DEF RowsInv

\* A page starts with no rows in the bridge and none in the buffer.
LEMMA RowsBegin ==
  ASSUME Queues, Words, Flags, Numbers, Buffer, Pages, CallInv, PageInv, WireInv, RowsInv, BeginEnds
  PROVE  RowsInv'
<1>1. /\ doing = "page_begin" /\ doing' = "none"
      /\ pc' = "rows" => ret = "ok"
      /\ UNCHANGED <<page, y, held, failed, fd, alive, pageIn, got>>
  BY DEF BeginEnds, Returned, NoCall, EndsWith, Tells, Keep, pappl, socket, session
<1>2. y = 0 /\ held = <<>>
  BY <1>1, Places DEF PageInv
<1>3. CASE fd /\ alive /\ pc' = "rows"
  <2>1. pageIn' /\ got' = <<>> /\ held' = <<>> /\ y' = 0
    BY <1>1, <1>2, <1>3 DEF RowsInv, Accepted
  <2>2. Len(got') = 0 /\ Len(held') = 0 /\ Starts' /\ Follows(Len(got))'
    BY <2>1, EmptyRows DEF Starts, Follows
  <2>3. Len(got') + Len(held') = y' /\ Len(got') + Len(held') <= y'
    BY <2>1, <2>2
  <2> QED
    BY <1>1, <1>3, <2>1, <2>2, <2>3 DEF RowsInv
<1>4. CASE pc' = "ended" \/ ~(fd /\ alive)
  BY <1>1, <1>4, RowsAway
<1> QED
  BY <1>3, <1>4 DEF BeginEnds, EndsWith

\* flush_rows leaves the buffer empty and the rows in the bridge.
LEMMA RowsLines ==
  ASSUME Queues, Words, Flags, Numbers, Buffer, Pages, CallInv, PageInv, WireInv, RowsInv, LinesEnd
  PROVE  RowsInv'
<1>1. /\ doing = "lines" /\ Answered /\ doing' = "none" /\ pc = "rows" /\ held' = <<>>
      /\ UNCHANGED <<pc, page, y, canceled, fd, alive, pageIn, got>>
  BY DEF LinesEnd, Returned, Answered, NoCall, Keep, pappl, socket, session
<1>2. ~failed
  BY <1>1 DEF PageInv
<1>3. CASE fd /\ alive
  <2>1. /\ pageIn /\ Starts /\ Len(got) <= y /\ (~canceled => Len(got) = y)
    BY <1>1, <1>2, <1>3 DEF RowsInv, InRows
  <2>2. Len(got) \in Nat /\ Len(held') = 0
    BY <1>1, EmptyRows, LenProperties DEF Pages, RowSeqs
  <2>3. Len(got') + Len(held') = Len(got)
    BY <1>1, <2>2
  <2>4. Starts' /\ Follows(Len(got))'
    BY <1>1, <2>1, <2>2 DEF Starts, Follows
  <2> QED
    BY <1>1, <1>3, <2>1, <2>3, <2>4 DEF RowsInv
<1> QED
  BY <1>1, <1>3, RowsAway

\* The rows of a page that ends are all in the bridge or in the buffer.
LEMMA RowsPageEnds ==
  ASSUME Queues, Words, Flags, Numbers, Buffer, Pages, CallInv, PageInv, WireInv, RowsInv, EndPage
  PROVE  RowsInv'
<1>1. pc = "rows" /\ doing = "none" /\ ~Waiting /\ UNCHANGED <<page, y, held, failed, session>>
  BY CallsRest DEF EndPage, PageFails, Tells, At, Keep, pappl
<1>2. CASE pc' \in {"between", "ended"} /\ doing' = doing
  BY <1>1, <1>2, RowsAway
<1>3. ASSUME pc' = "end page", ~canceled, ~failed,
             Call(IF held # <<>> THEN LinesMsg ELSE Msg("page_end")), fd', alive'
      PROVE  RowsInv'
  <2> DEFINE m == IF held # <<>> THEN LinesMsg ELSE Msg("page_end")
  <2>1. /\ m \in Commands /\ (m.cmd = "lines" => m.rows = held')
        /\ m.cmd = IF held # <<>> THEN "lines" ELSE "page_end"
    BY <1>1, Kinds DEF Buffer, LinesMsg, Cmds, Msg
  <2>2. fd /\ alive /\ ~Answered' /\ doing' = m.cmd
    <3>1. Call(m) /\ UNCHANGED session
      BY <1>1, <1>3
    <3> HIDE DEF m
    <3> QED
      BY <1>1, <1>3, <2>1, <3>1, Unanswered
  <2>3. /\ pageIn /\ Starts /\ Follows(Len(got)) /\ Len(got) + Len(held) <= y
        /\ Len(got) + Len(held) = y
    BY <1>1, <1>3, <2>2 DEF RowsInv, InRows, Flags
  <2>4. UNCHANGED <<page, y, held, pageIn, got>>
    BY <1>1 DEF session
  <2>5. Starts' /\ Follows(Len(got))' /\ pageIn'
    BY <2>3, <2>4 DEF Starts, Follows
  <2>6. held = <<>> => Len(got) = y
    <3>1. held = <<>> => Len(held) = 0
      BY EmptyRows
    <3>2. Len(got) \in Nat
      BY LenProperties DEF Pages, RowSeqs
    <3> QED
      BY <2>3, <3>1, <3>2
  <2>7. CASE held # <<>>
    BY <1>3, <2>1, <2>2, <2>3, <2>4, <2>5, <2>7 DEF RowsInv, Accepted, Answered
  <2>8. CASE held = <<>>
    BY <1>3, <2>1, <2>2, <2>4, <2>5, <2>6, <2>8 DEF RowsInv, InRows
  <2> QED
    BY <2>7, <2>8
<1> QED
  BY <1>1, <1>2, <1>3, RowsAway DEF EndPage, PageFails

\* The rows of a page that is about to end are all in the bridge.
LEMMA RowsFlushed ==
  ASSUME Queues, Words, Flags, Numbers, Buffer, Pages, CallInv, PageInv, WireInv, RowsInv, FlushEnds
  PROVE  RowsInv'
<1>1. /\ pc = "end page" /\ doing = "lines" /\ Answered /\ ~Waiting
      /\ UNCHANGED <<page, y, session, pageIn, got>>
  BY CallsRest DEF FlushEnds, PageFails, Tells, Returned, Answered, Keep, pappl, session
<1>2. CASE pc' \in {"between", "ended"} /\ doing' = "none"
  BY <1>2, RowsAway
<1>3. ASSUME pc' = pc, Call(Msg("page_end")), fd', alive'
      PROVE  RowsInv'
  <2>1. fd /\ alive /\ ~Answered' /\ doing' = "page_end"
    <3>1. Msg("page_end") \in Commands /\ Msg("page_end").cmd = "page_end"
      BY Kinds DEF Cmds
    <3> QED
      BY <1>1, <1>3, <3>1, Unanswered
  <2>2. pageIn /\ Starts /\ Len(got) = y
    BY <1>1, <2>1 DEF RowsInv, InRows, Flags
  <2>3. pageIn' /\ Starts' /\ Len(got') = y'
    BY <1>1, <2>2 DEF Starts
  <2> QED
    BY <1>1, <1>3, <2>1, <2>3 DEF RowsInv, InRows
<1> QED
  BY <1>2, <1>3, RowsAway DEF FlushEnds, PageFails, NoCall

LEMMA RowsStep ==
  ASSUME Queues, Words, Flags, Numbers, Buffer, Buffer', Pages, CallInv, PageInv, WireInv,
         CancelInv, RowsInv, [Next]_vars
  PROVE  RowsInv'
<1>1. CASE Device \/ StartJob \/ JobStarted \/ StartPage \/ PageConnected
  <2>1. /\ pc' \in {"closed", "opening", "closing", "idle", "start job", "between", "start page", "ended"}
        /\ doing' \in {"none", "open", "close", "wait_ready"}
    <3>1. CASE Device
      BY <3>1 DEF Device, OpenDevice, DeviceOpened, CloseDevice, DeviceClosed, Dial, Connects, Refused,
         Call, Msg, NoCall
    <3>2. CASE StartJob \/ JobStarted
      BY <3>2 DEF StartJob, JobStarted, Connects, Refused, NoCall, EndsWith, At
    <3>3. CASE StartPage
      BY <3>3 DEF StartPage, Dial, Connects, Refused, Call, Msg
    <3>4. CASE PageConnected
      <4>1. pc = "start page"
        BY <3>4 DEF PageConnected, EndsWith, Returned, Words, CallInv
      <4> QED
        BY <3>4, <4>1 DEF PageConnected, Call, Msg, NoCall, EndsWith
    <3> QED
      BY <1>1, <3>1, <3>2, <3>3, <3>4
  <2> QED
    BY <2>1, RowsAway
<1>2. CASE ReadyEnds
  <2>1. pc = "start page" /\ ~Waiting /\ UNCHANGED session
    BY <1>2, Places, CallsRest DEF ReadyEnds, Returned, Keep
  <2>2. CASE Call(Msg("page_begin")) /\ UNCHANGED pc /\ fd' /\ alive'
    <3>1. Msg("page_begin") \in Commands /\ Msg("page_begin").cmd = "page_begin"
      BY Kinds DEF Cmds
    <3>2. ~Answered' /\ doing' = "page_begin"
      BY <2>1, <2>2, <3>1, Unanswered
    <3>3. ~Accepted'
      BY <3>2 DEF Accepted, Answered
    <3> QED
      BY <2>1, <2>2, <3>2, <3>3 DEF RowsInv, InRows
  <2>3. CASE NoCall /\ EndsWith(~canceled)
    BY <2>3, RowsAway DEF NoCall, EndsWith
  <2> QED
    BY <1>2, <2>2, <2>3, RowsAway DEF ReadyEnds
<1>3. CASE BeginEnds \/ WriteLine \/ LinesEnd \/ EndPage \/ FlushEnds
  BY <1>3, RowsBegin, RowsWritten, RowsLines, RowsPageEnds, RowsFlushed
<1>4. CASE PageEnds \/ NoMorePages \/ EndJob
  <2>1. pc' \in {"between", "ended", "idle"} /\ doing' = "none"
    BY <1>4 DEF PageEnds, NoMorePages, EndJob, NoCall, PageFails, EndsWith, At
  <2> QED
    BY <2>1, RowsAway
<1>5. CASE Passing
  <2>1. fd' /\ alive' => fd /\ alive /\ (Answered' <=> Answered) /\ (Accepted' => Accepted)
    BY <1>5, PassingSocket, PassingReplies DEF Flags, Accepted
  <2> QED
    BY <1>5, <2>1, PassingKeeps, PassingSocket, RowsFrame
<1>6. CASE Waited \/ Begun \/ Collected \/ PageDone \/ Acknowledged
  BY <1>6, RowsSession
<1>7. CASE BridgeStops
  BY <1>7, RowsAway DEF BridgeStops
<1> QED
  BY <1>1, <1>2, <1>3, <1>4, <1>5, <1>6, <1>7 DEF Next, Job, Session, Passing
-----------------------------------------------------------------------------
(* The pages printed.                                                       *)

\* All rows of this page in their order are this page.
LEMMA SheetIsPage ==
  ASSUME Pages, Starts, Len(got) = Rows
  PROVE  got = Whole(page)
<1>1. got \in Seq((1 .. MaxPages) \X (1 .. Rows))
  BY DEF Pages, RowSeqs
<1>2. got = [i \in 1 .. Rows |-> got[i]]
  BY <1>1
<1> QED
  BY <1>2 DEF Starts, Whole

\* A page that is printed is the page of the call.
LEMMA PagePrints ==
  ASSUME Queues, Words, Flags, Pages, CallInv, PageInv, WireInv, CancelInv, RowsInv, PageDone
  PROVE  \E r \in Results :
           /\ Answer(r) /\ (r = "cancelled" => flag)
           /\ printed' = IF r = "ok" THEN printed \cup {Whole(page)} ELSE printed
           /\ trouble' \in {trouble, "now"}
           /\ r = "error" => trouble' = "now" \/ y # Rows
<1>1. alive /\ pending # <<>> /\ pending[1].cmd = "page_end"
  BY DEF PageDone, Runs
<1>2. doing = "page_end"
  BY <1>1, PageCommand
<1>3. pageIn /\ Starts /\ Len(got) = y
  BY <1>1, <1>2, PageCommand
<1>4. CASE y = Rows
  <2>1. got = Whole(page)
    BY <1>3, <1>4, SheetIsPage
  <2>2. PICK r \in {"ok", "cancelled", "error"} : Printed(r) /\ Answer(r)
    BY <1>3, <1>4 DEF PageDone
  <2> QED
    BY <2>1, <2>2 DEF Printed, Results
<1>5. CASE y # Rows
  <2>1. Answer("error") /\ UNCHANGED <<printed, trouble>>
    BY <1>3, <1>5 DEF PageDone
  <2> QED
    BY <1>5, <2>1 DEF Results
<1> QED
  BY <1>4, <1>5

LEMMA PrintedGrows ==
  ASSUME [Next]_vars
  PROVE  printed \subseteq printed'
<1>1. CASE Device
  BY <1>1 DEF Device, OpenDevice, DeviceOpened, CloseDevice, DeviceClosed, Idle
<1>2. CASE Job
  <2>1. CASE StartJob \/ JobStarted \/ StartPage \/ PageConnected \/ ReadyEnds \/ BeginEnds
    BY <2>1 DEF StartJob, JobStarted, StartPage, PageConnected, ReadyEnds, BeginEnds, Keep
  <2>2. CASE WriteLine \/ LinesEnd \/ EndPage \/ FlushEnds \/ PageEnds \/ NoMorePages \/ EndJob
    BY <2>2 DEF WriteLine, LinesEnd, EndPage, FlushEnds, PageEnds, NoMorePages, EndJob, Keep
  <2> QED
    BY <1>2, <2>1, <2>2 DEF Job
<1>3. CASE Passing
  BY <1>3, PassingKeeps
<1>4. CASE Waited \/ Begun \/ Collected \/ PageDone \/ Acknowledged
  BY <1>4 DEF Waited, Begun, Collected, PageDone, Acknowledged, Printed
<1>5. CASE BridgeStops
  BY <1>5 DEF BridgeStops
<1> QED
  BY <1>1, <1>2, <1>3, <1>4, <1>5 DEF Next, Session, Passing

\* An ok is put on its way with the sheet printed.
LEMMA PrintedStep ==
  ASSUME Queues, Words, Flags, Pages, CallInv, PageInv, WireInv, CancelInv, RowsInv, PrintedInv,
         [Next]_vars
  PROVE  PrintedInv'
<1>1. CASE Device \/ Job
  <2> SUFFICES ASSUME doing' = "page_end" PROVE ~Answered' \/ (ret' = "error" /\ ~fd')
    BY DEF PrintedInv, Answered
  <2>1. Call(Msg("page_end")) /\ ~Waiting /\ UNCHANGED session
    <3>1. CASE EndPage
      <4>1. Call(IF held # <<>> THEN LinesMsg ELSE Msg("page_end")) /\ ~Waiting /\ UNCHANGED session
        BY <3>1, CallsRest DEF EndPage, At, Keep
      <4>2. held = <<>>
        BY <4>1 DEF Call, LinesMsg
      <4> QED
        BY <4>1, <4>2
    <3>2. CASE FlushEnds
      BY <3>2, CallsRest DEF FlushEnds, NoCall, Keep
    <3>3. CASE Device
      BY <3>3 DEF Device, OpenDevice, DeviceOpened, CloseDevice, DeviceClosed, Dial, Connects, Refused,
         Call, Msg, NoCall
    <3>4. CASE StartJob \/ JobStarted \/ StartPage \/ PageConnected
      BY <3>4 DEF StartJob, JobStarted, StartPage, PageConnected, Dial, Connects, Refused, Call, Msg,
         NoCall, At
    <3>5. CASE ReadyEnds \/ BeginEnds \/ WriteLine \/ LinesEnd \/ PageEnds
      BY <3>5 DEF ReadyEnds, BeginEnds, WriteLine, LinesEnd, PageEnds, Call, Msg, NoCall, At
    <3>6. CASE NoMorePages \/ EndJob
      BY <3>6 DEF NoMorePages, EndJob, At
    <3> QED
      BY <1>1, <3>1, <3>2, <3>3, <3>4, <3>5, <3>6 DEF Job
  <2>2. Msg("page_end") \in Commands /\ Msg("page_end").cmd = "page_end"
    BY Kinds DEF Cmds
  <2>3. CASE fd' /\ alive'
    BY <2>1, <2>2, <2>3, Unanswered
  <2>4. CASE ~(fd' /\ alive')
    BY <2>1, <2>4 DEF Call, Send, Flags, WireInv
  <2> QED
    BY <2>3, <2>4
<1>2. CASE Passing
  <2> SUFFICES ASSUME doing' = "page_end"
               PROVE  /\ ret' = "ok" => Whole(page) \in printed
                      /\ fd' => \A i \in Answers' : down'[i].result = "ok" => Whole(page) \in printed
    BY <1>2, PassingKeeps DEF PrintedInv, Whole
  <2>1. doing = "page_end"
    BY <1>2, PassingKeeps
  <2>2. fd' => \A i \in Answers' : \E j \in Answers : down'[i] = down[j]
    BY <1>2, PassingReplies
  <2>3. ret' = "ok" => ret = "ok" \/ (fd /\ \E j \in Answers : down[j].result = "ok")
    <3>1. CASE ReadEof
      BY <3>1 DEF ReadEof
    <3>2. CASE ReadReply
      BY <3>2, WireReadReply DEF ReadReply
    <3>3. CASE ~ReadEof /\ ~ReadReply
      BY <1>2, <3>3 DEF Passing, Reading, ReadEvent, Tick, Callback, TakeAbort, TakeCommand, PushEvent,
         Cancel, Others, vars, thread
    <3> QED
      BY <3>1, <3>2, <3>3
  <2> QED
    BY <1>2, <2>1, <2>2, <2>3, PassingSocket DEF PrintedInv
<1>3. CASE Waited \/ Begun \/ Collected \/ Acknowledged
  <2>1. alive /\ pending # <<>> /\ pending[1].cmd # "page_end" /\ doing' = doing
    BY <1>3 DEF Waited, Begun, Collected, Acknowledged, Runs, Answer, Others, thread
  <2>2. doing' # "page_end"
    BY <2>1, PageCommand
  <2> QED
    BY <2>2 DEF PrintedInv
<1>4. CASE PageDone
  <2>1. PICK r \in Results : /\ Answer(r) /\ (r = "cancelled" => flag)
                             /\ r = "ok" => printed' = printed \cup {Whole(page)}
    BY <1>4, PagePrints
  <2>2. alive /\ pending # <<>> /\ pending[1].cmd = "page_end"
    BY <1>4 DEF PageDone, Runs
  <2>3. HasCallback
    BY <2>2, PageCommand DEF HasCallback
  <2>4. ret' = "none" /\ (\A i \in Answers' : down'[i].result = r) /\ page' = page
    BY <2>1, <2>2, <2>3, WireAnswers DEF Answer, Others, pappl
  <2> QED
    BY <2>1, <2>4 DEF PrintedInv, Whole
<1>5. CASE BridgeStops
  <2>1. UNCHANGED <<doing, ret, page, fd, down, printed>>
    BY <1>5 DEF BridgeStops, thread, pappl
  <2>2. Answers' = Answers /\ Whole(page') = Whole(page)
    BY <2>1 DEF Answers
  <2> QED
    BY <2>1, <2>2 DEF PrintedInv, Whole
<1> QED
  BY <1>1, <1>2, <1>3, <1>4, <1>5 DEF Next, Session, Passing
-----------------------------------------------------------------------------
(* What failed, and why.                                                    *)

LEMMA TroublePassing ==
  ASSUME Queues, Flags, WireInv, CancelInv, TroubleInv, Passing
  PROVE  TroubleInv'
<1>1. UNCHANGED <<pc, failed, errors, trouble, alive>> /\ (fd' => fd) /\ (fd /\ alive => fd')
  BY PassingKeeps, PassingSocket
<1>2. /\ fd' => \A i \in Answers' : \E j \in Answers : down'[i] = down[j]
      /\ \/ ret' = ret
         \/ fd /\ \E j \in Answers : ret' = down[j].result
         \/ fd /\ ~alive /\ ~fd'
  BY PassingReplies
<1>3. InJob' <=> InJob
  BY <1>1 DEF InJob
<1>4. InJob /\ ret' = "error" => trouble # "no"
  BY <1>2 DEF TroubleInv, LinkTrouble
<1>5. InJob /\ fd' => \A i \in Answers' : down'[i].result = "error" => trouble # "no"
  BY <1>1, <1>2 DEF TroubleInv, LinkTrouble
<1>6. LinkTrouble'
  BY <1>1, <1>3, <1>4, <1>5 DEF TroubleInv, LinkTrouble
<1> QED
  BY <1>1, <1>6 DEF TroubleInv

\* The session refuses a page when it begins or when its raster was short, and
\* no rows of it: the other errors are the printer's.
LEMMA TroubleSession ==
  ASSUME Queues, Words, Flags, Numbers, Buffer, Pages, CallInv, PageInv, WireInv, CancelInv, RowsInv,
         TroubleInv, ShortInv, Waited \/ Begun \/ Collected \/ PageDone \/ Acknowledged
  PROVE  TroubleInv'
<1>1. alive /\ pending # <<>>
  BY DEF Waited, Begun, Collected, PageDone, Acknowledged, Runs
<1>2. \E r \in Results : /\ Answer(r) /\ (r = "cancelled" => flag /\ HasCallback)
                         /\ r = "error" => trouble' # "no"
                         /\ trouble' \in {trouble, "now"}
  <2>1. CASE Waited
    <3>1. HasCallback
      BY <1>1, <2>1, PageCommand DEF Waited, Runs, HasCallback
    <3> QED
      BY <2>1, <3>1 DEF Waited, Results
  <2>2. CASE PageDone
    <3>1. HasCallback /\ pc = "end page"
      BY <1>1, <2>2, PageCommand DEF PageDone, Runs, HasCallback
    <3> QED
      BY <2>2, <3>1, PagePrints DEF ShortInv
  <2>3. CASE Collected
    BY <2>3, RowsCollected DEF Collected, Results
  <2>4. CASE Begun \/ Acknowledged
    BY <2>4 DEF Begun, Acknowledged, Results
  <2> QED
    BY <2>1, <2>2, <2>3, <2>4
<1>3. PICK r \in Results : /\ Answer(r) /\ (r = "cancelled" => flag /\ HasCallback)
                           /\ r = "error" => trouble' # "no"
                           /\ trouble' \in {trouble, "now"}
  BY <1>2
<1>4. ret' = "none" /\ \A i \in Answers' : down'[i].result = r
  BY <1>1, <1>3, WireAnswers
<1>5. UNCHANGED <<pc, failed, errors, fd, alive>>
  BY <1>3 DEF Answer, Others, thread, pj, pappl
<1>6. InJob' <=> InJob
  BY <1>5 DEF InJob
<1>7. LinkTrouble'
  BY <1>3, <1>4, <1>5, <1>6 DEF TroubleInv, LinkTrouble
<1> QED
  BY <1>3, <1>5, <1>7 DEF TroubleInv

LEMMA TroubleDevice ==
  ASSUME TroubleInv, Flags, Device
  PROVE  TroubleInv'
<1>1. ~InJob'
  BY DEF Device, OpenDevice, DeviceOpened, CloseDevice, DeviceClosed, InJob
<1>2. UNCHANGED <<failed, errors>> /\ trouble' \in {trouble, "now"}
  BY DEF Device, OpenDevice, DeviceOpened, CloseDevice, DeviceClosed, Dial, Refused, Idle, pj, pappl
<1>3. fd' /\ ~alive' => (fd /\ ~alive) \/ trouble' = "now"
  BY DEF Device, OpenDevice, DeviceOpened, CloseDevice, DeviceClosed, Dial, Connects, Refused,
     Call, Send, CloseSocket, socket, Flags
<1> QED
  BY <1>1, <1>2, <1>3 DEF TroubleInv, LinkTrouble

\* The job calls, or goes on after a call.
LEMMA LinkCalls ==
  ASSUME Queues, Flags, WireInv, TroubleInv, InJob, ~Waiting, NEW m \in Commands, Call(m),
         m.cmd = "lines" => m.rows = held', UNCHANGED session, trouble' \in {trouble, "now"}
  PROVE  LinkTrouble'
<1>1. CASE fd /\ alive
  <2>1. fd' /\ alive' /\ ret' = "none" /\ Answers' = {}
    BY <1>1, WireCalls DEF Call, Send, Flags
  <2> QED
    BY <2>1 DEF LinkTrouble
<1>2. CASE ~(fd /\ alive)
  BY <1>2 DEF TroubleInv, LinkTrouble
<1> QED
  BY <1>1, <1>2

\* No call, and nothing under way.
LEMMA LinkRests ==
  ASSUME WireInv, TroubleInv, InJob, ~Waiting, ret' = "none",
         UNCHANGED <<fd, alive, down>>, trouble' \in {trouble, "now"}
  PROVE  LinkTrouble'
<1>1. fd' => Answers' = {}
  BY Quiet DEF Answers
<1> QED
  BY <1>1 DEF TroubleInv, LinkTrouble

\* The job is over.
LEMMA LinkGone ==
  ASSUME ~InJob', ~fd'
  PROVE  LinkTrouble'
BY DEF LinkTrouble

\* A new connection, or none and the reason for it.
LEMMA LinkDials ==
  ASSUME WireInv, Flags, ~Waiting, (Connects /\ UNCHANGED trouble) \/ Refused
  PROVE  LinkTrouble'
<1>1. CASE Connects
  <2>1. fd' /\ alive' /\ ret' = "none"
    BY <1>1 DEF Connects
  <2>2. Answers' = {}
    BY <1>1, <2>1, WireDials
  <2> QED
    BY <2>1, <2>2 DEF LinkTrouble
<1>2. CASE Refused
  BY <1>2 DEF Refused, LinkTrouble
<1> QED
  BY <1>1, <1>2

\* A call that failed, and was not canceled, had a reason to.
LEMMA FailsForReason ==
  ASSUME Words, CancelInv, TroubleInv, InJob, ret \notin {"ok", "none"},
         ~HasCallback \/ ~canceled \/ ret # "cancelled"
  PROVE  trouble # "no"
<1>1. ret = "error"
  BY DEF Words, Results, CancelInv
<1> QED
  BY <1>1 DEF TroubleInv, LinkTrouble

LEMMA TroubleJob ==
  ASSUME Queues, Words, Flags, Flags', Buffer, Buffer', CallInv, PageInv, WireInv, CancelInv,
         TroubleInv, Job
  PROVE  TroubleInv'
<1> USE DEF TroubleInv
<1>0. \A k \in {"wait_ready", "page_begin", "page_end"} :
        Msg(k) \in Commands /\ Msg(k).cmd # "lines"
  BY Kinds DEF Cmds
<1>1. CASE StartJob
  <2>1. /\ pc = "idle" /\ doing = "none" /\ ret = "none" /\ ~Waiting /\ ~failed
        /\ failed' = failed /\ errors' = FALSE
    BY <1>1, CallsRest DEF StartJob, At, pj, PageInv
  <2>2. CASE fd /\ UNCHANGED <<doing, ret, calling, socket, session>>
    <3>1. trouble' = IF alive THEN "no" ELSE "before"
      BY <1>1, <2>2 DEF StartJob
    <3>2. fd /\ Answers' = {} /\ ret' = "none" /\ UNCHANGED <<fd, alive>>
      BY <2>1, <2>2, Quiet DEF Answers, socket
    <3> QED
      BY <2>1, <3>1, <3>2 DEF LinkTrouble
  <2>3. CASE ~fd /\ ((Connects /\ trouble' = "no") \/ Refused)
    <3>1. LinkTrouble'
      <4>1. CASE Connects
        <5>1. fd' /\ alive' /\ ret' = "none" /\ Answers' = {}
          BY <2>1, <4>1, WireDials DEF Connects
        <5> QED
          BY <5>1 DEF LinkTrouble
      <4>2. CASE Refused
        BY <4>2 DEF Refused, LinkTrouble
      <4> QED
        BY <2>3, <4>1, <4>2
    <3> QED
      BY <2>1, <3>1
  <2> QED
    BY <1>1, <2>2, <2>3 DEF StartJob
<1>2. CASE JobStarted
  <2>1. /\ InJob /\ ~Waiting /\ ~HasCallback /\ NoCall /\ UNCHANGED <<failed, trouble>>
        /\ ret # "none"
    BY <1>2, CallsRest DEF JobStarted, InJob, HasCallback, Returned, pj
  <2>2. CASE ret = "ok"
    <3>1. UNCHANGED <<fd, alive, down, errors>> /\ ret' = "none"
      BY <1>2, <2>2 DEF JobStarted, socket, pappl, NoCall
    <3> QED
      BY <2>1, <3>1, LinkRests
  <2>3. CASE ret # "ok"
    <3>1. ~fd' /\ ~InJob'
      BY <1>2, <2>3 DEF JobStarted, EndsWith, CloseSocket, InJob
    <3>2. trouble # "no"
      BY <2>1, <2>3, FailsForReason
    <3> QED
      BY <2>1, <3>1, <3>2, LinkGone
  <2> QED
    BY <2>2, <2>3
<1>3. CASE StartPage
  <2>1. InJob /\ ~Waiting /\ errors' = errors /\ (failed' = failed \/ ~failed')
    BY <1>3, CallsRest DEF StartPage, InJob, At, ResetPage, pj
  <2>2. CASE Call(Msg("wait_ready")) /\ UNCHANGED <<session, trouble>>
    BY <1>0, <2>1, <2>2, LinkCalls
  <2>3. CASE Dial
    <3>1. trouble' \in {trouble, "now"} /\ LinkTrouble'
      BY <2>1, <2>3, LinkDials DEF Dial, Refused
    <3> QED
      BY <2>1, <3>1
  <2> QED
    BY <1>3, <2>2, <2>3 DEF StartPage
<1>4. CASE PageConnected
  <2>1. /\ InJob /\ ~Waiting /\ ~HasCallback /\ UNCHANGED <<session, trouble>> /\ ret # "none"
        /\ failed' = failed \/ ~failed'
    BY <1>4, CallsRest DEF PageConnected, InJob, HasCallback, Returned, Keep, ResetPage, pj
  <2>2. CASE Call(Msg("wait_ready")) /\ UNCHANGED pappl
    BY <1>0, <2>1, <2>2, LinkCalls DEF pappl
  <2>3. CASE ret # "ok" /\ EndsWith(TRUE) /\ CloseSocket
    <3>1. ~fd' /\ ~InJob'
      BY <2>3 DEF EndsWith, CloseSocket, InJob
    <3>2. trouble # "no"
      BY <2>1, <2>3, FailsForReason
    <3> QED
      BY <2>1, <3>1, <3>2, LinkGone
  <2> QED
    BY <1>4, <2>2, <2>3 DEF PageConnected
<1>5. CASE ReadyEnds
  <2>1. /\ InJob /\ ~Waiting /\ UNCHANGED <<session, trouble, failed>> /\ ret # "none"
    BY <1>5, CallsRest, Places DEF ReadyEnds, InJob, Returned, Keep, pj
  <2>2. CASE Call(Msg("page_begin")) /\ UNCHANGED pappl
    BY <1>0, <2>1, <2>2, LinkCalls DEF pappl
  <2>3. CASE ret # "ok" /\ NoCall /\ EndsWith(~canceled) /\ UNCHANGED socket
    <3>1. ~canceled => trouble # "no"
      BY <2>1, <2>3, FailsForReason
    <3>2. errors' => errors \/ ~canceled
      BY <2>3 DEF EndsWith, Tells
    <3>3. LinkTrouble'
      BY <2>1, <2>3, LinkRests DEF NoCall, socket
    <3> QED
      BY <2>1, <3>1, <3>2, <3>3
  <2> QED
    BY <1>5, <2>2, <2>3 DEF ReadyEnds
<1>6. CASE BeginEnds
  <2>1. /\ InJob /\ ~Waiting /\ ~HasCallback /\ ret # "none" /\ ret' = "none"
        /\ UNCHANGED <<fd, alive, down, trouble, failed>>
    BY <1>6, CallsRest, Places DEF BeginEnds, InJob, HasCallback, Returned, NoCall, Keep, socket
  <2>2. LinkTrouble'
    BY <2>1, LinkRests
  <2>3. CASE ret = "ok"
    BY <1>6, <2>1, <2>2, <2>3 DEF BeginEnds, pappl
  <2>4. CASE ret # "ok"
    BY <2>1, <2>2, <2>4, FailsForReason
  <2> QED
    BY <2>3, <2>4
<1>7. CASE WriteLine
  <2>1. /\ InJob /\ ~Waiting /\ doing = "none" /\ ret = "none"
        /\ UNCHANGED <<session, trouble, failed, errors>>
    BY <1>7, CallsRest DEF WriteLine, InJob, At, Keep
  <2>2. CASE Call([cmd |-> "lines", rows |-> held'])
    <3>1. [cmd |-> "lines", rows |-> held'] \in Commands
      BY Kinds DEF Buffer
    <3> QED
      BY <2>1, <2>2, <3>1, LinkCalls
  <2>3. CASE UNCHANGED <<doing, ret, calling, socket>>
    BY <2>1, <2>3, LinkRests DEF socket
  <2> QED
    BY <1>7, <2>2, <2>3 DEF WriteLine
<1>8. CASE LinesEnd
  <2>1. /\ InJob /\ ~Waiting /\ ~HasCallback /\ ret # "none" /\ ret' = "none"
        /\ UNCHANGED <<fd, alive, down, trouble, errors>> /\ failed' = (ret # "ok")
    BY <1>8, CallsRest DEF LinesEnd, InJob, HasCallback, Returned, NoCall, Keep, socket, pappl
  <2>2. LinkTrouble'
    BY <2>1, LinkRests
  <2>3. failed' => trouble # "no"
    BY <2>1, FailsForReason
  <2> QED
    BY <2>1, <2>2, <2>3
<1>9. CASE EndPage
  <2>1. /\ InJob /\ ~Waiting /\ doing = "none" /\ ret = "none"
        /\ UNCHANGED <<session, failed, held>> /\ trouble' \in {trouble, "now"}
    BY <1>9, CallsRest DEF EndPage, InJob, At, Keep
  <2>2. errors' => errors \/ failed
    BY <1>9 DEF EndPage, pappl, Flags
  <2>3. CASE Call(LinesMsg)
    <3>1. LinesMsg \in Commands /\ LinesMsg.rows = held'
      BY <2>1, Kinds DEF Buffer, LinesMsg
    <3> QED
      BY <2>1, <2>2, <2>3, <3>1, LinkCalls
  <2>4. CASE Call(Msg("page_end"))
    BY <1>0, <2>1, <2>2, <2>4, LinkCalls
  <2>5. CASE UNCHANGED <<doing, ret, calling, socket>>
    BY <2>1, <2>2, <2>5, LinkRests DEF socket
  <2> QED
    BY <1>9, <2>3, <2>4, <2>5 DEF EndPage
<1>10. CASE FlushEnds
  <2>1. /\ InJob /\ ~Waiting /\ ~HasCallback /\ ret # "none" /\ UNCHANGED <<session, trouble>>
    BY <1>10, CallsRest DEF FlushEnds, InJob, HasCallback, Returned, Keep
  <2>2. CASE Call(Msg("page_end")) /\ UNCHANGED <<failed, pappl>>
    BY <1>0, <2>1, <2>2, LinkCalls DEF pappl
  <2>3. CASE ret # "ok" /\ NoCall /\ UNCHANGED socket
    <3>1. trouble # "no"
      BY <2>1, <2>3, FailsForReason
    <3>2. LinkTrouble'
      BY <2>1, <2>3, LinkRests DEF NoCall, socket
    <3> QED
      BY <2>1, <3>1, <3>2
  <2> QED
    BY <1>10, <2>2, <2>3 DEF FlushEnds
<1>11. CASE PageEnds
  <2>1. /\ InJob /\ ~Waiting /\ ret # "none" /\ ret' = "none"
        /\ UNCHANGED <<fd, alive, down, trouble, failed>>
    BY <1>11, CallsRest, Places DEF PageEnds, InJob, Returned, NoCall, Keep, socket, pj
  <2>2. LinkTrouble'
    BY <2>1, LinkRests
  <2>3. errors' => errors \/ (ret # "ok" /\ ret # "cancelled")
    BY <1>11 DEF PageEnds, PageFails, Tells
  <2>4. errors' => trouble # "no"
    BY <2>1, <2>3, FailsForReason
  <2> QED
    BY <2>1, <2>2, <2>4
<1>12. CASE NoMorePages
  <2>1. InJob /\ ~Waiting /\ ret = "none"
    BY <1>12, CallsRest DEF NoMorePages, At, InJob
  <2>2. UNCHANGED <<ret, fd, alive, down, trouble, failed>> /\ (errors' => errors)
    BY <1>12 DEF NoMorePages, EndsWith, Tells, pj, socket
  <2> QED
    BY <2>1, <2>2, LinkRests
<1>13. CASE EndJob
  <2>1. ~InJob' /\ UNCHANGED <<fd, alive, errors, trouble>> /\ ~failed'
    BY <1>13 DEF EndJob, InJob, ResetPage, pappl, socket, faults
  <2> QED
    BY <2>1 DEF LinkTrouble
<1> QED
  BY <1>1, <1>2, <1>3, <1>4, <1>5, <1>6, <1>7, <1>8, <1>9, <1>10, <1>11, <1>12, <1>13 DEF Job

LEMMA TroubleStep ==
  ASSUME Queues, Words, Flags, Flags', Numbers, Buffer, Buffer', Pages, CallInv, PageInv, WireInv,
         CancelInv, RowsInv, TroubleInv, ShortInv, [Next]_vars
  PROVE  TroubleInv'
<1>1. CASE BridgeStops
  BY <1>1 DEF BridgeStops, TroubleInv, LinkTrouble
<1> QED
  BY <1>1, TroubleDevice, TroubleJob, TroublePassing, TroubleSession DEF Next, Session, Passing
-----------------------------------------------------------------------------
(* What becomes of the pages of a job.                                      *)

LEMMA ShortStep ==
  ASSUME Words, Numbers, CallInv, ShortInv, [Next]_vars
  PROVE  ShortInv'
<1>1. CASE EndPage
  <2>1. /\ y < Rows /\ ~canceled => trouble' = "now"
        /\ pc' = "end page" => ~canceled /\ y' = y
    BY <1>1 DEF EndPage, PageFails, pappl
  <2>2. y < Rows \/ y = Rows
    BY JobAssumption DEF Numbers
  <2> QED
    BY <2>1, <2>2 DEF ShortInv
<1>2. CASE Device \/ (Job /\ ~EndPage)
  <2>1. pc' = "end page" => pc = "end page" /\ UNCHANGED <<y, trouble>>
    BY <1>2 DEF Device, OpenDevice, DeviceOpened, CloseDevice, DeviceClosed, Job, StartJob, JobStarted,
       StartPage, PageConnected, ReadyEnds, BeginEnds, WriteLine, LinesEnd, FlushEnds, PageEnds,
       NoMorePages, EndJob, EndsWith, PageFails, Tells, Returned, At, CallInv, pappl
  <2> QED
    BY <2>1 DEF ShortInv
<1>3. CASE Passing
  BY <1>3, PassingKeeps DEF ShortInv
<1>4. CASE Waited \/ Begun \/ Collected \/ PageDone \/ Acknowledged
  <2>1. UNCHANGED <<pc, y>>
    BY <1>4, SessionFrame DEF Session
  <2>2. trouble' \in {trouble, "now"}
    BY <1>4 DEF Waited, Begun, Collected, PageDone, Acknowledged, Printed
  <2> QED
    BY <2>1, <2>2 DEF ShortInv
<1>5. CASE BridgeStops
  BY <1>5 DEF BridgeStops, ShortInv, thread, pappl
<1> QED
  BY <1>1, <1>2, <1>3, <1>4, <1>5 DEF Next, Session, Passing

\* Steps that leave the report alone.
LEMMA ReportFrame ==
  ASSUME ReportInv, UNCHANGED <<pc, page, first, errors, believed>>, canceled => canceled'
  PROVE  ReportInv'
BY DEF ReportInv

\* The page is over and lost, but not in silence.
LEMMA ReportLost ==
  ASSUME pc' \in {"between", "ended"}, errors' \/ canceled'
  PROVE  ReportInv'
BY DEF ReportInv

\* A job that has not begun a page has none to answer for.
LEMMA NoPageYet ==
  ASSUME Numbers, first = page + 1
  PROVE  first .. page = {}
BY JobAssumption DEF Numbers

\* A page that ends is printed, canceled or reported.
LEMMA ReportJob ==
  ASSUME Words, Flags, Numbers, CallInv, CancelInv, ReportInv, Job
  PROVE  ReportInv'
<1>1. CASE StartJob
  <2>1. first' = page + 1 /\ page' = page /\ pc' \in {"between", "start job"}
    BY <1>1 DEF StartJob
  <2>2. first' .. page' = {} /\ first' = page' + 1
    <3>1. page \in Nat
      BY JobAssumption DEF Numbers
    <3>2. page + 1 .. page = {}
      BY <3>1
    <3> QED
      BY <2>1, <3>2
  <2> QED
    BY <2>1, <2>2 DEF ReportInv
<1>2. CASE JobStarted
  <2>1. CASE pc' = "between" /\ UNCHANGED pappl
    <3>1. pc = "start job"
      BY <1>2 DEF JobStarted
    <3>2. first .. page = {} /\ UNCHANGED <<first, page>>
      BY <2>1, <3>1, NoPageYet DEF ReportInv, pappl
    <3> QED
      BY <2>1, <3>2 DEF ReportInv
  <2>2. CASE EndsWith(TRUE)
    BY <2>2, ReportLost DEF EndsWith, Tells
  <2> QED
    BY <1>2, <2>1, <2>2 DEF JobStarted
<1>3. CASE StartPage
  <2>1. /\ pc = "between" /\ pc' = "start page" /\ page' = page + 1 /\ ~canceled
        /\ UNCHANGED <<first, errors, believed>>
    BY <1>3 DEF StartPage, At
  <2>2. page' - 1 = page
    <3>1. page \in Nat
      BY JobAssumption DEF Numbers
    <3>2. (page + 1) - 1 = page
      BY <3>1
    <3> QED
      BY <2>1, <3>2
  <2> QED
    BY <2>1, <2>2 DEF ReportInv
<1>4. CASE PageConnected \/ ReadyEnds \/ BeginEnds
  <2>1. pc = "start page"
    BY <1>4, Places DEF PageConnected, ReadyEnds, BeginEnds, Returned
  <2>2. CASE UNCHANGED <<pc, pappl>>
    BY <2>2, ReportFrame DEF pappl
  <2>3. CASE EndsWith(TRUE) \/ EndsWith(~canceled)
    <3>1. errors' \/ canceled'
      BY <2>3 DEF EndsWith, Tells, Flags
    <3> QED
      BY <2>3, <3>1, ReportLost DEF EndsWith
  <2>4. CASE pc' = "rows" /\ UNCHANGED pappl
    BY <2>1, <2>4 DEF ReportInv, pappl
  <2> QED
    BY <1>4, <2>2, <2>3, <2>4 DEF PageConnected, ReadyEnds, BeginEnds
<1>5. CASE WriteLine \/ LinesEnd
  BY <1>5, ReportFrame DEF WriteLine, LinesEnd, pappl
<1>6. CASE EndPage
  <2>1. CASE canceled /\ pc' = "between" /\ UNCHANGED pappl
    BY <2>1, ReportLost DEF pappl
  <2>2. CASE PageFails(TRUE)
    BY <2>2, ReportLost DEF PageFails, Tells
  <2>3. CASE pc' = "end page" /\ UNCHANGED pappl
    BY <1>6, <2>3 DEF EndPage, At, ReportInv, pappl
  <2> QED
    BY <1>6, <2>1, <2>2, <2>3 DEF EndPage
<1>7. CASE FlushEnds
  <2>1. CASE UNCHANGED <<pc, pappl>>
    BY <2>1, ReportFrame DEF pappl
  <2>2. CASE PageFails(TRUE)
    BY <2>2, ReportLost DEF PageFails, Tells
  <2> QED
    BY <1>7, <2>1, <2>2 DEF FlushEnds
<1>8. CASE PageEnds
  <2>1. CASE ret = "ok"
    <3>1. /\ pc = "end page" /\ pc' = "between" /\ believed' = believed \cup {page}
          /\ UNCHANGED <<page, first, canceled, errors>>
      BY <1>8, <2>1, Places DEF PageEnds, Returned
    <3>2. first .. page \subseteq (first .. page - 1) \cup {page}
      BY JobAssumption DEF Numbers
    <3>3. errors \/ canceled \/ first .. page - 1 \subseteq believed
      BY <3>1 DEF ReportInv
    <3>4. errors' \/ canceled' \/ first' .. page' \subseteq believed'
      BY <3>1, <3>2, <3>3
    <3> QED
      BY <3>1, <3>4 DEF ReportInv
  <2>2. CASE ret # "ok"
    <3>1. PageFails(ret # "cancelled")
      BY <1>8, <2>2 DEF PageEnds
    <3>2. ret = "cancelled" => canceled
      BY DEF CancelInv
    <3> QED
      BY <3>1, <3>2, ReportLost DEF PageFails, Tells
  <2> QED
    BY <2>1, <2>2
<1>9. CASE NoMorePages
  BY <1>9 DEF NoMorePages, At, EndsWith, Tells, ReportInv
<1>10. CASE EndJob
  BY <1>10 DEF EndJob, ReportInv
<1> QED
  BY <1>1, <1>2, <1>3, <1>4, <1>5, <1>6, <1>7, <1>8, <1>9, <1>10 DEF Job

LEMMA ReportStep ==
  ASSUME Words, Flags, Numbers, CallInv, CancelInv, ReportInv, [Next]_vars
  PROVE  ReportInv'
<1>1. CASE Device
  BY <1>1 DEF Device, OpenDevice, DeviceOpened, CloseDevice, DeviceClosed, ReportInv
<1>2. CASE Passing
  BY <1>2, PassingKeeps, PassingSocket, ReportFrame
<1>3. CASE Waited \/ Begun \/ Collected \/ PageDone \/ Acknowledged
  BY <1>3, ReportFrame DEF Waited, Begun, Collected, PageDone, Acknowledged, Answer, Others, thread, pappl
<1>4. CASE BridgeStops
  BY <1>4, ReportFrame DEF BridgeStops, thread, pappl
<1> QED
  BY <1>1, <1>2, <1>3, <1>4, ReportJob DEF Next, Session, Passing

-----------------------------------------------------------------------------
(* The invariant and the theorems.                                          *)

\* A page printed is whole, and a page is believed printed on an ok of page_end.
LEMMA PagesWholeStep ==
  ASSUME Queues, Words, Flags, Numbers, Pages, CallInv, PageInv, WireInv, CancelInv, RowsInv,
         PrintedInv, PagesWhole, [Next]_vars
  PROVE  PagesWhole'
<1>1. page \in Nat /\ page' \in Nat /\ page <= page'
  <2>1. page' = page \/ page' = page + 1
    <3>1. CASE Device \/ Reading \/ Session \/ Cancel \/ BridgeStops \/ UNCHANGED vars
      BY <3>1, SessionFrame DEF Device, OpenDevice, DeviceOpened, CloseDevice, DeviceClosed, Idle, Reading,
         ReadEvent, Tick, Callback, ReadReply, ReadEof, Cancel, BridgeStops, vars, pappl
    <3>2. CASE Job
      BY <3>2 DEF Job, StartJob, JobStarted, StartPage, PageConnected, ReadyEnds, BeginEnds, WriteLine,
         LinesEnd, EndPage, FlushEnds, PageEnds, NoMorePages, EndJob, EndsWith, PageFails, Tells, pappl
    <3> QED
      BY <3>1, <3>2 DEF Next
  <2> QED
    BY <2>1, JobAssumption DEF Numbers
<1>2. 1 .. page \subseteq 1 .. page'
  BY <1>1
<1>3. \A r \in printed' : r \in printed \/ (r = Whole(page) /\ page \in 1 .. page)
  <2>1. CASE PageDone
    <3>1. pc = "end page"
      BY <2>1, PageCommand DEF PageDone, Runs
    <3>2. page > 0
      BY <3>1 DEF PageInv
    <3>3. page \in 1 .. page
      BY <1>1, <3>2
    <3> QED
      BY <2>1, <3>3, PagePrints
  <2>2. CASE ~PageDone
    <3>1. printed' = printed
      <4>1. CASE Device
        BY <4>1 DEF Device, OpenDevice, DeviceOpened, CloseDevice, DeviceClosed, Idle
      <4>2. CASE Job
        BY <4>2 DEF Job, StartJob, JobStarted, StartPage, PageConnected, ReadyEnds, BeginEnds, WriteLine,
           LinesEnd, EndPage, FlushEnds, PageEnds, NoMorePages, EndJob, Keep
      <4>3. CASE Passing
        BY <4>3, PassingKeeps
      <4>4. CASE Waited \/ Begun \/ Collected \/ Acknowledged \/ BridgeStops
        BY <4>4 DEF Waited, Begun, Collected, Acknowledged, BridgeStops
      <4> QED
        BY <2>2, <4>1, <4>2, <4>3, <4>4 DEF Next, Session, Passing
    <3> QED
      BY <3>1
  <2> QED
    BY <2>1, <2>2
<1>4. \A p \in believed' : p \in believed \/ Whole(p) \in printed
  <2>1. CASE PageEnds
    BY <2>1 DEF PageEnds, PageFails, Tells, Returned, PrintedInv
  <2>2. CASE ~PageEnds
    <3>1. believed' = believed
      <4>1. CASE Device \/ Reading \/ Session \/ Cancel \/ BridgeStops \/ UNCHANGED vars
        BY <4>1, SessionFrame DEF Device, OpenDevice, DeviceOpened, CloseDevice, DeviceClosed, Idle, Reading,
           ReadEvent, Tick, Callback, ReadReply, ReadEof, Cancel, BridgeStops, vars, pappl
      <4>2. CASE Job
        BY <2>2, <4>2 DEF Job, StartJob, JobStarted, StartPage, PageConnected, ReadyEnds, BeginEnds, WriteLine,
           LinesEnd, EndPage, FlushEnds, NoMorePages, EndJob, EndsWith, PageFails, Tells, pappl
      <4> QED
        BY <4>1, <4>2 DEF Next
    <3> QED
      BY <3>1
  <2> QED
    BY <2>1, <2>2
<1>5. printed \subseteq printed'
  BY PrintedGrows
<1>6. \A p : Whole(p)' = Whole(p)
  BY DEF Whole
<1> QED
  BY <1>2, <1>3, <1>4, <1>5, <1>6 DEF PagesWhole

\* The invariant the theorems rest on.
IInv == /\ Basics /\ WireInv /\ CancelInv
        /\ RowsInv /\ PrintedInv /\ PagesWhole /\ TroubleInv /\ ShortInv /\ ReportInv

LEMMA Inductive ==
  /\ Init => IInv
  /\ IInv /\ [Next]_vars => IInv'
<1>1. ASSUME Init PROVE IInv
  <2>1. Basics
    BY <1>1, InitInv DEF Basics
  <2>2. ~fd /\ ~alive /\ ret = "none" /\ pc = "closed" /\ doing = "none" /\ ~failed /\ ~errors
    BY <1>1 DEF Init
  <2>3. WireInv /\ CancelInv /\ RowsInv /\ PrintedInv /\ TroubleInv /\ ShortInv /\ ReportInv
    BY <2>2 DEF WireInv, CancelInv, RowsInv, PrintedInv, TroubleInv, LinkTrouble, InJob, ShortInv,
       ReportInv
  <2>4. PagesWhole
    BY <1>1 DEF Init, PagesWhole
  <2> QED
    BY <2>1, <2>3, <2>4 DEF IInv
<1>2. ASSUME IInv, [Next]_vars PROVE IInv'
  <2>1. /\ Words /\ Flags /\ Numbers /\ Buffer /\ Queues /\ Pages /\ CallInv /\ PageInv
        /\ WireInv /\ CancelInv /\ RowsInv /\ PrintedInv /\ PagesWhole /\ TroubleInv /\ ShortInv
        /\ ReportInv
    BY <1>2 DEF IInv, Basics, Lists
  <2>2. Words' /\ Flags' /\ Numbers' /\ Pages' /\ CallInv'
    BY <1>2, <2>1, WordsStep, FlagsStep, NumbersStep, PagesStep, CallStep
  <2>3. Buffer'
    BY <1>2, <2>1, <2>2, BufferStep
  <2>4. Queues' /\ PageInv'
    BY <1>2, <2>1, <2>2, <2>3, QueuesStep, PageInvStep
  <2>5. WireInv' /\ CancelInv'
    BY <1>2, <2>1, <2>3, WireStep
  <2>6. RowsInv' /\ PrintedInv' /\ PagesWhole'
    BY <1>2, <2>1, <2>3, RowsStep, PrintedStep, PagesWholeStep
  <2>7. TroubleInv' /\ ShortInv' /\ ReportInv'
    BY <1>2, <2>1, <2>2, <2>3, TroubleStep, ShortStep, ReportStep
  <2> QED
    BY <2>2, <2>3, <2>4, <2>5, <2>6, <2>7 DEF IInv, Basics, Lists
<1> QED
  BY <1>1, <1>2

LEMMA Always == Spec => []IInv
BY Inductive, PTL DEF Spec

\* The variables of job.c, of its socket and of the session keep their types: a
\* full buffer is flushed before the next row, and what a call takes for its reply
\* answers that very call, whatever aborts and acknowledgements cross it.
THEOREM JobTypes == Spec => []TypeOK
<1>1. ASSUME IInv PROVE TypeOK
  <2>1. ASSUME fd, NEW i \in 1 .. Len(down), down[i] \in Replies
        PROVE  ret = "none" /\ down[i].cmd = doing
    <3>1. i \in Answers
      BY <2>1, Kinds DEF Answers
    <3> QED
      BY <1>1, <2>1, <3>1 DEF IInv, WireInv, Waiting
  <2> QED
    BY <1>1, <2>1, TypesAre DEF IInv, Basics
<1> QED
  BY <1>1, Always, PTL

\* Only whole pages come out: what lines commands carried, one by one, is the page
\* the callbacks wrote, and no row of a canceled or failed page gets into the next
\* one, on the same connection or a new one; what is believed printed is.
THEOREM PagesAreWhole == Spec => []PagesWhole
<1>1. IInv => PagesWhole
  BY DEF IInv
<1> QED
  BY <1>1, Always, PTL

\* A page is never lost in silence, and a job is in error only when the bridge or
\* the printer failed it, or its raster was short: whatever the order of a cancel, the events, the aborts
\* and the replies that cross them, and wherever the bridge stops.
THEOREM LossesAreReported == Spec => []LossIsReported
<1>1. IInv => LossIsReported
  BY DEF IInv, TroubleInv, ReportInv, LossIsReported
<1> QED
  BY <1>1, Always, PTL
-----------------------------------------------------------------------------
(* What a call waits for.                                                   *)

\* The command, its run or its reply.
UnderWay == pending # <<>> \/ Sent # {} \/ Answers # {}

\* A call on a connection that is up has something to wait for.
ServedInv == Waiting /\ alive => UnderWay

\* Only the first message can be an event, and while it is, or its callback
\* runs, the connection is up.
EventInv ==
  /\ Waiting => fd
  /\ calling => alive
  /\ fd => /\ down # <<>> /\ Head(down) = EVENT => alive
           /\ \A i \in 2 .. Len(down) : down[i] # EVENT

\* The callbacks make a call, open a connection, end a call, or do neither.
LEMMA CallbackSteps ==
  ASSUME Buffer, Buffer', CallInv, Device \/ Job
  PROVE  /\ ~Waiting
         /\ \/ \E m \in Commands : Call(m)
            \/ Connects \/ Refused
            \/ NoCall /\ (UNCHANGED socket \/ CloseSocket)
            \/ UNCHANGED <<doing, ret, calling, socket>>
<1>0. \A k \in {"wait_ready", "page_begin", "page_end", "close"} : Msg(k) \in Commands
  BY Kinds DEF Cmds
<1>1. CASE Device
  BY <1>0, <1>1, CallsRest DEF Device, OpenDevice, Dial, DeviceOpened, CloseDevice, DeviceClosed
<1>2. CASE StartJob \/ JobStarted
  BY <1>2, CallsRest DEF StartJob, JobStarted
<1>3. CASE StartPage
  BY <1>0, <1>3, CallsRest DEF StartPage, Dial
<1>4. CASE PageConnected \/ ReadyEnds
  BY <1>0, <1>4, CallsRest DEF PageConnected, ReadyEnds
<1>5. CASE BeginEnds \/ LinesEnd \/ PageEnds
  BY <1>5, CallsRest DEF BeginEnds, LinesEnd, PageEnds
<1>6. CASE WriteLine
  <2>1. [cmd |-> "lines", rows |-> held'] \in Commands
    BY Kinds DEF Buffer
  <2> QED
    BY <1>6, <2>1, CallsRest DEF WriteLine
<1>7. CASE EndPage
  <2>1. LinesMsg \in Commands
    BY Kinds DEF Buffer, LinesMsg
  <2> QED
    BY <1>0, <1>7, <2>1, CallsRest DEF EndPage
<1>8. CASE FlushEnds
  BY <1>0, <1>8, CallsRest DEF FlushEnds
<1>9. CASE NoMorePages \/ EndJob
  BY <1>9, CallsRest DEF NoMorePages, EndJob
<1> QED
  BY <1>1, <1>2, <1>3, <1>4, <1>5, <1>6, <1>7, <1>8, <1>9 DEF Job

\* A call that is made waits only if its command went out.
LEMMA CallsWait ==
  ASSUME Queues, Flags, ~Waiting,
         \/ \E m \in Commands : Call(m)
         \/ Connects \/ Refused
         \/ NoCall /\ (UNCHANGED socket \/ CloseSocket)
         \/ UNCHANGED <<doing, ret, calling, socket>>
  PROVE  /\ calling' = calling
         /\ Waiting' => fd' /\ alive' /\ Sent' # {}
         /\ fd' => down' = <<>> \/ (fd /\ UNCHANGED <<alive, down>>)
<1>1. ASSUME NEW m \in Commands, Call(m)
      PROVE  /\ calling' = calling
             /\ Waiting' => fd' /\ alive' /\ Sent' # {}
             /\ fd' => fd /\ UNCHANGED <<alive, down>>
  <2>1. CASE fd /\ alive
    <3>1. up' = Append(up, m) /\ fd' /\ alive' = alive /\ down' = down /\ calling' = calling
      BY <1>1, <2>1 DEF Call, Send, Flags
    <3>2. Len(up') \in 1 .. Len(up') /\ up'[Len(up')] = m
      BY <3>1, AppendProperties, LenProperties DEF Queues
    <3>3. Len(up') \in Sent'
      BY <3>2, Kinds DEF Sent, Commands, Cmds
    <3> QED
      BY <2>1, <3>1, <3>3
  <2>2. CASE ~(fd /\ alive)
    <3>1. ~fd' /\ ret' = "error" /\ calling' = calling
      BY <1>1, <2>2 DEF Call, Send
    <3> QED
      BY <3>1 DEF Waiting
  <2> QED
    BY <2>1, <2>2
<1>2. CASE Connects
  <2>1. up' = <<Msg("open")>> /\ fd' /\ alive' /\ down' = <<>> /\ calling' = calling
    BY <1>2 DEF Connects
  <2>2. 1 \in Sent'
    BY <2>1 DEF Sent, Msg
  <2> QED
    BY <2>1, <2>2
<1>3. CASE Refused
  BY <1>3 DEF Refused, Waiting, socket
<1>4. CASE NoCall /\ (UNCHANGED socket \/ CloseSocket)
  BY <1>4 DEF NoCall, CloseSocket, Waiting, socket
<1>5. CASE UNCHANGED <<doing, ret, calling, socket>>
  BY <1>5 DEF Waiting, socket
<1> QED
  BY <1>1, <1>2, <1>3, <1>4, <1>5

\* The session takes a command to run it, and answers what it ran; what it sends
\* goes behind what it sent, an event only when nothing is there.
LEMMA SessionServes ==
  ASSUME Queues, WireInv, ServedInv, Session
  PROVE  /\ ServedInv' /\ alive /\ UNCHANGED <<doing, ret, calling, fd, alive>>
         /\ \/ down' \in {down, <<EVENT>>}
            \/ \E m \in Replies \cup {ACK} : down' = Append(down, m)
<1>1. alive /\ UNCHANGED <<doing, ret, calling, fd, alive>>
  BY SessionFrame DEF Session, TakeAbort, TakeCommand, PushEvent, Waited, Begun, Collected,
     PageDone, Acknowledged, Runs, Others, Answer, thread
<1>2. CASE TakeAbort
  <2>1. up # <<>> /\ Head(up) = Msg("abort") /\ up' = Tail(up) /\ down' = Append(down, ACK)
        /\ pending' = pending
    BY <1>2 DEF TakeAbort
  <2>2. Answers \subseteq Answers'
    BY <2>1, DownAppend
  <2>3. ASSUME NEW i \in Sent PROVE i - 1 \in Sent'
    <3>1. /\ Head(up) = up[1] /\ Len(up) \in Nat \ {0} /\ Len(up') = Len(up) - 1
          /\ \A j \in 1 .. Len(up) - 1 : up'[j] = up[j + 1]
      BY <2>1, Heads DEF Queues
    <3>2. i \in 1 .. Len(up) /\ up[i].cmd # "abort"
      BY DEF Sent
    <3>3. i # 1
      BY <2>1, <3>1, <3>2 DEF Msg
    <3> QED
      BY <3>1, <3>2, <3>3 DEF Sent
  <2> QED
    BY <1>1, <2>1, <2>2, <2>3 DEF ServedInv, UnderWay, Waiting
<1>3. CASE TakeCommand
  <2>1. CASE pending = <<>>
    <3>1. pending' = <<Head(up)>> /\ down' = down
      BY <1>3, <2>1 DEF TakeCommand
    <3>2. <<Head(up)>> # <<>>
      OBVIOUS
    <3> QED
      BY <1>1, <3>1, <3>2 DEF ServedInv, UnderWay
  <2>2. CASE pending # <<>>
    <3>1. /\ pending' = pending /\ up # <<>> /\ Head(up) # Msg("abort")
          /\ down' = Append(down, [cmd |-> Head(up).cmd, result |-> "error"])
      BY <1>3, <2>2 DEF TakeCommand
    <3>2. Head(up) \in Commands
      BY <3>1, Heads DEF Queues
    <3>3. [cmd |-> Head(up).cmd, result |-> "error"] \in Replies
      BY <3>2 DEF Commands, Replies, Results
    <3> QED
      BY <1>1, <2>2, <3>1, <3>3 DEF ServedInv, UnderWay
  <2> QED
    BY <2>1, <2>2
<1>4. CASE PushEvent
  <2>1. pending' = pending /\ pending # <<>> /\ down' = <<EVENT>>
    BY <1>4 DEF PushEvent, Runs, session
  <2> QED
    BY <1>1, <2>1 DEF ServedInv, UnderWay
<1>5. CASE Waited \/ Begun \/ Collected \/ PageDone \/ Acknowledged
  <2>1. pending # <<>> /\ \E r \in Results : Answer(r)
    BY <1>5 DEF Waited, Begun, Collected, PageDone, Acknowledged, Runs, Results
  <2>2. PICK r \in Results : Answer(r)
    BY <2>1
  <2> DEFINE m == [cmd |-> pending[1].cmd, result |-> r]
  <2>3. pending[1] \in Commands
    BY <1>1, <2>1, Running
  <2>4. m \in Replies
    BY <2>3 DEF Replies, Commands
  <2>5. down' = Append(down, m)
    BY <2>2 DEF Answer
  <2>6. Len(down) + 1 \in Answers'
    BY <2>4, <2>5, DownAppend
  <2> QED
    BY <1>1, <2>4, <2>5, <2>6 DEF ServedInv, UnderWay
<1> QED
  BY <1>2, <1>3, <1>4, <1>5 DEF Session

\* Reading loses no reply that the call waits for.
LEMMA ReadingServes ==
  ASSUME Queues, Flags, WireInv, CancelInv, ServedInv, Reading
  PROVE  ServedInv'
<1>1. CASE ReadEvent
  <2>1. UNCHANGED <<doing, ret, alive, up, pending>>
    BY <1>1 DEF ReadEvent, session
  <2> QED
    BY <1>1, <2>1, WireReadEvent DEF ServedInv, UnderWay, Waiting, Sent
<1>2. CASE Tick
  BY <1>2 DEF Tick, ServedInv, UnderWay, Waiting, Sent, Answers, socket, session
<1>3. CASE Callback
  <2>1. UNCHANGED <<doing, ret, alive, down, pending>>
    BY <1>3 DEF Callback, Send, socket, session
  <2>2. up' = up \/ up' = Append(up, Msg("abort"))
    BY <1>3 DEF Callback, Send, socket
  <2>3. Sent \subseteq Sent'
    BY <2>2, UpAppend DEF Sent
  <2> QED
    BY <2>1, <2>3 DEF ServedInv, UnderWay, Waiting, Answers
<1>4. CASE ReadReply
  <2>1. UNCHANGED <<doing, alive, up, pending>>
    BY <1>4 DEF ReadReply, session
  <2>2. CASE Head(down) = ACK /\ ret' = ret /\ (Answers' = {} <=> Answers = {})
    BY <2>1, <2>2 DEF ServedInv, UnderWay, Waiting, Sent
  <2>3. CASE Head(down) \in Replies /\ ret' = down[1].result
    <3>1. ret' # "none"
      BY <1>4, <2>3, Heads DEF ReadReply, Replies, Results, Queues
    <3> QED
      BY <3>1 DEF ServedInv, Waiting
  <2> QED
    BY <1>4, <2>2, <2>3, WireReadReply
<1>5. CASE ReadEof
  BY <1>5 DEF ReadEof, ServedInv, Waiting
<1> QED
  BY <1>1, <1>2, <1>3, <1>4, <1>5 DEF Reading

LEMMA ServedStep ==
  ASSUME IInv, IInv', ServedInv, [Next]_vars
  PROVE  ServedInv'
<1>1. Queues /\ Flags /\ Buffer /\ Buffer' /\ CallInv /\ WireInv /\ CancelInv
  BY DEF IInv, Basics, Lists
<1>2. CASE Device \/ Job
  BY <1>1, <1>2, CallbackSteps, CallsWait DEF ServedInv, UnderWay
<1>3. CASE Reading \/ Session
  BY <1>1, <1>3, ReadingServes, SessionServes
<1>4. CASE BridgeStops
  BY <1>4 DEF BridgeStops, ServedInv
<1>5. CASE Cancel \/ UNCHANGED vars
  BY <1>5 DEF Cancel, vars, thread, socket, session, ServedInv, UnderWay, Waiting, Sent, Answers
<1> QED
  BY <1>2, <1>3, <1>4, <1>5 DEF Next

LEMMA EventStep ==
  ASSUME ~StopsInCallback, IInv, IInv', ServedInv, EventInv, [Next]_vars
  PROVE  EventInv'
<1>1. Queues /\ Queues' /\ Flags /\ Buffer /\ Buffer' /\ CallInv /\ WireInv /\ CancelInv
  BY DEF IInv, Basics, Lists
<1>2. CASE Device \/ Job
  <2>1. ~calling
    BY <1>1, <1>2, CallbackSteps DEF CallInv
  <2>2. /\ calling' = calling
        /\ Waiting' => fd'
        /\ fd' => down' = <<>> \/ (fd /\ UNCHANGED <<alive, down>>)
    BY <1>1, <1>2, CallbackSteps, CallsWait
  <2>3. CASE down' = <<>>
    BY <2>1, <2>2, <2>3 DEF EventInv
  <2>4. CASE ~fd' \/ (fd /\ UNCHANGED <<alive, down>>)
    BY <2>1, <2>2, <2>4 DEF EventInv
  <2> QED
    BY <2>2, <2>3, <2>4
<1>3. CASE Session
  <2>1. /\ alive /\ UNCHANGED <<doing, ret, calling, fd, alive>>
        /\ \/ down' \in {down, <<EVENT>>}
           \/ \E m \in Replies \cup {ACK} : down' = Append(down, m)
    BY <1>1, <1>3, SessionServes
  <2>2. ASSUME fd, NEW i \in 2 .. Len(down') PROVE down'[i] # EVENT
    <3>1. CASE down' \in {down, <<EVENT>>}
      BY <2>2, <3>1 DEF EventInv
    <3>2. ASSUME NEW m \in Replies \cup {ACK}, down' = Append(down, m)
          PROVE  down'[i] # EVENT
      <4>1. /\ Len(down) \in Nat /\ Len(down') = Len(down) + 1 /\ down'[Len(down) + 1] = m
            /\ \A j \in 1 .. Len(down) : down'[j] = down[j]
        BY <1>1, <3>2, AppendProperties, LenProperties DEF Queues
      <4>2. m # EVENT
        BY Kinds
      <4> QED
        BY <2>2, <4>1, <4>2 DEF EventInv
    <3> QED
      BY <2>1, <3>1, <3>2
  <2> QED
    BY <2>1, <2>2 DEF EventInv, Waiting
<1>4. CASE ReadEvent \/ ReadReply
  <2>1. /\ fd /\ down # <<>> /\ down' = Tail(down) /\ Waiting
        /\ UNCHANGED <<doing, fd, alive>>
    BY <1>4 DEF ReadEvent, ReadReply, Replying, Waiting
  <2>2. calling' => alive
    BY <1>4 DEF ReadEvent, ReadReply, Replying, EventInv
  <2>3. /\ Len(down) \in Nat \ {0} /\ Len(down') = Len(down) - 1
        /\ \A i \in 1 .. Len(down) - 1 : down'[i] = down[i + 1]
    BY <1>1, <2>1, Heads DEF Queues
  <2>4. \A i \in 1 .. Len(down') : i + 1 \in 2 .. Len(down) /\ down'[i] = down[i + 1]
    BY <2>3
  <2>5. \A i \in 1 .. Len(down') : down'[i] # EVENT
    BY <2>1, <2>4 DEF EventInv
  <2>6. down' # <<>> => Head(down') # EVENT
    <3> SUFFICES ASSUME down' # <<>> PROVE Head(down') # EVENT
      OBVIOUS
    <3>1. Head(down') = down'[1] /\ Len(down') \in Nat \ {0}
      BY <1>1, Heads DEF Queues
    <3> QED
      BY <2>5, <3>1
  <2>7. \A i \in 2 .. Len(down') : down'[i] # EVENT
    BY <2>3, <2>5
  <2> QED
    BY <2>1, <2>2, <2>6, <2>7 DEF EventInv
<1>5. CASE Tick
  BY <1>5 DEF Tick, Replying, Waiting, EventInv, socket
<1>6. CASE Callback
  <2>1. calling /\ alive /\ fd /\ Waiting
    BY <1>1, <1>6 DEF Callback, EventInv, CallInv
  <2>2. ~calling' /\ fd' /\ UNCHANGED <<doing, ret, alive, down>>
    BY <1>1, <1>6, <2>1 DEF Callback, Send, socket, Flags
  <2> QED
    BY <2>1, <2>2 DEF EventInv, Waiting
<1>7. CASE ReadEof
  BY <1>7 DEF ReadEof, Replying, Waiting, EventInv
<1>8. CASE BridgeStops
  <2>1. ~calling /\ ~(down # <<>> /\ Head(down) = EVENT)
        /\ UNCHANGED <<doing, ret, calling, fd, down>>
    BY <1>8 DEF BridgeStops, UnderCallback, thread
  <2> QED
    BY <2>1 DEF EventInv, Waiting
<1>9. CASE Cancel \/ UNCHANGED vars
  BY <1>9 DEF Cancel, vars, thread, socket, EventInv, Waiting
<1> QED
  BY <1>2, <1>3, <1>4, <1>5, <1>6, <1>7, <1>8, <1>9 DEF Next, Reading

LEMMA AlwaysServed == Spec => []ServedInv
<1>1. Init => ServedInv
  BY DEF Init, ServedInv, Waiting
<1>2. IInv /\ IInv' /\ ServedInv /\ [Next]_vars => ServedInv'
  BY ServedStep
<1> QED
  BY <1>1, <1>2, Always, PTL DEF Spec

\* phomemo_bridge_reply never waits on a connection that owes it nothing: while
\* the bridge is there, the command of the call is on its way, runs, or its
\* reply is on its way back, whatever aborts and acknowledgements cross them.
THEOREM CallsAreServed ==
  Spec => [](Waiting /\ alive => pending # <<>> \/ Sent # {} \/ Answers # {})
<1>1. ServedInv => (Waiting /\ alive => pending # <<>> \/ Sent # {} \/ Answers # {})
  BY DEF ServedInv, UnderWay
<1> QED
  BY <1>1, AlwaysServed, PTL

\* The loop of phomemo_bridge_reply never polls descriptor -1, when the bridge
\* does not stop between an event and the end of its callback: the abort that the
\* callback sends is then never the message that finds the connection dead.
THEOREM ReaderHasSocket ==
  ASSUME ~StopsInCallback
  PROVE  Spec => [](Waiting => fd)
<1>1. Init => EventInv
  BY DEF Init, EventInv, Waiting
<1>2. IInv /\ IInv' /\ ServedInv /\ EventInv /\ [Next]_vars => EventInv'
  BY EventStep
<1>3. EventInv => (Waiting => fd)
  BY DEF EventInv
<1> QED
  BY <1>1, <1>2, <1>3, Always, AlwaysServed, PTL DEF Spec
=============================================================================
