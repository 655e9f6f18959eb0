------------------------- MODULE PagePipeline_proofs -------------------------
(***************************************************************************)
(* Proofs about PagePipeline, for every page length, sensor distance, mute *)
(* threshold, set of faults and number of them.                            *)
(*                                                                         *)
(* IInv, the types with who calls which wait (CallerInv) and what a piece  *)
(* in the printer presupposes (PaperInv), is inductive by itself.  Three   *)
(* arguments rest on it:                                                   *)
(*                                                                         *)
(*  OkIsWhole.  What a transfer sent is on the sheet or in the printer     *)
(*  unless something was discarded and still shows (IntactInv): so the     *)
(*  answer "closed" to the query after the motor stop means a whole page.  *)
(*                                                                         *)
(*  SheetIsFresh, OnlyCancelLoses.  While only the lid and short sheets    *)
(*  trouble the page, no wait gives the sheet up before it is out          *)
(*  (CheckedInv), the connection holds (LinkedInv), a transfer's end is    *)
(*  always announced (SignalInv) and only a cancel has an answer of its    *)
(*  own (AbortInv).                                                        *)
(*                                                                         *)
(*  OneCopyPerFault.  A copy is paid for by a fault before the page is     *)
(*  printed again: while it prints the sheet inside may carry the one free *)
(*  copy (PrintingPays), before another attempt that copy is paid for too, *)
(*  and so is the one the printer may still complete from what it holds    *)
(*  (WaitingPays).  A motor stop left over from an earlier transfer ends   *)
(*  this one early only where nothing can come of it (StopInv), and pieces *)
(*  go missing without a fault only where the sheet ends (PieceInv).       *)
(*                                                                         *)
(* Of these only OkIsWhole excludes the quick lid: one that is opened and  *)
(* closed again after the last chunk is closed when the host asks, and the *)
(* page is answered ok with rows missing.                                  *)
(***************************************************************************)
EXTENDS PagePipeline, SequenceTheorems, TLAPS

NoQuickLid == "quick lid" \notin Faults

\* Who waits, and for what.
CallerInv ==
  /\ pc = "padding" => caller \in {"cancelled", "lid opened"} /\ rows < Rows
  /\ pc \in {"motor", "lid check"} => rows = Rows
  /\ pc = "lid check" => stopped
  /\ pc \in {"eject", "feeding"} => caller \in {"done", "cancelled", "short", "fresh"}
  /\ pc \in {"reconnect", "connecting"} =>
       caller \in {"short", "fresh", "lid", "ready", "settle"}

\* A piece the printer holds was sent in this transfer and will be printed.
PaperInv ==
  /\ ink + room <= Rows
  /\ buf <= rows
  /\ buf > 0 => motor
  /\ motor => Takes
  /\ pc \in {"settling", "print"} => buf = 0
  /\ ink = Rows /\ ~overprint => wholes > 0

\* TypeOK in the parts the provers take one at a time.
Flags ==
  /\ asked \in BOOLEAN
  /\ sawLid \in BOOLEAN /\ sawAbsent \in BOOLEAN /\ stopped \in BOOLEAN
  /\ abort \in BOOLEAN /\ reach \in BOOLEAN
  /\ motor \in BOOLEAN /\ ended \in BOOLEAN /\ mute \in BOOLEAN /\ behind \in BOOLEAN
  /\ overprint \in BOOLEAN

Words ==
  /\ pc \in PC /\ caller \in Callers
  /\ reply \in {"none", "ok", "cancelled", "connection lost", "error"}
  /\ client \in {"up", "dropped", "none"} /\ lid \in {"open", "closed"}

Lists == notes \in Seq({"lid", "absent", "stop"}) /\ met \subseteq Faults

Numbers ==
  /\ timeouts \in 0 .. MuteThreshold - 1 /\ inner \in 0 .. MuteThreshold
  /\ rows \in 0 .. Rows
  /\ room \in 0 .. Rows /\ ink \in 0 .. 2 * Rows /\ buf \in 0 .. Rows
  /\ wholes \in Nat /\ faults \in 0 .. MaxFaults

IInv == Flags /\ Words /\ Lists /\ Numbers /\ CallerInv /\ PaperInv

\* The pieces of this transfer are on the sheet or held, unless the lid is open,
\* the printer mute or the connection gone.
Damaged == ~Takes \/ client # "up"

IntactInv ==
  pc \in Printing =>
    \/ Damaged
    \/ overprint /\ ink + buf > rows
    \/ ~overprint /\ ink + buf = rows

DoneInv ==
  /\ pc \in {"eject", "feeding"} /\ caller = "done" => wholes > 0 /\ buf = 0
  /\ reply = "ok" => wholes > 0

WholeInv == IInv /\ IntactInv /\ DoneInv

\* This transfer has printed the whole page, or may still without the host.
Whole == IF ink = Rows /\ ~overprint THEN 1 ELSE 0
MayComplete == ~overprint /\ ink < Rows /\ ink + buf >= Rows /\ room > 0

HasStop == \E i \in 1 .. Len(notes) : notes[i] = "stop"

\* A copy is paid for by a fault as soon as the page must be printed again; every
\* further way to be cut off from the sheet has been paid for too.
PrintingPays ==
  pc \in Printing =>
    /\ wholes <= faults + Whole
    /\ client # "up" => wholes + 1 <= faults + Whole
    /\ ~Takes => wholes <= faults
    /\ lid = "open" /\ client # "up" => wholes + 1 <= faults

Paid == wholes <= faults /\ (MayComplete => wholes < faults)

WaitingPays ==
  pc \notin Printing \cup {"end"} =>
    Paid \/ (caller = "done" /\ pc \in {"eject", "feeding"} /\ wholes <= faults + 1)

EndPaid == wholes <= faults + 1 /\ (MayComplete => wholes <= faults)

EndPays == pc = "end" => EndPaid

\* Nothing more is heard in this transfer.
Dead == mute \/ client # "up"

\* A motor stop of an earlier transfer is taken for this one's only when a fault
\* has paid for the copy, or there is no sheet.
StopInv ==
  pc \in Printing \ {"padding"} /\ ~overprint /\ ~Dead /\ (stopped \/ HasStop) =>
    \/ pc # "sending" /\ buf = 0
    \/ room = 0 /\ ink = 0
    \/ wholes + 1 <= faults + Whole

\* While rows are sent the printer expects more.
EndedInv ==
  pc = "sending" /\ ~Dead /\ ended => rows = 0

\* What is already known when the next transfer is about to start.
BeforeInv ==
  /\ pc \in {"settle paper", "settling", "print"} /\ lid = "open" => wholes < faults
  /\ pc \in {"settling", "print"} => ~mute
  /\ pc \in {"settling", "print"} /\ ~Present => wholes < faults
  /\ pc \in {"settling", "print"} /\ HasStop => ink > 0 \/ room = 0 \/ wholes < faults

CopyInv == PrintingPays /\ WaitingPays /\ EndPays /\ StopInv /\ EndedInv /\ BeforeInv

\* Where the pieces are: on a fresh sheet no more than was sent; none is held once
\* the page is done; a running motor has, or had, something to do; and pieces are
\* lost in a transfer only to a fault or to the end of the sheet.
SentInv == pc \in Printing /\ ~overprint => ink + buf <= rows

RestInv == pc \in {"eject", "feeding"} /\ caller = "done" => buf = 0

RunsInv == motor => buf > 0 \/ ink > 0 \/ room = 0 \/ wholes < faults

DeafInv ==
  pc = "sending" /\ ~overprint /\ ~Takes => room = 0 \/ wholes < faults \/ rows = Rows

LossInv ==
  pc = "sending" =>
    \/ room = 0 \/ wholes < faults
    \/ overprint /\ ink > 0
    \/ ~overprint /\ ink + buf = rows

PieceInv == SentInv /\ RestInv /\ RunsInv /\ DeafInv /\ LossInv

ReadyPhase ==
  \/ pc \in {"ready", "ready paper", "settle", "settle paper"}
  \/ pc \in {"reconnect", "connecting"} /\ caller \in {"ready", "settle"}

\* An answer comes, and it is the sheet's.
Clear == Takes /\ buf = 0

CheckedInv ==
  /\ pc = "paper" \/ (pc \in {"eject", "feeding"} /\ caller = "fresh") => Clear
  /\ ReadyPhase => buf = 0 /\ (ink > 0 \/ motor => ~Present)
  /\ pc = "settle paper" => lid = "closed"
  /\ pc \in {"settling", "print"} =>
       Clear /\ ink = 0 /\ ~motor /\ Present /\ notes = <<>>

LinkedInv == reach /\ (client = "up" \/ pc = "connecting")

AbortInv ==
  /\ pc \in {"padding", "eject", "feeding"} /\ caller = "cancelled" => abort
  /\ reply \notin {"none", "ok"} => abort

\* No piece was taken yet, or the host is about to learn that the lid was opened.
Quiet ==
  \/ rows = 0 /\ lid = "closed" /\ ~mute /\ notes = <<>>
  \/ /\ rows <= 1
     /\ \/ sawLid
        \/ notes # <<>> /\ Head(notes) = "lid" /\ (behind \/ rows = 0)

SignalInv ==
  pc \in {"sending", "motor"} => motor \/ stopped \/ HasStop \/ (pc = "sending" /\ Quiet)

OrdinaryInv == LinkedInv /\ CheckedInv /\ AbortInv /\ SignalInv /\ ~overprint

OrdInv == Ordinary => OrdinaryInv

-----------------------------------------------------------------------------
(* What each group of actions leaves alone.                                 *)

\* The caller of print_bitmap sends; everything else of the world is others'.
LEMMA PrintsFrame ==
  ASSUME Prints
  PROVE  UNCHANGED <<client, reach, room, ink, wholes, mute, notes, abort, lid, met, faults>>
         /\ pc \in {"print", "sending", "padding", "motor", "lid check"}
  <1> USE DEF World, link, sheet, printer, user, troubles
  <1>1. CASE StartPrint
    BY <1>1, Zenon DEF StartPrint
  <1>2. CASE PrintNotConnected
    BY <1>2, Zenon DEF PrintNotConnected
  <1>3. CASE StopTransfer
    BY <1>3, Zenon DEF StopTransfer
  <1>4. CASE WriteRow
    BY <1>4, Zenon DEF WriteRow, MaySend
  <1>5. CASE WriteTail
    BY <1>5, Zenon DEF WriteTail, MaySend
  <1>6. CASE FinishPadding
    BY <1>6, Zenon DEF FinishPadding
  <1>7. CASE WriteFails
    BY <1>7, Zenon DEF WriteFails, MaySend
  <1>8. CASE MotorStopped
    BY <1>8, Zenon DEF MotorStopped
  <1>9. CASE CompletionTimesOut
    BY <1>9, Zenon DEF CompletionTimesOut
  <1>10. CASE LidCheck
    BY <1>10, Zenon DEF LidCheck
  <1> QED BY <1>1, <1>2, <1>3, <1>4, <1>5, <1>6, <1>7, <1>8, <1>9, <1>10 DEF Prints

LEMMA WaitFrame ==
  ASSUME Wait
  PROVE  /\ UNCHANGED <<rows, sawLid, sawAbsent, stopped, overprint, client, reach, wholes>>
         /\ UNCHANGED <<buf, motor, ended, mute, notes, behind, abort, lid, met, faults>>
  <1> USE DEF World, transfer, link, sheet, printer, user, troubles
  <1>1. CASE Ask
    BY <1>1, Zenon DEF Ask
  <1>2. CASE EjectAnswered
    BY <1>2, Zenon DEF EjectAnswered
  <1>3. CASE Feed
    BY <1>3, Zenon DEF Feed
  <1>4. CASE EjectFails
    BY <1>4, Zenon DEF EjectFails
  <1>5. CASE Cancel
    BY <1>5, Zenon DEF Cancel
  <1>6. CASE FreshConnected
    BY <1>6, Zenon DEF FreshConnected
  <1>7. CASE WatchLid
    BY <1>7, Zenon DEF WatchLid
  <1>8. CASE WatchLidFails
    BY <1>8, Zenon DEF WatchLidFails
  <1>9. CASE CheckPaper
    BY <1>9, Zenon DEF CheckPaper
  <1>10. CASE ReadyWriteFails
    BY <1>10, Zenon DEF ReadyWriteFails
  <1>11. CASE WatchReady
    BY <1>11, Zenon DEF WatchReady
  <1>12. CASE Settle
    BY <1>12, Zenon DEF Settle
  <1>13. CASE SettleTimesOut
    BY <1>13, Zenon DEF SettleTimesOut
  <1>14. CASE Settled
    BY <1>14, Zenon DEF Settled
  <1> QED BY <1>1, <1>2, <1>3, <1>4, <1>5, <1>6, <1>7, <1>8, <1>9, <1>10, <1>11,
      <1>12, <1>13, <1>14, Zenon DEF Wait

LEMMA LinkFrame ==
  ASSUME CallerInv, Link
  PROVE  /\ pc' \notin Printing
         /\ UNCHANGED <<rows, sawLid, sawAbsent, stopped, overprint, wholes, room, ink,
                        buf, motor, abort, lid, met, faults, reach, reply>>
  <1> USE DEF World, Goto, transfer, link, sheet, printer, user, troubles, Printing
  <1>1. CASE Disconnect
    BY <1>1 DEF Disconnect
  <1>2. CASE Connected
    BY <1>2 DEF Connected, AfterConnect, CallerInv
  <1>3. CASE ConnectFails
    BY <1>3 DEF ConnectFails, AfterConnect, CallerInv
  <1>4. CASE ConnectOnce
    BY <1>4 DEF ConnectOnce
  <1> QED BY <1>1, <1>2, <1>3, <1>4 DEF Link

LEMMA PrinterFrame ==
  ASSUME Printer
  PROVE  UNCHANGED <<pc, caller, asked, rows, reply, overprint, client, reach, abort, lid, met, faults>>
  <1> USE DEF HostState, transfer, link, user, troubles
  <1>1. CASE PrintRow
    BY <1>1, Zenon DEF PrintRow
  <1>2. CASE Overrun
    BY <1>2, Zenon DEF Overrun
  <1>3. CASE StopMotor
    BY <1>3, Zenon DEF StopMotor
  <1>4. CASE Deliver
    BY <1>4, Zenon DEF Deliver
  <1> QED BY <1>1, <1>2, <1>3, <1>4 DEF Printer

LEMMA UserFrame ==
  ASSUME User
  PROVE  UNCHANGED <<pc, caller, asked, rows, sawLid, sawAbsent, stopped, reply, overprint, wholes>>
  <1> USE DEF Others, HostState, transfer, sheet
  <1>1. CASE AbortArrives
    BY <1>1, Zenon DEF AbortArrives
  <1>2. CASE OpenLid
    BY <1>2, Zenon DEF OpenLid
  <1>3. CASE CloseLid
    BY <1>3, Zenon DEF CloseLid
  <1>4. CASE PullSheet
    BY <1>4, Zenon DEF PullSheet
  <1>5. CASE InsertSheet
    BY <1>5, Zenon DEF InsertSheet
  <1>6. CASE InsertShortSheet
    BY <1>6, Zenon DEF InsertShortSheet
  <1>7. CASE DropLink
    BY <1>7, Zenon DEF DropLink
  <1>8. CASE SwitchOff
    BY <1>8, Zenon DEF SwitchOff
  <1>9. CASE SwitchOn
    BY <1>9, Zenon DEF SwitchOn
  <1> QED BY <1>1, <1>2, <1>3, <1>4, <1>5, <1>6, <1>7, <1>8, <1>9 DEF User

-----------------------------------------------------------------------------
(* Types, callers and paper.                                                *)

LEMMA AskingIs == Asking = {"lid check", "lid", "ready", "settle",
                            "eject", "paper", "ready paper", "settle paper"}
  BY DEF Asking, Queries, PaperQueries

LEMMA PCIs == PC = {"lid check", "lid", "ready", "settle",
                    "eject", "paper", "ready paper", "settle paper",
                    "print", "sending", "padding", "motor", "feeding",
                    "fresh", "reconnect", "connecting", "settling", "end"}
  BY AskingIs DEF PC

LEMMA TypesAre == TypeOK <=> Flags /\ Words /\ Lists /\ Numbers
  BY DEF TypeOK, Flags, Words, Lists, Numbers

LEMMA InitIInv == Init => IInv
  <1>1. Init => Flags
    BY Zenon DEF Init, Flags
  <1>2. Init => Words
    BY PCIs DEF Init, Words, Callers
  <1>3. Init => Numbers /\ CallerInv /\ PaperInv
    BY PageAssumption DEF Init, Numbers, CallerInv, PaperInv, Takes
  <1>4. Init => Lists
    BY EmptySeq DEF Init, Lists
  <1> QED BY <1>1, <1>2, <1>3, <1>4 DEF IInv

LEMMA PrintsKeepFlags == ASSUME Flags, Prints PROVE Flags'
  <1> USE DEF Flags, Takes,
        World, Goto, Answer, counts, transfer, link, sheet, printer, user, troubles
  <1>1. CASE StartPrint
    <2>1. (ink > 0) \in BOOLEAN
      OBVIOUS
    <2>2. overprint' \in BOOLEAN
      BY <1>1, <2>1, Zenon DEF StartPrint
    <2>3. /\ asked' \in BOOLEAN
          /\ sawLid' \in BOOLEAN /\ sawAbsent' \in BOOLEAN /\ stopped' \in BOOLEAN
          /\ abort' \in BOOLEAN /\ reach' \in BOOLEAN
          /\ motor' \in BOOLEAN /\ ended' \in BOOLEAN /\ mute' \in BOOLEAN /\ behind' \in BOOLEAN
      BY <1>1, Zenon DEF StartPrint
    <2> QED BY <2>2, <2>3
  <1>2. CASE PrintNotConnected
    BY <1>2 DEF PrintNotConnected
  <1>3. CASE StopTransfer
    BY <1>3 DEF StopTransfer, MustCancel, MustStopForLid, MustGiveUpSheet
  <1>4. CASE WriteRow
    BY <1>4 DEF WriteRow, MaySend, MustCancel, MustStopForLid, MustGiveUpSheet
  <1>5. CASE WriteTail
    BY <1>5 DEF WriteTail, MaySend, MustCancel, MustStopForLid, MustGiveUpSheet
  <1>6. CASE FinishPadding
    BY <1>6 DEF FinishPadding
  <1>7. CASE WriteFails
    BY <1>7 DEF WriteFails, MaySend
  <1>8. CASE MotorStopped
    BY <1>8 DEF MotorStopped
  <1>9. CASE CompletionTimesOut
    BY <1>9 DEF CompletionTimesOut
  <1>10. CASE LidCheck
    BY <1>10, ZenonT(60) DEF LidCheck, Heard, WriteRefused, Unasked
  <1> QED BY <1>1, <1>2, <1>3, <1>4, <1>5, <1>6, <1>7, <1>8, <1>9, <1>10 DEF Prints

LEMMA LinkKeepFlags == ASSUME Flags, Link PROVE Flags'
  <1> USE DEF Flags, Takes,
        World, Goto, counts, transfer, link, sheet, printer, user, troubles
  <1>1. CASE Disconnect
    BY <1>1 DEF Disconnect
  <1>2. CASE Connected
    BY <1>2 DEF Connected, AfterConnect
  <1>3. CASE ConnectFails
    BY <1>3 DEF ConnectFails, AfterConnect
  <1>4. CASE ConnectOnce
    BY <1>4 DEF ConnectOnce
  <1> QED BY <1>1, <1>2, <1>3, <1>4 DEF Link

LEMMA WaitKeepFlags == ASSUME Flags, Wait PROVE Flags'
  <1> USE DEF Flags, Takes,
        World, Goto, Answer, counts, transfer, link, sheet, printer, user, troubles
  <1>1. CASE Ask
    BY <1>1 DEF Ask, Unasked
  <1>2. CASE EjectAnswered
    BY <1>2 DEF EjectAnswered, Heard
  <1>3. CASE Feed
    BY <1>3 DEF Feed
  <1>4. CASE EjectFails
    BY <1>4 DEF EjectFails
  <1>5. CASE Cancel
    BY <1>5 DEF Cancel, Aborted
  <1>6. CASE FreshConnected
    BY <1>6 DEF FreshConnected
  <1>7. CASE WatchLid
    BY <1>7, ZenonT(60) DEF WatchLid, Heard, WriteRefused, Unasked, CountMute
  <1>8. CASE WatchLidFails
    BY <1>8 DEF WatchLidFails
  <1>9. CASE CheckPaper
    BY <1>9, ZenonT(60) DEF CheckPaper, Heard, WriteRefused, Unasked
  <1>10. CASE ReadyWriteFails
    BY <1>10 DEF ReadyWriteFails, WriteRefused, Unasked
  <1>11. CASE WatchReady
    BY <1>11, ZenonT(60) DEF WatchReady, Heard, CountMute
  <1>12. CASE Settle
    BY <1>12, ZenonT(60) DEF Settle, Heard, SettleMute, SettleReset
  <1>13. CASE SettleTimesOut
    BY <1>13 DEF SettleTimesOut, Heard
  <1>14. CASE Settled
    BY <1>14 DEF Settled
  <1> QED BY <1>1, <1>2, <1>3, <1>4, <1>5, <1>6, <1>7, <1>8, <1>9, <1>10, <1>11,
      <1>12, <1>13, <1>14 DEF Wait

LEMMA PrinterKeepFlags == ASSUME Flags, Printer PROVE Flags'
  <1> USE DEF Flags, Takes,
        HostState, counts, transfer, link, sheet, user, troubles
  <1>1. CASE PrintRow
    BY <1>1 DEF PrintRow
  <1>2. CASE Overrun
    BY <1>2 DEF Overrun
  <1>3. CASE StopMotor
    BY <1>3 DEF StopMotor
  <1>4. CASE Deliver
    BY <1>4 DEF Deliver
  <1> QED BY <1>1, <1>2, <1>3, <1>4 DEF Printer

LEMMA UserKeepFlags == ASSUME Flags, User PROVE Flags'
  <1> USE DEF Flags, Takes,
        Others, HostState, counts, transfer, link, sheet, printer, user, troubles
  <1>1. CASE AbortArrives
    BY <1>1 DEF AbortArrives
  <1>2. CASE OpenLid
    BY <1>2 DEF OpenLid, Fault
  <1>3. CASE CloseLid
    BY <1>3 DEF CloseLid
  <1>4. CASE PullSheet
    BY <1>4 DEF PullSheet
  <1>5. CASE InsertSheet
    BY <1>5 DEF InsertSheet
  <1>6. CASE InsertShortSheet
    BY <1>6 DEF InsertShortSheet, Fault
  <1>7. CASE DropLink
    BY <1>7 DEF DropLink, Fault
  <1>8. CASE SwitchOff
    BY <1>8 DEF SwitchOff, Fault
  <1>9. CASE SwitchOn
    BY <1>9 DEF SwitchOn
  <1> QED BY <1>1, <1>2, <1>3, <1>4, <1>5, <1>6, <1>7, <1>8, <1>9 DEF User

LEMMA PrintsKeepWords == ASSUME Words, CallerInv, Prints PROVE Words'
  <1> USE PCIs DEF Callers, Words, CallerInv,
        World, Goto, Answer, counts, transfer, link, sheet, printer, user, troubles
  <1>1. CASE StartPrint
    BY <1>1 DEF StartPrint
  <1>2. CASE PrintNotConnected
    BY <1>2 DEF PrintNotConnected
  <1>3. CASE StopTransfer
    BY <1>3 DEF StopTransfer, MustCancel, MustStopForLid, MustGiveUpSheet
  <1>4. CASE WriteRow
    BY <1>4 DEF WriteRow, MaySend, MustCancel, MustStopForLid, MustGiveUpSheet
  <1>5. CASE WriteTail
    BY <1>5 DEF WriteTail, MaySend, MustCancel, MustStopForLid, MustGiveUpSheet
  <1>6. CASE FinishPadding
    BY <1>6 DEF FinishPadding
  <1>7. CASE WriteFails
    BY <1>7 DEF WriteFails, MaySend
  <1>8. CASE MotorStopped
    BY <1>8 DEF MotorStopped
  <1>9. CASE CompletionTimesOut
    BY <1>9 DEF CompletionTimesOut
  <1>10. CASE LidCheck
    BY <1>10 DEF LidCheck, Heard, WriteRefused, Unasked
  <1> QED BY <1>1, <1>2, <1>3, <1>4, <1>5, <1>6, <1>7, <1>8, <1>9, <1>10 DEF Prints

LEMMA LinkKeepWords == ASSUME Words, CallerInv, Link PROVE Words'
  <1> USE PCIs DEF Callers, Words, CallerInv,
        World, Goto, counts, transfer, link, sheet, printer, user, troubles
  <1>1. CASE Disconnect
    BY <1>1 DEF Disconnect
  <1>2. CASE Connected
    BY <1>2 DEF Connected, AfterConnect
  <1>3. CASE ConnectFails
    BY <1>3 DEF ConnectFails, AfterConnect
  <1>4. CASE ConnectOnce
    BY <1>4 DEF ConnectOnce
  <1> QED BY <1>1, <1>2, <1>3, <1>4 DEF Link

LEMMA WaitKeepWords == ASSUME Words, CallerInv, Wait PROVE Words'
  <1> USE PCIs DEF Callers, Words, CallerInv,
        World, Goto, Answer, counts, transfer, link, sheet, printer, user, troubles
  <1>1. CASE Ask
    BY <1>1 DEF Ask, Unasked
  <1>2. CASE EjectAnswered
    BY <1>2 DEF EjectAnswered, Heard
  <1>3. CASE Feed
    BY <1>3 DEF Feed
  <1>4. CASE EjectFails
    BY <1>4 DEF EjectFails
  <1>5. CASE Cancel
    BY <1>5 DEF Cancel, Aborted
  <1>6. CASE FreshConnected
    BY <1>6 DEF FreshConnected
  <1>7. CASE WatchLid
    BY <1>7 DEF WatchLid, Heard, WriteRefused, Unasked, CountMute
  <1>8. CASE WatchLidFails
    BY <1>8 DEF WatchLidFails
  <1>9. CASE CheckPaper
    BY <1>9 DEF CheckPaper, Heard, WriteRefused, Unasked
  <1>10. CASE ReadyWriteFails
    BY <1>10 DEF ReadyWriteFails, WriteRefused, Unasked
  <1>11. CASE WatchReady
    BY <1>11 DEF WatchReady, Heard, CountMute
  <1>12. CASE Settle
    BY <1>12 DEF Settle, Heard, SettleMute, SettleReset
  <1>13. CASE SettleTimesOut
    BY <1>13 DEF SettleTimesOut, Heard
  <1>14. CASE Settled
    BY <1>14 DEF Settled
  <1> QED BY <1>1, <1>2, <1>3, <1>4, <1>5, <1>6, <1>7, <1>8, <1>9, <1>10, <1>11,
      <1>12, <1>13, <1>14 DEF Wait

LEMMA PrinterKeepWords == ASSUME Words, CallerInv, Printer PROVE Words'
  <1> USE PCIs DEF Callers, Words, CallerInv,
        HostState, counts, transfer, link, sheet, user, troubles
  <1>1. CASE PrintRow
    BY <1>1 DEF PrintRow
  <1>2. CASE Overrun
    BY <1>2 DEF Overrun
  <1>3. CASE StopMotor
    BY <1>3 DEF StopMotor
  <1>4. CASE Deliver
    BY <1>4 DEF Deliver
  <1> QED BY <1>1, <1>2, <1>3, <1>4 DEF Printer

LEMMA UserKeepWords == ASSUME Words, CallerInv, User PROVE Words'
  <1> USE PCIs DEF Callers, Words, CallerInv,
        Others, HostState, counts, transfer, link, sheet, printer, user, troubles
  <1>1. CASE AbortArrives
    BY <1>1 DEF AbortArrives
  <1>2. CASE OpenLid
    BY <1>2 DEF OpenLid, Fault
  <1>3. CASE CloseLid
    BY <1>3 DEF CloseLid
  <1>4. CASE PullSheet
    BY <1>4 DEF PullSheet
  <1>5. CASE InsertSheet
    BY <1>5 DEF InsertSheet
  <1>6. CASE InsertShortSheet
    BY <1>6 DEF InsertShortSheet, Fault
  <1>7. CASE DropLink
    BY <1>7 DEF DropLink, Fault
  <1>8. CASE SwitchOff
    BY <1>8 DEF SwitchOff, Fault
  <1>9. CASE SwitchOn
    BY <1>9 DEF SwitchOn
  <1> QED BY <1>1, <1>2, <1>3, <1>4, <1>5, <1>6, <1>7, <1>8, <1>9 DEF User

LEMMA PrintsKeepLists == ASSUME Lists, Prints PROVE Lists'
  BY PrintsFrame DEF Lists

LEMMA WaitKeepLists == ASSUME Lists, Wait PROVE Lists'
  BY WaitFrame DEF Lists

LEMMA LinkKeepLists == ASSUME Lists, Link PROVE Lists'
  <1> USE DEF Lists,
        World, Goto, counts, transfer, link, sheet, printer, user, troubles
  <1>1. CASE Disconnect
    BY <1>1 DEF Disconnect
  <1>2. CASE Connected
    BY <1>2 DEF Connected, AfterConnect
  <1>3. CASE ConnectFails
    BY <1>3 DEF ConnectFails, AfterConnect
  <1>4. CASE ConnectOnce
    BY <1>4 DEF ConnectOnce
  <1> QED BY <1>1, <1>2, <1>3, <1>4 DEF Link

LEMMA PrinterKeepLists == ASSUME Lists, Printer PROVE Lists'
  <1> USE DEF Lists,
        HostState, counts, transfer, link, sheet, user, troubles
  <1>1. CASE PrintRow
    BY <1>1 DEF PrintRow
  <1>2. CASE Overrun
    BY <1>2 DEF Overrun
  <1>3. CASE StopMotor
    BY <1>3 DEF StopMotor
  <1>4. CASE Deliver
    BY <1>4 DEF Deliver
  <1> QED BY <1>1, <1>2, <1>3, <1>4 DEF Printer

LEMMA UserKeepLists == ASSUME Lists, User PROVE Lists'
  <1> USE DEF Lists,
        Others, HostState, counts, transfer, link, sheet, printer, user, troubles
  <1>1. CASE AbortArrives
    BY <1>1 DEF AbortArrives
  <1>2. CASE OpenLid
    <2>1. \/ notes' = notes
          \/ notes' = notes \o <<"lid", "stop">>
          \/ notes' = notes \o <<"lid">>
      BY <1>2, Zenon DEF OpenLid
    <2>2. notes' \in Seq({"lid", "absent", "stop"})
      BY <2>1
    <2>3. met' \subseteq Faults
      BY <1>2 DEF OpenLid, Fault
    <2> QED BY <2>2, <2>3
  <1>3. CASE CloseLid
    BY <1>3 DEF CloseLid
  <1>4. CASE PullSheet
    BY <1>4 DEF PullSheet
  <1>5. CASE InsertSheet
    BY <1>5 DEF InsertSheet
  <1>6. CASE InsertShortSheet
    BY <1>6 DEF InsertShortSheet, Fault
  <1>7. CASE DropLink
    BY <1>7 DEF DropLink, Fault
  <1>8. CASE SwitchOff
    BY <1>8 DEF SwitchOff, Fault
  <1>9. CASE SwitchOn
    BY <1>9 DEF SwitchOn
  <1> QED BY <1>1, <1>2, <1>3, <1>4, <1>5, <1>6, <1>7, <1>8, <1>9 DEF User

LEMMA PrintsKeepNumbers == ASSUME Numbers, PaperInv, Prints PROVE Numbers'
  <1> USE PageAssumption DEF Numbers, PaperInv,
        World, Goto, Answer, counts, transfer, link, sheet, printer, user, troubles
  <1>1. CASE StartPrint
    BY <1>1 DEF StartPrint
  <1>2. CASE PrintNotConnected
    BY <1>2 DEF PrintNotConnected
  <1>3. CASE StopTransfer
    BY <1>3 DEF StopTransfer, MustCancel, MustStopForLid, MustGiveUpSheet
  <1>4. CASE WriteRow
    BY <1>4 DEF WriteRow, MaySend, MustCancel, MustStopForLid, MustGiveUpSheet
  <1>5. CASE WriteTail
    BY <1>5 DEF WriteTail, MaySend, MustCancel, MustStopForLid, MustGiveUpSheet
  <1>6. CASE FinishPadding
    BY <1>6 DEF FinishPadding
  <1>7. CASE WriteFails
    BY <1>7 DEF WriteFails, MaySend
  <1>8. CASE MotorStopped
    BY <1>8 DEF MotorStopped
  <1>9. CASE CompletionTimesOut
    BY <1>9 DEF CompletionTimesOut
  <1>10. CASE LidCheck
    BY <1>10 DEF LidCheck, Heard, WriteRefused, Unasked
  <1> QED BY <1>1, <1>2, <1>3, <1>4, <1>5, <1>6, <1>7, <1>8, <1>9, <1>10 DEF Prints

LEMMA LinkKeepNumbers == ASSUME Numbers, PaperInv, Link PROVE Numbers'
  <1> USE PageAssumption DEF Numbers, PaperInv,
        World, Goto, counts, transfer, link, sheet, printer, user, troubles
  <1>1. CASE Disconnect
    BY <1>1 DEF Disconnect
  <1>2. CASE Connected
    BY <1>2 DEF Connected, AfterConnect
  <1>3. CASE ConnectFails
    BY <1>3 DEF ConnectFails, AfterConnect
  <1>4. CASE ConnectOnce
    BY <1>4 DEF ConnectOnce
  <1> QED BY <1>1, <1>2, <1>3, <1>4 DEF Link

LEMMA WaitKeepNumbers == ASSUME Numbers, PaperInv, Wait PROVE Numbers'
  <1> USE PageAssumption DEF Numbers, PaperInv,
        World, Goto, Answer, counts, transfer, link, sheet, printer, user, troubles
  <1>1. CASE Ask
    BY <1>1 DEF Ask, Unasked
  <1>2. CASE EjectAnswered
    BY <1>2 DEF EjectAnswered, Heard
  <1>3. CASE Feed
    BY <1>3 DEF Feed
  <1>4. CASE EjectFails
    BY <1>4 DEF EjectFails
  <1>5. CASE Cancel
    BY <1>5 DEF Cancel, Aborted
  <1>6. CASE FreshConnected
    BY <1>6 DEF FreshConnected
  <1>7. CASE WatchLid
    BY <1>7 DEF WatchLid, Heard, WriteRefused, Unasked, CountMute
  <1>8. CASE WatchLidFails
    BY <1>8 DEF WatchLidFails
  <1>9. CASE CheckPaper
    BY <1>9 DEF CheckPaper, Heard, WriteRefused, Unasked
  <1>10. CASE ReadyWriteFails
    BY <1>10 DEF ReadyWriteFails, WriteRefused, Unasked
  <1>11. CASE WatchReady
    <2>1. UNCHANGED <<rows, room, ink, buf, wholes, faults>>
      BY <1>11, Zenon DEF WatchReady
    <2>2. \/ timeouts' = timeouts
          \/ timeouts' = 0
          \/ timeouts + 1 < MuteThreshold /\ timeouts' = timeouts + 1
      <3>1. CountMute("ready") => timeouts' = 0 \/ (~(timeouts + 1 >= MuteThreshold) /\ timeouts' = timeouts + 1)
        BY Zenon DEF CountMute
      <3>2. timeouts' = timeouts \/ timeouts' = 0 \/ CountMute("ready")
        BY <1>11, Zenon DEF WatchReady
      <3> QED BY <3>1, <3>2
    <2>3. inner' = inner \/ inner' = 0
      BY <1>11, Zenon DEF WatchReady
    <2> QED BY <2>1, <2>2, <2>3
  <1>12. CASE Settle
    <2>1. UNCHANGED <<timeouts, rows, room, ink, buf, wholes, faults>>
      BY <1>12, Zenon DEF Settle
    <2>2. inner' \in {inner, 0, MuteThreshold} \/ (inner # MuteThreshold /\ inner' = inner + 1)
      <3>1. SettleMute => inner' \in {inner, MuteThreshold} \/ (inner # MuteThreshold /\ inner' = inner + 1)
        BY DEF SettleMute
      <3>2. SettleReset => inner' \in {inner, 0}
        BY DEF SettleReset
      <3>3. inner' = inner \/ SettleMute \/ SettleReset
        BY <1>12, Zenon DEF Settle
      <3> QED BY <3>1, <3>2, <3>3
    <2> QED BY <2>1, <2>2
  <1>13. CASE SettleTimesOut
    BY <1>13 DEF SettleTimesOut, Heard
  <1>14. CASE Settled
    BY <1>14 DEF Settled
  <1> QED BY <1>1, <1>2, <1>3, <1>4, <1>5, <1>6, <1>7, <1>8, <1>9, <1>10, <1>11,
      <1>12, <1>13, <1>14 DEF Wait

LEMMA PrinterKeepNumbers == ASSUME Numbers, PaperInv, Printer PROVE Numbers'
  <1> USE PageAssumption DEF Numbers, PaperInv,
        HostState, counts, transfer, link, sheet, user, troubles
  <1>1. CASE PrintRow
    BY <1>1 DEF PrintRow
  <1>2. CASE Overrun
    BY <1>2 DEF Overrun
  <1>3. CASE StopMotor
    BY <1>3 DEF StopMotor
  <1>4. CASE Deliver
    BY <1>4 DEF Deliver
  <1> QED BY <1>1, <1>2, <1>3, <1>4 DEF Printer

LEMMA UserKeepNumbers == ASSUME Numbers, PaperInv, User PROVE Numbers'
  <1> USE PageAssumption DEF Numbers, PaperInv,
        Others, HostState, counts, transfer, link, sheet, printer, user, troubles
  <1>1. CASE AbortArrives
    BY <1>1 DEF AbortArrives
  <1>2. CASE OpenLid
    BY <1>2 DEF OpenLid, Fault
  <1>3. CASE CloseLid
    BY <1>3 DEF CloseLid
  <1>4. CASE PullSheet
    BY <1>4 DEF PullSheet
  <1>5. CASE InsertSheet
    BY <1>5 DEF InsertSheet
  <1>6. CASE InsertShortSheet
    BY <1>6 DEF InsertShortSheet, Fault
  <1>7. CASE DropLink
    BY <1>7 DEF DropLink, Fault
  <1>8. CASE SwitchOff
    BY <1>8 DEF SwitchOff, Fault
  <1>9. CASE SwitchOn
    BY <1>9 DEF SwitchOn
  <1> QED BY <1>1, <1>2, <1>3, <1>4, <1>5, <1>6, <1>7, <1>8, <1>9 DEF User

LEMMA PrintsKeepCallers == ASSUME CallerInv, Numbers, Prints PROVE CallerInv'
  <1> USE PageAssumption DEF CallerInv, Numbers,
        World, Goto, Answer, counts, transfer, link, sheet, printer, user, troubles
  <1>1. CASE StartPrint
    BY <1>1 DEF StartPrint
  <1>2. CASE PrintNotConnected
    BY <1>2 DEF PrintNotConnected
  <1>3. CASE StopTransfer
    BY <1>3 DEF StopTransfer, MustCancel, MustStopForLid, MustGiveUpSheet
  <1>4. CASE WriteRow
    BY <1>4 DEF WriteRow, MaySend, MustCancel, MustStopForLid, MustGiveUpSheet
  <1>5. CASE WriteTail
    BY <1>5 DEF WriteTail, MaySend, MustCancel, MustStopForLid, MustGiveUpSheet
  <1>6. CASE FinishPadding
    BY <1>6 DEF FinishPadding
  <1>7. CASE WriteFails
    BY <1>7 DEF WriteFails, MaySend
  <1>8. CASE MotorStopped
    BY <1>8 DEF MotorStopped
  <1>9. CASE CompletionTimesOut
    BY <1>9 DEF CompletionTimesOut
  <1>10. CASE LidCheck
    BY <1>10 DEF LidCheck, Heard, WriteRefused, Unasked
  <1> QED BY <1>1, <1>2, <1>3, <1>4, <1>5, <1>6, <1>7, <1>8, <1>9, <1>10 DEF Prints

LEMMA LinkKeepCallers == ASSUME CallerInv, Numbers, Link PROVE CallerInv'
  <1> USE PageAssumption DEF CallerInv, Numbers,
        World, Goto, counts, transfer, link, sheet, printer, user, troubles
  <1>1. CASE Disconnect
    BY <1>1 DEF Disconnect
  <1>2. CASE Connected
    BY <1>2 DEF Connected, AfterConnect
  <1>3. CASE ConnectFails
    BY <1>3 DEF ConnectFails, AfterConnect
  <1>4. CASE ConnectOnce
    BY <1>4 DEF ConnectOnce
  <1> QED BY <1>1, <1>2, <1>3, <1>4 DEF Link

LEMMA WaitKeepCallers == ASSUME CallerInv, Numbers, Wait PROVE CallerInv'
  <1> USE PageAssumption DEF CallerInv, Numbers,
        World, Goto, Answer, counts, transfer, link, sheet, printer, user, troubles
  <1>1. CASE Ask
    BY <1>1 DEF Ask, Unasked
  <1>2. CASE EjectAnswered
    BY <1>2 DEF EjectAnswered, Heard
  <1>3. CASE Feed
    BY <1>3 DEF Feed
  <1>4. CASE EjectFails
    BY <1>4 DEF EjectFails
  <1>5. CASE Cancel
    BY <1>5 DEF Cancel, Aborted
  <1>6. CASE FreshConnected
    BY <1>6 DEF FreshConnected
  <1>7. CASE WatchLid
    BY <1>7 DEF WatchLid, Heard, WriteRefused, Unasked, CountMute
  <1>8. CASE WatchLidFails
    BY <1>8 DEF WatchLidFails
  <1>9. CASE CheckPaper
    BY <1>9 DEF CheckPaper, Heard, WriteRefused, Unasked
  <1>10. CASE ReadyWriteFails
    BY <1>10 DEF ReadyWriteFails, WriteRefused, Unasked
  <1>11. CASE WatchReady
    <2>1. UNCHANGED <<rows, stopped>>
      BY <1>11, Zenon DEF WatchReady
    <2>2. \/ pc' \in {"ready", "ready paper", "settle"}
          \/ pc' = "reconnect" /\ caller' = "ready"
      BY <1>11, Zenon DEF WatchReady, CountMute
    <2> QED BY <2>1, <2>2
  <1>12. CASE Settle
    BY <1>12 DEF Settle, Heard, SettleMute, SettleReset
  <1>13. CASE SettleTimesOut
    BY <1>13 DEF SettleTimesOut, Heard
  <1>14. CASE Settled
    BY <1>14 DEF Settled
  <1> QED BY <1>1, <1>2, <1>3, <1>4, <1>5, <1>6, <1>7, <1>8, <1>9, <1>10, <1>11,
      <1>12, <1>13, <1>14 DEF Wait

LEMMA PrinterKeepCallers == ASSUME CallerInv, Numbers, Printer PROVE CallerInv'
  <1> USE PageAssumption DEF CallerInv, Numbers,
        HostState, counts, transfer, link, sheet, user, troubles
  <1>1. CASE PrintRow
    BY <1>1 DEF PrintRow
  <1>2. CASE Overrun
    BY <1>2 DEF Overrun
  <1>3. CASE StopMotor
    BY <1>3 DEF StopMotor
  <1>4. CASE Deliver
    BY <1>4 DEF Deliver
  <1> QED BY <1>1, <1>2, <1>3, <1>4 DEF Printer

LEMMA UserKeepCallers == ASSUME CallerInv, Numbers, User PROVE CallerInv'
  <1> USE PageAssumption DEF CallerInv, Numbers,
        Others, HostState, counts, transfer, link, sheet, printer, user, troubles
  <1>1. CASE AbortArrives
    BY <1>1 DEF AbortArrives
  <1>2. CASE OpenLid
    BY <1>2 DEF OpenLid, Fault
  <1>3. CASE CloseLid
    BY <1>3 DEF CloseLid
  <1>4. CASE PullSheet
    BY <1>4 DEF PullSheet
  <1>5. CASE InsertSheet
    BY <1>5 DEF InsertSheet
  <1>6. CASE InsertShortSheet
    BY <1>6 DEF InsertShortSheet, Fault
  <1>7. CASE DropLink
    BY <1>7 DEF DropLink, Fault
  <1>8. CASE SwitchOff
    BY <1>8 DEF SwitchOff, Fault
  <1>9. CASE SwitchOn
    BY <1>9 DEF SwitchOn
  <1> QED BY <1>1, <1>2, <1>3, <1>4, <1>5, <1>6, <1>7, <1>8, <1>9 DEF User

LEMMA PrintsKeepPaper ==
  ASSUME Numbers, PaperInv, CallerInv, Prints
  PROVE  PaperInv'
  <1> USE PageAssumption DEF Numbers, PaperInv, Takes,
        World, Goto, Answer, counts, transfer, link, sheet, printer, user, troubles
  <1>1. CASE StartPrint
    <2>1. /\ UNCHANGED <<ink, room, buf, motor, lid, mute, wholes>>
          /\ pc' = "sending" /\ rows' = 0 /\ buf = 0
      BY <1>1 DEF StartPrint
    <2>2. overprint' <=> ink > 0
      BY <1>1 DEF StartPrint
    <2> QED BY <2>1, <2>2
  <1>2. CASE PrintNotConnected
    BY <1>2 DEF PrintNotConnected
  <1>3. CASE StopTransfer
    BY <1>3 DEF StopTransfer, MustCancel, MustStopForLid, MustGiveUpSheet
  <1>4. CASE WriteRow
    <2>1. /\ UNCHANGED <<pc, ink, room, lid, mute, wholes, overprint>>
          /\ pc = "sending" /\ rows' = rows + 1
          /\ buf' = IF Takes THEN buf + 1 ELSE buf
      BY <1>4 DEF WriteRow, MaySend
    <2>2. motor' <=> motor \/ Takes
      BY <1>4, Zenon DEF WriteRow
    <2> QED BY <2>1, <2>2
  <1>5. CASE WriteTail
    BY <1>5 DEF WriteTail, MaySend, MustCancel, MustStopForLid, MustGiveUpSheet
  <1>6. CASE FinishPadding
    BY <1>6 DEF FinishPadding
  <1>7. CASE WriteFails
    BY <1>7 DEF WriteFails, MaySend
  <1>8. CASE MotorStopped
    BY <1>8 DEF MotorStopped
  <1>9. CASE CompletionTimesOut
    BY <1>9 DEF CompletionTimesOut
  <1>10. CASE LidCheck
    BY <1>10 DEF LidCheck, Heard, WriteRefused, Unasked
  <1> QED BY <1>1, <1>2, <1>3, <1>4, <1>5, <1>6, <1>7, <1>8, <1>9, <1>10 DEF Prints

LEMMA LinkKeepPaper == ASSUME Numbers, PaperInv, CallerInv, Link PROVE PaperInv'
  <1> USE PageAssumption DEF Numbers, PaperInv, Takes,
        World, Goto, counts, transfer, link, sheet, printer, user, troubles
  <1>1. CASE Disconnect
    BY <1>1 DEF Disconnect
  <1>2. CASE Connected
    BY <1>2 DEF Connected, AfterConnect, CallerInv
  <1>3. CASE ConnectFails
    BY <1>3 DEF ConnectFails, AfterConnect, CallerInv
  <1>4. CASE ConnectOnce
    BY <1>4 DEF ConnectOnce
  <1> QED BY <1>1, <1>2, <1>3, <1>4 DEF Link

LEMMA WaitKeepPaper == ASSUME Numbers, PaperInv, CallerInv, Wait PROVE PaperInv'
  <1> USE PageAssumption DEF Numbers, PaperInv, Takes,
        World, Goto, Answer, counts, transfer, link, sheet, printer, user, troubles
  <1>1. CASE Ask
    BY <1>1 DEF Ask, Unasked
  <1>2. CASE EjectAnswered
    BY <1>2 DEF EjectAnswered, Heard
  <1>3. CASE Feed
    BY <1>3 DEF Feed
  <1>4. CASE EjectFails
    BY <1>4 DEF EjectFails
  <1>5. CASE Cancel
    BY <1>5 DEF Cancel, Aborted
  <1>6. CASE FreshConnected
    BY <1>6 DEF FreshConnected
  <1>7. CASE WatchLid
    BY <1>7 DEF WatchLid, Heard, WriteRefused, Unasked, CountMute
  <1>8. CASE WatchLidFails
    BY <1>8 DEF WatchLidFails
  <1>9. CASE CheckPaper
    BY <1>9 DEF CheckPaper, Heard, WriteRefused, Unasked
  <1>10. CASE ReadyWriteFails
    BY <1>10 DEF ReadyWriteFails, WriteRefused, Unasked
  <1>11. CASE WatchReady
    BY <1>11 DEF WatchReady, Heard, CountMute
  <1>12. CASE Settle
    BY <1>12 DEF Settle, Heard, SettleMute, SettleReset
  <1>13. CASE SettleTimesOut
    BY <1>13 DEF SettleTimesOut, Heard
  <1>14. CASE Settled
    BY <1>14 DEF Settled
  <1> QED BY <1>1, <1>2, <1>3, <1>4, <1>5, <1>6, <1>7, <1>8, <1>9, <1>10, <1>11,
      <1>12, <1>13, <1>14 DEF Wait

LEMMA PrinterKeepPaper ==
  ASSUME Numbers, PaperInv, CallerInv, Printer
  PROVE  PaperInv'
  <1> USE PageAssumption DEF Numbers, PaperInv, Takes,
        HostState, counts, transfer, link, sheet, user, troubles
  <1>1. CASE PrintRow
    BY <1>1 DEF PrintRow
  <1>2. CASE Overrun
    BY <1>2 DEF Overrun
  <1>3. CASE StopMotor
    BY <1>3 DEF StopMotor
  <1>4. CASE Deliver
    BY <1>4 DEF Deliver
  <1> QED BY <1>1, <1>2, <1>3, <1>4 DEF Printer

LEMMA UserKeepPaper == ASSUME Numbers, PaperInv, CallerInv, User PROVE PaperInv'
  <1> USE PageAssumption DEF Numbers, PaperInv, Takes,
        Others, HostState, counts, transfer, link, sheet, printer, user, troubles
  <1>1. CASE AbortArrives
    BY <1>1 DEF AbortArrives
  <1>2. CASE OpenLid
    BY <1>2 DEF OpenLid, Fault
  <1>3. CASE CloseLid
    BY <1>3 DEF CloseLid
  <1>4. CASE PullSheet
    BY <1>4 DEF PullSheet
  <1>5. CASE InsertSheet
    BY <1>5 DEF InsertSheet
  <1>6. CASE InsertShortSheet
    BY <1>6 DEF InsertShortSheet, Fault
  <1>7. CASE DropLink
    BY <1>7 DEF DropLink, Fault
  <1>8. CASE SwitchOff
    BY <1>8 DEF SwitchOff, Fault
  <1>9. CASE SwitchOn
    BY <1>9 DEF SwitchOn
  <1> QED BY <1>1, <1>2, <1>3, <1>4, <1>5, <1>6, <1>7, <1>8, <1>9 DEF User

\* What the arithmetic of the proofs needs of the numbers.
LEMMA NumbersAre ==
  ASSUME Numbers
  PROVE  /\ rows \in Nat /\ room \in Nat /\ ink \in Nat /\ buf \in Nat
         /\ wholes \in Nat /\ faults \in Nat
         /\ Rows \in Nat /\ Rows > 0 /\ SensorRows \in Nat /\ SensorRows < Rows
         /\ rows <= Rows /\ room <= Rows
  BY PageAssumption DEF Numbers

\* Every step keeps the types and the two invariants beside them.
LEMMA TypesStep == ASSUME IInv, [Next]_vars PROVE IInv'
  <1> USE DEF IInv
  <1>1. CASE Prints
    BY <1>1, PrintsKeepFlags, PrintsKeepWords, PrintsKeepLists, PrintsKeepNumbers,
        PrintsKeepCallers, PrintsKeepPaper
  <1>2. CASE Link
    BY <1>2, LinkKeepFlags, LinkKeepWords, LinkKeepLists, LinkKeepNumbers,
        LinkKeepCallers, LinkKeepPaper
  <1>3. CASE Wait
    BY <1>3, WaitKeepFlags, WaitKeepWords, WaitKeepLists, WaitKeepNumbers,
        WaitKeepCallers, WaitKeepPaper
  <1>4. CASE Printer
    BY <1>4, PrinterKeepFlags, PrinterKeepWords, PrinterKeepLists,
        PrinterKeepNumbers, PrinterKeepCallers, PrinterKeepPaper
  <1>5. CASE User
    BY <1>5, UserKeepFlags, UserKeepWords, UserKeepLists, UserKeepNumbers,
        UserKeepCallers, UserKeepPaper
  <1>6. CASE UNCHANGED vars
    <2> USE DEF vars, counts, transfer, link, sheet, printer, user, troubles
    <2>1. Flags'
      BY <1>6 DEF Flags
    <2>2. Words'
      BY <1>6 DEF Words
    <2>3. Lists'
      BY <1>6 DEF Lists
    <2>4. Numbers'
      BY <1>6 DEF Numbers
    <2>5. CallerInv'
      BY <1>6 DEF CallerInv
    <2>6. PaperInv'
      BY <1>6 DEF PaperInv, Takes
    <2> QED BY <2>1, <2>2, <2>3, <2>4, <2>5, <2>6
  <1> QED BY <1>1, <1>2, <1>3, <1>4, <1>5, <1>6 DEF Next

\* Every variable of page_end and of the printer keeps its type: the counts of
\* unanswered queries stay below the threshold, the printer never holds more than
\* the page, the ink on a sheet stays within two pages.
THEOREM PageTypes == Spec => []TypeOK
  <1>1. IInv => TypeOK
    BY TypesAre DEF IInv
  <1> QED BY InitIInv, TypesStep, <1>1, PTL DEF Spec

-----------------------------------------------------------------------------
\* Of the waits only a feed moves the sheet.
LEMMA WaitSheet == ASSUME Wait PROVE Feed \/ UNCHANGED <<room, ink>>
  <1> USE DEF World, sheet
  <1>1. CASE Ask
    BY <1>1, Zenon DEF Ask
  <1>2. CASE EjectAnswered
    BY <1>2, Zenon DEF EjectAnswered
  <1>4. CASE EjectFails
    BY <1>4, Zenon DEF EjectFails
  <1>5. CASE Cancel
    BY <1>5, Zenon DEF Cancel
  <1>6. CASE FreshConnected
    BY <1>6, Zenon DEF FreshConnected
  <1>7. CASE WatchLid
    BY <1>7, Zenon DEF WatchLid
  <1>8. CASE WatchLidFails
    BY <1>8, Zenon DEF WatchLidFails
  <1>9. CASE CheckPaper
    BY <1>9, Zenon DEF CheckPaper
  <1>10. CASE ReadyWriteFails
    BY <1>10, Zenon DEF ReadyWriteFails
  <1>11. CASE WatchReady
    BY <1>11, Zenon DEF WatchReady
  <1>12. CASE Settle
    BY <1>12, Zenon DEF Settle
  <1>13. CASE SettleTimesOut
    BY <1>13, Zenon DEF SettleTimesOut
  <1>14. CASE Settled
    BY <1>14, Zenon DEF Settled
  <1> QED BY <1>1, <1>2, <1>4, <1>5, <1>6, <1>7, <1>8, <1>9, <1>10, <1>11, <1>12,
      <1>13, <1>14, Zenon DEF Wait

\* No wait takes page_end back into a transfer.
LEMMA WaitPlace == ASSUME CallerInv, Wait PROVE pc' \in Printing => Ask
  <1> USE DEF Goto, Answer, Printing
  <1>2. CASE EjectAnswered
    BY <1>2, Zenon DEF EjectAnswered
  <1>3. CASE Feed
    BY <1>3 DEF Feed, CallerInv
  <1>4. CASE EjectFails
    BY <1>4, Zenon DEF EjectFails
  <1>5. CASE Cancel
    BY <1>5, Zenon DEF Cancel
  <1>6. CASE FreshConnected
    BY <1>6, Zenon DEF FreshConnected
  <1>7. CASE WatchLid
    BY <1>7, Zenon DEF WatchLid, CountMute
  <1>8. CASE WatchLidFails
    BY <1>8, Zenon DEF WatchLidFails
  <1>9. CASE CheckPaper
    BY <1>9, Zenon DEF CheckPaper
  <1>10. CASE ReadyWriteFails
    BY <1>10, Zenon DEF ReadyWriteFails
  <1>11. CASE WatchReady
    BY <1>11, Zenon DEF WatchReady, CountMute
  <1>12. CASE Settle
    BY <1>12, Zenon DEF Settle, SettleMute
  <1>13. CASE SettleTimesOut
    BY <1>13, Zenon DEF SettleTimesOut
  <1>14. CASE Settled
    BY <1>14, Zenon DEF Settled
  <1> QED BY <1>2, <1>3, <1>4, <1>5, <1>6, <1>7, <1>8, <1>9, <1>10, <1>11, <1>12,
      <1>13, <1>14, Zenon DEF Wait

-----------------------------------------------------------------------------
(* ok means a whole page.                                                   *)

LEMMA PrintsKeepIntact ==
  ASSUME Numbers, CallerInv, PaperInv, IntactInv, Prints
  PROVE  IntactInv'
  <1> USE DEF Printing, World, Goto, Answer, transfer, link, sheet, user
  <1>1. CASE StartPrint
    <2>1. /\ UNCHANGED <<ink, buf>>
          /\ rows' = 0 /\ buf = 0
      BY <1>1 DEF StartPrint, PaperInv, printer
    <2>2. (ink > 0 => overprint') /\ (~(ink > 0) => ~overprint')
      BY <1>1 DEF StartPrint
    <2>3. \/ overprint' /\ ink' + buf' > rows'
          \/ ~overprint' /\ ink' + buf' = rows'
      BY <2>1, <2>2, NumbersAre
    <2> QED BY <2>3 DEF IntactInv
  <1>2. CASE PrintNotConnected
    BY <1>2 DEF PrintNotConnected, printer, IntactInv, Damaged, Takes
  <1>3. CASE StopTransfer
    BY <1>3 DEF StopTransfer, printer, IntactInv, Damaged, Takes
  <1>4. CASE WriteRow
    <2>1. /\ UNCHANGED <<pc, ink, lid, mute, overprint, client>>
          /\ pc = "sending" /\ rows' = rows + 1
          /\ buf' = IF Takes THEN buf + 1 ELSE buf
      BY <1>4, Zenon DEF WriteRow, MaySend
    <2> QED BY <2>1, NumbersAre DEF IntactInv, Damaged, Takes
  <1>5. CASE WriteTail
    BY <1>5 DEF WriteTail, MaySend, IntactInv, Damaged, Takes
  <1>6. CASE FinishPadding
    BY <1>6 DEF FinishPadding, IntactInv, Damaged, Takes
  <1>7. CASE WriteFails
    BY <1>7 DEF WriteFails, MaySend, printer, IntactInv, Damaged, Takes
  <1>8. CASE MotorStopped
    BY <1>8 DEF MotorStopped, printer, IntactInv, Damaged, Takes
  <1>9. CASE CompletionTimesOut
    BY <1>9 DEF CompletionTimesOut, printer, IntactInv, Damaged, Takes
  <1>10. CASE LidCheck
    BY <1>10 DEF LidCheck, printer, Heard, WriteRefused, IntactInv, Damaged, Takes
  <1> QED BY <1>1, <1>2, <1>3, <1>4, <1>5, <1>6, <1>7, <1>8, <1>9, <1>10 DEF Prints

LEMMA WaitKeepIntact == ASSUME CallerInv, IntactInv, Wait PROVE IntactInv'
  <1>1. pc' \in Printing => pc' = pc /\ UNCHANGED <<room, ink>>
    BY WaitPlace DEF Ask, World, sheet
  <1> QED BY <1>1, WaitFrame DEF IntactInv, Damaged, Takes

LEMMA LinkKeepIntact == ASSUME CallerInv, IntactInv, Link PROVE IntactInv'
  BY LinkFrame DEF IntactInv

LEMMA PrinterKeepIntact == ASSUME Numbers, IntactInv, Printer PROVE IntactInv'
  <1> USE PrinterFrame 
  <1>1. CASE PrintRow
    <2>1. ink' + buf' = ink + buf
      BY <1>1, NumbersAre DEF PrintRow
    <2> QED BY <1>1, <2>1 DEF IntactInv, Damaged, Takes, PrintRow
  <1>2. CASE Overrun
    BY <1>2 DEF Overrun, sheet, IntactInv, Damaged, Takes
  <1>3. CASE StopMotor
    BY <1>3 DEF StopMotor, sheet, IntactInv, Damaged, Takes
  <1>4. CASE Deliver
    BY <1>4 DEF Deliver, sheet, IntactInv, Damaged, Takes
  <1> QED BY <1>1, <1>2, <1>3, <1>4 DEF Printer

LEMMA UserKeepIntact ==
  ASSUME NoQuickLid, Numbers, IntactInv, User
  PROVE  IntactInv'
  <1> USE UserFrame DEF NoQuickLid, sheet, link, printer, user, troubles
  <1>1. CASE AbortArrives
    <2>1. UNCHANGED <<ink, buf, lid, mute, client>>
      BY <1>1, Zenon DEF AbortArrives, link, sheet, printer, user
    <2> QED BY <2>1 DEF IntactInv, Damaged, Takes
  <1>2. CASE OpenLid
    BY <1>2 DEF OpenLid, IntactInv, Damaged, Takes
  <1>3. CASE CloseLid
    BY <1>3 DEF CloseLid, IntactInv, Damaged, Takes
  <1>4. CASE PullSheet
    BY <1>4 DEF PullSheet, IntactInv, Damaged, Takes
  <1>5. CASE InsertSheet
    BY <1>5 DEF InsertSheet, IntactInv, Damaged, Takes
  <1>6. CASE InsertShortSheet
    BY <1>6 DEF InsertShortSheet, IntactInv, Damaged, Takes
  <1>7. CASE DropLink
    BY <1>7 DEF DropLink, IntactInv, Damaged, Takes
  <1>8. CASE SwitchOff
    BY <1>8 DEF SwitchOff, IntactInv, Damaged, Takes
  <1>9. CASE SwitchOn
    <2>1. UNCHANGED <<ink, buf, lid, mute, client>>
      BY <1>9, Zenon DEF SwitchOn, link, sheet, printer, user
    <2> QED BY <2>1 DEF IntactInv, Damaged, Takes
  <1> QED BY <1>1, <1>2, <1>3, <1>4, <1>5, <1>6, <1>7, <1>8, <1>9 DEF User

LEMMA PrintsKeepDone ==
  ASSUME Numbers, CallerInv, PaperInv, IntactInv, DoneInv, Prints
  PROVE  DoneInv'
  <1>1. CASE StartPrint
    <2>1. UNCHANGED <<reply, wholes>> /\ pc' \notin {"eject", "feeding"}
      BY <1>1, Zenon DEF StartPrint, Goto, World, sheet
    <2> QED BY <2>1 DEF DoneInv
  <1>2. CASE PrintNotConnected
    <2>1. reply' # "ok" /\ pc' = "end"
      BY <1>2, Zenon DEF PrintNotConnected, Answer
    <2> QED BY <2>1 DEF DoneInv
  <1>3. CASE StopTransfer
    <2>1. UNCHANGED <<reply, wholes>> /\ pc' \notin {"eject", "feeding"}
      BY <1>3, Zenon DEF StopTransfer, Goto, World, sheet
    <2> QED BY <2>1 DEF DoneInv
  <1>4. CASE WriteRow
    <2>1. UNCHANGED <<reply, wholes, pc>> /\ pc = "sending"
      BY <1>4, Zenon DEF WriteRow, MaySend, sheet
    <2> QED BY <2>1 DEF DoneInv
  <1>5. CASE WriteTail
    <2>1. UNCHANGED <<reply, wholes>> /\ pc' \notin {"eject", "feeding"}
      BY <1>5, Zenon DEF WriteTail, Goto, World, sheet
    <2> QED BY <2>1 DEF DoneInv
  <1>6. CASE FinishPadding
    <2>1. UNCHANGED <<reply, wholes, caller>> /\ caller # "done"
      BY <1>6 DEF FinishPadding, Goto, sheet, CallerInv
    <2> QED BY <2>1 DEF DoneInv
  <1>7. CASE WriteFails
    <2>1. UNCHANGED <<reply, wholes>> /\ pc' \notin {"eject", "feeding"}
      BY <1>7, Zenon DEF WriteFails, Goto, World, sheet
    <2> QED BY <2>1 DEF DoneInv
  <1>8. CASE MotorStopped
    <2>1. UNCHANGED <<reply, wholes>> /\ pc' \notin {"eject", "feeding"}
      BY <1>8, Zenon DEF MotorStopped, Goto, World, sheet
    <2> QED BY <2>1 DEF DoneInv
  <1>9. CASE CompletionTimesOut
    <2>1. reply' # "ok" /\ pc' = "end"
      BY <1>9, Zenon DEF CompletionTimesOut, Answer
    <2> QED BY <2>1 DEF DoneInv
  <1>10. CASE LidCheck
    <2>1. UNCHANGED <<reply, wholes, buf>>
      BY <1>10, Zenon DEF LidCheck, Goto, World, sheet, printer
    <2>2. CASE pc' = "eject" /\ caller' = "done"
      <3>1. Heard("closed") /\ pc = "lid check"
        BY <1>10, <2>2, Zenon DEF LidCheck, Goto
      <3>2. client = "up" /\ ~mute /\ buf = 0 /\ lid = "closed"
        BY <3>1 DEF Heard, Sensor, PaperQueries
      <3>3. ~overprint /\ ink = Rows
        <4>1. rows = Rows /\ ink + room <= Rows
          BY <3>1 DEF CallerInv, PaperInv
        <4>2. \/ overprint /\ ink + buf > rows
              \/ ~overprint /\ ink + buf = rows
          BY <3>1, <3>2 DEF IntactInv, Damaged, Takes, Printing
        <4> QED BY <3>2, <4>1, <4>2, NumbersAre
      <3> QED BY <2>1, <3>2, <3>3 DEF PaperInv, DoneInv
    <2>3. CASE ~(pc' = "eject" /\ caller' = "done")
      <3>1. pc' # "feeding"
        BY <1>10, Zenon DEF LidCheck, Goto
      <3> QED BY <2>1, <2>3, <3>1 DEF DoneInv
    <2> QED BY <2>2, <2>3
  <1> QED BY <1>1, <1>2, <1>3, <1>4, <1>5, <1>6, <1>7, <1>8, <1>9, <1>10 DEF Prints

LEMMA WaitKeepDone == ASSUME CallerInv, DoneInv, Wait PROVE DoneInv'
  <1>1. CASE Ask
    <2>1. UNCHANGED <<reply, pc, caller>>
      BY <1>1, Zenon DEF Ask
    <2> QED BY <2>1, WaitFrame DEF DoneInv
  <1>2. CASE EjectAnswered
    <2>1. UNCHANGED <<reply, caller>> /\ pc = "eject"
      BY <1>2, Zenon DEF EjectAnswered, Goto
    <2> QED BY <2>1, WaitFrame DEF DoneInv
  <1>3. CASE Feed
    <2>1. pc = "feeding" /\ caller' = caller
      BY <1>3, Zenon DEF Feed
    <2>2. \/ caller = "done" /\ pc' = "end"
          \/ caller # "done" /\ reply' = reply
          \/ reply' = "cancelled" /\ pc' = "end"
      BY <1>3, <2>1 DEF Feed, Answer, Goto, CallerInv
    <2> QED BY <2>1, <2>2, WaitFrame DEF DoneInv
  <1>4. CASE EjectFails
    <2>1. (reply' = "error" /\ pc' = "end") \/ (reply' = reply /\ pc' = "fresh")
      BY <1>4, Zenon DEF EjectFails, Answer, Goto
    <2> QED BY <2>1, WaitFrame DEF DoneInv
  <1>5. CASE Cancel
    <2>1. reply' = "cancelled" /\ pc' = "end"
      BY <1>5, Zenon DEF Cancel, Answer
    <2> QED BY <2>1, WaitFrame DEF DoneInv
  <1>6. CASE FreshConnected
    <2>1. reply' = reply /\ pc' \notin {"eject", "feeding"}
      BY <1>6, Zenon DEF FreshConnected, Goto
    <2> QED BY <2>1, WaitFrame DEF DoneInv
  <1>7. CASE WatchLid
    <2>1. reply' = reply /\ pc' \notin {"eject", "feeding"}
      BY <1>7, Zenon DEF WatchLid, Goto, CountMute
    <2> QED BY <2>1, WaitFrame DEF DoneInv
  <1>8. CASE WatchLidFails
    <2>1. reply' = "error" /\ pc' = "end"
      BY <1>8, Zenon DEF WatchLidFails, Answer
    <2> QED BY <2>1, WaitFrame DEF DoneInv
  <1>9. CASE CheckPaper
    <2>1. reply' = reply /\ (pc' = "ready" \/ (pc' = "eject" /\ caller' = "fresh"))
      BY <1>9, Zenon DEF CheckPaper, Goto
    <2> QED BY <2>1, WaitFrame DEF DoneInv
  <1>10. CASE ReadyWriteFails
    <2>1. reply' = reply /\ pc' \notin {"eject", "feeding"}
      BY <1>10, Zenon DEF ReadyWriteFails, Goto
    <2> QED BY <2>1, WaitFrame DEF DoneInv
  <1>11. CASE WatchReady
    <2>1. reply' = reply /\ pc' \notin {"eject", "feeding"}
      BY <1>11, Zenon DEF WatchReady, Goto, CountMute
    <2> QED BY <2>1, WaitFrame DEF DoneInv
  <1>12. CASE Settle
    <2>1. reply' = reply /\ pc' \notin {"eject", "feeding"}
      BY <1>12, Zenon DEF Settle, Goto, SettleMute
    <2> QED BY <2>1, WaitFrame DEF DoneInv
  <1>13. CASE SettleTimesOut
    <2>1. reply' = reply /\ pc' \notin {"eject", "feeding"}
      BY <1>13, Zenon DEF SettleTimesOut, Goto
    <2> QED BY <2>1, WaitFrame DEF DoneInv
  <1>14. CASE Settled
    <2>1. reply' = reply /\ pc' \notin {"eject", "feeding"}
      BY <1>14, Zenon DEF Settled, Goto
    <2> QED BY <2>1, WaitFrame DEF DoneInv
  <1> QED BY <1>1, <1>2, <1>3, <1>4, <1>5, <1>6, <1>7, <1>8, <1>9, <1>10, <1>11,
      <1>12, <1>13, <1>14 DEF Wait

LEMMA LinkKeepDone == ASSUME CallerInv, DoneInv, Link PROVE DoneInv'
  <1>1. CASE Disconnect
    <2>1. pc' \in {"eject", "feeding"} => caller' = "short"
      BY <1>1 DEF Disconnect, Goto
    <2> QED BY <2>1, LinkFrame DEF DoneInv
  <1>2. CASE Connected
    <2>1. pc' \in {"eject", "feeding"} => caller' = "short"
      BY <1>2 DEF Connected, Goto, AfterConnect, CallerInv
    <2> QED BY <2>1, LinkFrame DEF DoneInv
  <1>3. CASE ConnectFails
    <2>1. pc' \in {"eject", "feeding"} => caller' = "short"
      BY <1>3 DEF ConnectFails, Goto, AfterConnect, CallerInv
    <2> QED BY <2>1, LinkFrame DEF DoneInv
  <1>4. CASE ConnectOnce
    <2>1. pc' \in {"eject", "feeding"} => caller' = "short"
      BY <1>4 DEF ConnectOnce, Goto
    <2> QED BY <2>1, LinkFrame DEF DoneInv
  <1> QED BY <1>1, <1>2, <1>3, <1>4 DEF Link

LEMMA OthersKeepDone == ASSUME Numbers, DoneInv, Printer \/ User PROVE DoneInv'
  <1>1. UNCHANGED <<pc, caller, reply>>
    BY PrinterFrame, UserFrame
  <1>2. wholes' = wholes \/ wholes' = wholes + 1
    BY UserFrame, Zenon DEF Printer, PrintRow, Overrun, StopMotor, Deliver, sheet
  <1>3. buf = 0 => buf' = 0
    <2>1. CASE PrintRow
      BY <2>1 DEF PrintRow
    <2>2. CASE Overrun
      BY <2>2 DEF Overrun
    <2>3. CASE StopMotor
      BY <2>3 DEF StopMotor
    <2>4. CASE Deliver
      BY <2>4 DEF Deliver
    <2>5. CASE AbortArrives
      BY <2>5 DEF AbortArrives, printer
    <2>6. CASE OpenLid
      BY <2>6 DEF OpenLid
    <2>7. CASE CloseLid
      BY <2>7 DEF CloseLid, printer
    <2>8. CASE PullSheet
      BY <2>8 DEF PullSheet, printer
    <2>9. CASE InsertSheet
      BY <2>9 DEF InsertSheet, printer
    <2>10. CASE InsertShortSheet
      BY <2>10 DEF InsertShortSheet, printer
    <2>11. CASE DropLink
      BY <2>11 DEF DropLink
    <2>12. CASE SwitchOff
      BY <2>12 DEF SwitchOff
    <2>13. CASE SwitchOn
      BY <2>13 DEF SwitchOn, printer
    <2> QED BY <2>1, <2>2, <2>3, <2>4, <2>5, <2>6, <2>7, <2>8, <2>9, <2>10, <2>11,
        <2>12, <2>13 DEF Printer, User
  <1> QED BY <1>1, <1>2, <1>3, NumbersAre DEF DoneInv

\* Every step keeps the invariant of OkIsWhole.
LEMMA WholeStep == ASSUME NoQuickLid, WholeInv, [Next]_vars PROVE WholeInv'
  <1> USE DEF WholeInv, IInv
  <1>1. CASE Prints
    BY <1>1, TypesStep, PrintsKeepIntact, PrintsKeepDone DEF Next
  <1>2. CASE Link
    BY <1>2, TypesStep, LinkKeepIntact, LinkKeepDone DEF Next
  <1>3. CASE Wait
    BY <1>3, TypesStep, WaitKeepIntact, WaitKeepDone DEF Next
  <1>4. CASE Printer
    BY <1>4, TypesStep, PrinterKeepIntact, OthersKeepDone DEF Next
  <1>5. CASE User
    BY <1>5, TypesStep, UserKeepIntact, OthersKeepDone DEF Next
  <1>6. CASE UNCHANGED vars
    <2> USE DEF vars, transfer, link, sheet, printer, user
    <2>1. IntactInv'
      BY <1>6 DEF IntactInv, Damaged, Takes
    <2>2. DoneInv'
      BY <1>6 DEF DoneInv
    <2> QED BY <1>6, <2>1, <2>2, TypesStep
  <1> QED BY <1>1, <1>2, <1>3, <1>4, <1>5, <1>6 DEF Next

LEMMA InitWhole == Init => WholeInv
  <1>1. Init => DoneInv
    BY Zenon DEF Init, DoneInv
  <1>2. Init => IntactInv
    BY DEF Init, IntactInv, Printing
  <1> QED BY <1>1, <1>2, InitIInv DEF WholeInv

\* page_end answers ok only when some sheet carries the whole page, however the
\* lid, the sheets, the link, the switch and the abort fall together.
THEOREM OkIsWhole == ASSUME NoQuickLid PROVE Spec => []OkMeansWhole
  <1>1. WholeInv => OkMeansWhole
    BY DEF WholeInv, DoneInv, OkMeansWhole
  <1>2. WholeInv /\ [Next]_vars => WholeInv'
    BY WholeStep
  <1> QED BY InitWhole, <1>1, <1>2, PTL DEF Spec

-----------------------------------------------------------------------------
(* Opened lids and short sheets.                                            *)

\* Where print_bitmap leaves page_end.
LEMMA PrintsPlace ==
  ASSUME CallerInv, Prints
  PROVE  \/ pc' \in {"sending", "padding", "motor", "lid check", "fresh", "end"}
         \/ pc' = "reconnect" /\ caller' = "short"
         \/ pc' = "eject" /\ caller' \in {"done", "cancelled"}
  <1> USE DEF Goto, Answer
  <1>1. CASE StartPrint
    BY <1>1, Zenon DEF StartPrint
  <1>2. CASE PrintNotConnected
    BY <1>2, Zenon DEF PrintNotConnected
  <1>3. CASE StopTransfer
    BY <1>3, Zenon DEF StopTransfer
  <1>4. CASE WriteRow
    BY <1>4, Zenon DEF WriteRow, MaySend
  <1>5. CASE WriteTail
    BY <1>5, Zenon DEF WriteTail
  <1>6. CASE FinishPadding
    BY <1>6, Zenon DEF FinishPadding
  <1>7. CASE WriteFails
    BY <1>7, Zenon DEF WriteFails
  <1>8. CASE MotorStopped
    BY <1>8, Zenon DEF MotorStopped
  <1>9. CASE CompletionTimesOut
    BY <1>9, Zenon DEF CompletionTimesOut
  <1>10. CASE LidCheck
    BY <1>10, Zenon DEF LidCheck
  <1> QED BY <1>1, <1>2, <1>3, <1>4, <1>5, <1>6, <1>7, <1>8, <1>9, <1>10 DEF Prints

LEMMA PrintsKeepChecked ==
  ASSUME CallerInv, LinkedInv, Prints
  PROVE  LinkedInv' /\ CheckedInv'
  <1>1. LinkedInv'
    BY PrintsFrame DEF LinkedInv
  <1>2. CheckedInv'
    BY PrintsPlace DEF CheckedInv, ReadyPhase
  <1> QED BY <1>1, <1>2

LEMMA PrintsKeepAbort ==
  ASSUME CallerInv, LinkedInv, SignalInv, AbortInv, Prints
  PROVE  AbortInv'
  <1>1. CASE StartPrint
    <2>1. UNCHANGED <<reply, abort>> /\ pc' \notin {"padding", "eject", "feeding"}
      BY <1>1, PrintsFrame, Zenon DEF StartPrint, Goto
    <2> QED BY <2>1 DEF AbortInv
  <1>2. CASE PrintNotConnected
    <2>1. client # "up" /\ pc = "print"
      BY <1>2, Zenon DEF PrintNotConnected
    <2> QED BY <2>1 DEF LinkedInv
  <1>3. CASE StopTransfer
    <2>1. caller' = "cancelled" => abort
      BY <1>3, Zenon DEF StopTransfer, MustCancel
    <2>2. UNCHANGED <<reply, abort>>
      BY <1>3, PrintsFrame, Zenon DEF StopTransfer, Goto
    <2> QED BY <2>1, <2>2 DEF AbortInv
  <1>4. CASE WriteRow
    <2>1. UNCHANGED <<reply, pc, caller>>
      BY <1>4, Zenon DEF WriteRow
    <2> QED BY <2>1, PrintsFrame DEF AbortInv
  <1>5. CASE WriteTail
    <2>1. UNCHANGED <<reply, abort>> /\ pc' \notin {"padding", "eject", "feeding"}
      BY <1>5, PrintsFrame, Zenon DEF WriteTail, Goto
    <2> QED BY <2>1 DEF AbortInv
  <1>6. CASE FinishPadding
    <2>1. UNCHANGED <<reply, caller>> /\ pc = "padding"
      BY <1>6, Zenon DEF FinishPadding, Goto
    <2> QED BY <2>1, PrintsFrame DEF AbortInv
  <1>7. CASE WriteFails
    <2>1. UNCHANGED <<reply, abort>> /\ pc' \notin {"padding", "eject", "feeding"}
      BY <1>7, PrintsFrame, Zenon DEF WriteFails, Goto
    <2> QED BY <2>1 DEF AbortInv
  <1>8. CASE MotorStopped
    <2>1. UNCHANGED <<reply, abort>> /\ pc' \notin {"padding", "eject", "feeding"}
      BY <1>8, PrintsFrame, Zenon DEF MotorStopped, Goto
    <2> QED BY <2>1 DEF AbortInv
  <1>9. CASE CompletionTimesOut
    <2>1. pc = "motor" /\ ~stopped /\ (client = "up" => ~motor /\ notes = <<>>)
      BY <1>9, Zenon DEF CompletionTimesOut
    <2> QED BY <2>1 DEF LinkedInv, SignalInv, HasStop
  <1>10. CASE LidCheck
    <2>1. pc' \in {"eject", "feeding", "padding"} => caller' = "done"
      BY <1>10, Zenon DEF LidCheck, Goto
    <2>2. UNCHANGED reply
      BY <1>10, Zenon DEF LidCheck, Goto
    <2> QED BY <2>1, <2>2, PrintsFrame DEF AbortInv
  <1> QED BY <1>1, <1>2, <1>3, <1>4, <1>5, <1>6, <1>7, <1>8, <1>9, <1>10 DEF Prints

\* A page is longer than the one piece that overtakes a notification.
LEMMA LongPage == Rows \in Nat /\ Rows > 1
  BY PageAssumption

LEMMA PrintsKeepSignal ==
  ASSUME Numbers, CallerInv, PaperInv, LinkedInv, CheckedInv, SignalInv, Prints
  PROVE  SignalInv'
  <1>1. CASE StartPrint
    <2>1. pc = "print" /\ pc' = "sending" /\ rows' = 0
      BY <1>1, Zenon DEF StartPrint, Goto
    <2> QED BY <2>1, PrintsFrame DEF SignalInv, Quiet, CheckedInv, Clear, Takes
  <1>2. CASE PrintNotConnected
    <2>1. pc' \notin {"sending", "motor"}
      BY <1>2, Zenon DEF PrintNotConnected, Goto, Answer
    <2> QED BY <2>1 DEF SignalInv
  <1>3. CASE StopTransfer
    <2>1. pc' \notin {"sending", "motor"}
      BY <1>3, Zenon DEF StopTransfer, Goto, Answer
    <2> QED BY <2>1 DEF SignalInv
  <1>4. CASE WriteRow
    <2>1. pc = "sending" /\ rows' = rows + 1 /\ UNCHANGED <<pc, stopped, sawLid>>
      BY <1>4, Zenon DEF WriteRow, MaySend
    <2>2. (motor' <=> motor \/ Takes) /\ (behind' <=> notes # <<>>) /\ ~behind
      BY <1>4, Zenon DEF WriteRow
    <2>3. HasStop => HasStop'
      BY PrintsFrame DEF HasStop
    <2>4. rows < Rows /\ ~MustCancel /\ ~MustStopForLid
      BY <1>4, Zenon DEF WriteRow, MaySend
    <2>5. ~sawLid
      BY <2>4 DEF MustCancel, MustStopForLid
    <2>6. Quiet => motor' \/ Quiet'
      <3>1. CASE rows = 0 /\ lid = "closed" /\ ~mute /\ notes = <<>>
        BY <3>1, <2>2 DEF Takes
      <3>2. CASE notes # <<>> /\ Head(notes) = "lid" /\ (behind \/ rows = 0)
        <4>1. rows' <= 1
          BY <3>2, <2>1, <2>2
        <4>2. behind' /\ notes' # <<>> /\ Head(notes') = "lid"
          BY <3>2, <2>2, PrintsFrame
        <4> QED BY <4>1, <4>2 DEF Quiet
      <3> QED BY <2>5, <3>1, <3>2 DEF Quiet
    <2> QED BY <2>1, <2>2, <2>3, <2>6 DEF SignalInv
  <1>5. CASE WriteTail
    <2>1. pc = "sending" /\ rows = Rows /\ pc' = "motor" /\ UNCHANGED stopped
      BY <1>5, Zenon DEF WriteTail, MaySend, Goto, transfer
    <2>2. motor => motor'
      BY <1>5, Zenon DEF WriteTail
    <2>3. HasStop => HasStop'
      BY PrintsFrame DEF HasStop
    <2>4. ~Quiet
      BY <2>1, NumbersAre, LongPage DEF Quiet
    <2> QED BY <2>1, <2>2, <2>3, <2>4 DEF SignalInv
  <1>6. CASE FinishPadding
    <2>1. pc' \notin {"sending", "motor"}
      BY <1>6, Zenon DEF FinishPadding, Goto, Answer
    <2> QED BY <2>1 DEF SignalInv
  <1>7. CASE WriteFails
    <2>1. pc' \notin {"sending", "motor"}
      BY <1>7, Zenon DEF WriteFails, Goto, Answer
    <2> QED BY <2>1 DEF SignalInv
  <1>8. CASE MotorStopped
    <2>1. pc' \notin {"sending", "motor"}
      BY <1>8, Zenon DEF MotorStopped, Goto, Answer
    <2> QED BY <2>1 DEF SignalInv
  <1>9. CASE CompletionTimesOut
    <2>1. pc' \notin {"sending", "motor"}
      BY <1>9, Zenon DEF CompletionTimesOut, Goto, Answer
    <2> QED BY <2>1 DEF SignalInv
  <1>10. CASE LidCheck
    <2>1. pc' \notin {"sending", "motor"}
      BY <1>10, Zenon DEF LidCheck, Goto, Answer
    <2> QED BY <2>1 DEF SignalInv
  <1> QED BY <1>1, <1>2, <1>3, <1>4, <1>5, <1>6, <1>7, <1>8, <1>9, <1>10 DEF Prints

LEMMA PrintsKeepFresh ==
  ASSUME Numbers, CheckedInv, ~overprint, Prints
  PROVE  ~overprint'
  <1>1. CASE StartPrint
    <2>1. pc = "print" /\ (overprint' <=> ink > 0)
      BY <1>1, Zenon DEF StartPrint
    <2> QED BY <2>1 DEF CheckedInv
  <1>2. CASE PrintNotConnected
    BY <1>2, Zenon DEF PrintNotConnected
  <1>3. CASE StopTransfer
    BY <1>3, Zenon DEF StopTransfer
  <1>4. CASE WriteRow
    BY <1>4, Zenon DEF WriteRow
  <1>5. CASE WriteTail
    BY <1>5, Zenon DEF WriteTail
  <1>6. CASE FinishPadding
    BY <1>6, Zenon DEF FinishPadding
  <1>7. CASE WriteFails
    BY <1>7, Zenon DEF WriteFails
  <1>8. CASE MotorStopped
    BY <1>8, Zenon DEF MotorStopped
  <1>9. CASE CompletionTimesOut
    BY <1>9, Zenon DEF CompletionTimesOut
  <1>10. CASE LidCheck
    BY <1>10, Zenon DEF LidCheck
  <1> QED BY <1>1, <1>2, <1>3, <1>4, <1>5, <1>6, <1>7, <1>8, <1>9, <1>10 DEF Prints

LEMMA LinkKeepOrdinary ==
  ASSUME CallerInv, OrdinaryInv, Link
  PROVE  OrdinaryInv'
  <1>1. CASE Disconnect
    <2>1. pc = "reconnect" /\ pc' = "connecting" /\ UNCHANGED caller
      BY <1>1, Zenon DEF Disconnect, Goto
    <2>2. CheckedInv'
      BY <2>1, LinkFrame DEF OrdinaryInv, CheckedInv, ReadyPhase, Present
    <2> QED BY <2>1, <2>2, LinkFrame DEF OrdinaryInv, LinkedInv, AbortInv, SignalInv
  <1>2. CASE Connected
    <2>1. client' = "up" /\ UNCHANGED caller /\ pc = "connecting" /\ pc' = AfterConnect
      BY <1>2, Zenon DEF Connected, Goto
    <2>2. caller \in {"short", "fresh", "lid", "ready", "settle"}
      BY <2>1 DEF CallerInv
    <2>3. CASE caller = "short"
      <3>1. pc' = "eject"
        BY <2>1, <2>3 DEF AfterConnect
      <3> QED BY <3>1, <2>1, <2>3, LinkFrame
            DEF OrdinaryInv, CheckedInv, LinkedInv, AbortInv, SignalInv, ReadyPhase
    <2>4. CASE caller \in {"fresh", "lid", "ready", "settle"}
      <3>1. pc' = caller
        BY <2>1, <2>4 DEF AfterConnect
      <3>2. CheckedInv'
        <4>1. ReadyPhase' => ReadyPhase
          BY <3>1, <2>1, <2>4 DEF ReadyPhase
        <4>2. UNCHANGED <<buf, ink, motor, room>>
          BY LinkFrame
        <4>3. pc' \in {"fresh", "lid", "ready", "settle"}
          BY <3>1, <2>4
        <4> QED BY <4>1, <4>2, <4>3 DEF OrdinaryInv, CheckedInv, Present
      <3> QED BY <3>1, <3>2, <2>1, <2>4, LinkFrame
            DEF OrdinaryInv, LinkedInv, AbortInv, SignalInv
    <2> QED BY <2>2, <2>3, <2>4
  <1>3. CASE ConnectFails
    <2>1. ~reach
      BY <1>3, Zenon DEF ConnectFails
    <2> QED BY <2>1 DEF OrdinaryInv, LinkedInv
  <1>4. CASE ConnectOnce
    <2>1. client # "up" /\ pc # "connecting"
      BY <1>4 DEF ConnectOnce
    <2> QED BY <2>1 DEF OrdinaryInv, LinkedInv
  <1> QED BY <1>1, <1>2, <1>3, <1>4 DEF Link

\* No wait goes on while connecting.
LEMMA WaitAt ==
  ASSUME Wait
  PROVE  pc # "connecting"
  <1>1. CASE Ask
    BY <1>1, AskingIs DEF Ask, Unasked
  <1>2. CASE EjectAnswered
    BY <1>2, Zenon DEF EjectAnswered
  <1>3. CASE Feed
    BY <1>3 DEF Feed
  <1>4. CASE EjectFails
    BY <1>4 DEF EjectFails
  <1>5. CASE Cancel
    BY <1>5, Zenon DEF Cancel, Aborted
  <1>6. CASE FreshConnected
    BY <1>6, Zenon DEF FreshConnected
  <1>7. CASE WatchLid
    BY <1>7, Zenon DEF WatchLid
  <1>8. CASE WatchLidFails
    BY <1>8, Zenon DEF WatchLidFails
  <1>9. CASE CheckPaper
    BY <1>9, Zenon DEF CheckPaper
  <1>10. CASE ReadyWriteFails
    BY <1>10, Zenon DEF ReadyWriteFails
  <1>11. CASE WatchReady
    BY <1>11, Zenon DEF WatchReady
  <1>12. CASE Settle
    BY <1>12, Zenon DEF Settle
  <1>13. CASE SettleTimesOut
    BY <1>13, Zenon DEF SettleTimesOut
  <1>14. CASE Settled
    BY <1>14, Zenon DEF Settled
  <1> QED BY <1>1, <1>2, <1>3, <1>4, <1>5, <1>6, <1>7, <1>8, <1>9, <1>10, <1>11,
      <1>12, <1>13, <1>14 DEF Wait

LEMMA WaitLinked == ASSUME OrdinaryInv, Wait PROVE client = "up" /\ LinkedInv'
  BY WaitAt, WaitFrame DEF OrdinaryInv, LinkedInv

\* The sheet not moved, a wait changes nothing of the printer.
LEMMA WaitSame ==
  ASSUME Wait, UNCHANGED <<room, ink>>
  PROVE  (Clear' <=> Clear) /\ (Present' <=> Present) /\ (motor' <=> motor)
         /\ UNCHANGED <<buf, ink, notes, lid>>
  BY WaitFrame DEF Clear, Takes, Present

LEMMA WaitKeepChecked ==
  ASSUME Numbers, CallerInv, OrdinaryInv, CheckedInv, Wait
  PROVE  CheckedInv'
  <1>1. CASE Ask
    <2>1. UNCHANGED <<pc, caller, room, ink>>
      BY <1>1, Zenon DEF Ask, World, sheet
    <2>2. ReadyPhase' <=> ReadyPhase
      BY <2>1 DEF ReadyPhase
    <2> QED BY <2>1, <2>2, WaitSame DEF CheckedInv
  <1>2. CASE EjectAnswered
    <2>1. pc = "eject" /\ pc' = "feeding" /\ UNCHANGED <<caller, room, ink>>
      BY <1>2, Zenon DEF EjectAnswered, Goto, World, sheet
    <2> QED BY <2>1, WaitSame DEF CheckedInv, ReadyPhase
  <1>3. CASE Feed
    <2>1. pc = "feeding" /\ caller' = caller /\ (Takes => room' = 0 /\ ink' = 0)
      BY <1>3, Zenon DEF Feed
    <2>2. \/ caller # "fresh" /\ pc' \in {"end", "fresh"}
          \/ caller = "fresh" /\ pc' = "ready"
      BY <1>3, <2>1 DEF Feed, Answer, Goto, CallerInv
    <2>3. CASE caller = "fresh"
      <3>1. Takes /\ buf = 0 /\ room' = 0 /\ ink' = 0 /\ buf' = buf
        BY <2>1, <2>3, WaitFrame DEF CheckedInv, Clear
      <3>2. ~Present'
        BY <3>1, NumbersAre DEF Present
      <3> QED BY <2>2, <2>3, <3>1, <3>2 DEF CheckedInv
    <2>4. CASE caller # "fresh"
      BY <2>2, <2>4 DEF CheckedInv, ReadyPhase
    <2> QED BY <2>3, <2>4
  <1>4. CASE EjectFails
    <2>1. client # "up"
      BY <1>4, Zenon DEF EjectFails
    <2> QED BY <2>1, WaitLinked
  <1>5. CASE Cancel
    <2>1. pc' = "end"
      BY <1>5, Zenon DEF Cancel, Answer
    <2> QED BY <2>1, WaitSame DEF CheckedInv, ReadyPhase
  <1>6. CASE FreshConnected
    <2>1. pc' = "lid"
      BY <1>6, Zenon DEF FreshConnected, Goto
    <2> QED BY <2>1, WaitSame DEF CheckedInv, ReadyPhase
  <1>7. CASE WatchLid
    <2>1. \/ pc' = "lid"
          \/ pc' = "reconnect" /\ caller' = "lid"
          \/ pc' = "paper" /\ Heard("closed") /\ pc = "lid"
      BY <1>7, Zenon DEF WatchLid, CountMute, Goto
    <2>2. Heard("closed") /\ pc = "lid" => lid = "closed" /\ ~mute /\ buf = 0
      BY DEF Heard, Sensor, PaperQueries
    <2>3. pc' = "paper" => Clear'
      BY <2>1, <2>2, WaitFrame DEF Clear, Takes
    <2> QED BY <2>1, <2>3 DEF CheckedInv, ReadyPhase
  <1>8. CASE WatchLidFails
    <2>1. pc' = "end"
      BY <1>8, Zenon DEF WatchLidFails, Answer
    <2> QED BY <2>1, WaitSame DEF CheckedInv, ReadyPhase
  <1>9. CASE CheckPaper
    <2>1. pc = "paper" /\ UNCHANGED <<room, ink>>
      BY <1>9, Zenon DEF CheckPaper, World, sheet
    <2>2. \/ pc' = "eject"
          \/ pc' = "ready" /\ (Heard("absent") \/ Heard("none") \/ WriteRefused)
      BY <1>9, Zenon DEF CheckPaper, Goto
    <2>3. Clear /\ client = "up" /\ Clear' /\ buf' = buf
      BY <2>1, WaitLinked, WaitFrame DEF CheckedInv, Clear, Takes
    <2>4. ~Heard("none") /\ ~WriteRefused
      BY <2>3 DEF Heard, WriteRefused, Clear, Takes, Sensor
    <2>5. Heard("absent") => ~Present
      BY <2>1, <2>3 DEF Heard, Sensor, PaperQueries
    <2>6. CASE pc' = "eject"
      BY <2>3, <2>6 DEF CheckedInv, ReadyPhase
    <2>7. CASE pc' = "ready"
      <3>1. buf' = 0 /\ ~Present'
        BY <2>1, <2>2, <2>3, <2>4, <2>5, <2>7, WaitSame DEF Clear
      <3> QED BY <2>7, <3>1 DEF CheckedInv
    <2> QED BY <2>2, <2>6, <2>7
  <1>10. CASE ReadyWriteFails
    <2>1. client # "up"
      BY <1>10, Zenon DEF ReadyWriteFails, WriteRefused
    <2> QED BY <2>1, WaitLinked
  <1>11. CASE WatchReady
    <2>1. pc \in {"ready", "ready paper"} /\ UNCHANGED <<room, ink>>
          /\ (\/ pc' \in {"ready", "ready paper", "settle"}
              \/ pc' = "reconnect" /\ caller' = "ready")
      BY <1>11, Zenon DEF WatchReady, CountMute, Goto, World, sheet
    <2>2. buf' = 0 /\ (ink' > 0 \/ motor' => ~Present')
      <3>1. ReadyPhase
        BY <2>1 DEF ReadyPhase
      <3>2. buf = 0 /\ (ink > 0 \/ motor => ~Present)
        BY <3>1 DEF CheckedInv
      <3> QED BY <2>1, <3>2, WaitSame
    <2> QED BY <2>1, <2>2 DEF CheckedInv
  <1>12. CASE Settle
    <2>1. UNCHANGED <<room, ink>> /\ pc \in {"settle", "settle paper"}
      BY <1>12, Zenon DEF Settle, World, sheet
    <2>2. \/ pc' = "settle"
          \/ pc' = "reconnect" /\ caller' = "settle"
          \/ pc' = "settle paper" /\ Heard("closed") /\ pc = "settle"
          \/ pc' = "settling" /\ Heard("present") /\ pc = "settle paper"
      BY <1>12, Zenon DEF Settle, SettleMute, Goto
    <2>3. Heard("closed") /\ pc = "settle" => lid = "closed"
      BY DEF Heard, Sensor, PaperQueries
    <2>4. Heard("present") /\ pc = "settle paper" => Present /\ ~mute /\ buf = 0 /\ notes = <<>>
      BY DEF Heard, Sensor, PaperQueries
    <2>5. ReadyPhase /\ (Present' <=> Present)
      BY <2>1 DEF ReadyPhase, Present
    <2>6. pc' \in {"settle", "reconnect", "settle paper"} => CheckedInv'
      BY <2>1, <2>2, <2>3, <2>5, WaitFrame DEF CheckedInv
    <2>7. pc' = "settling" => CheckedInv'
      <3> SUFFICES ASSUME pc' = "settling" PROVE CheckedInv'
        OBVIOUS
      <3>1. pc = "settle paper" /\ Present /\ ~mute /\ buf = 0 /\ notes = <<>>
        BY <2>2, <2>4
      <3>2. lid = "closed" /\ ~(ink > 0) /\ ~motor
        BY <3>1, <2>5 DEF CheckedInv
      <3>3. ink' = 0 /\ Clear' /\ ~motor' /\ Present' /\ notes' = <<>>
        <4>1. Clear
          BY <3>1, <3>2 DEF Clear, Takes
        <4>2. ink = 0
          BY <3>2, NumbersAre
        <4>3. ink' = ink /\ notes' = notes /\ Clear' /\ ~motor' /\ Present'
          BY <3>1, <3>2, <4>1, <2>1, WaitSame
        <4> QED BY <3>1, <4>2, <4>3
      <3> QED BY <3>3 DEF CheckedInv, ReadyPhase
    <2> QED BY <2>2, <2>6, <2>7
  <1>13. CASE SettleTimesOut
    <2>1. pc \in {"settle", "settle paper"} /\ pc' = "ready" /\ UNCHANGED <<room, ink>>
      BY <1>13, Zenon DEF SettleTimesOut, Goto, World, sheet
    <2>2. buf' = 0 /\ (ink' > 0 \/ motor' => ~Present')
      <3>1. ReadyPhase
        BY <2>1 DEF ReadyPhase
      <3>2. buf = 0 /\ (ink > 0 \/ motor => ~Present)
        BY <3>1 DEF CheckedInv
      <3> QED BY <2>1, <3>2, WaitSame
    <2> QED BY <2>1, <2>2 DEF CheckedInv
  <1>14. CASE Settled
    <2>1. pc = "settling" /\ pc' = "print" /\ UNCHANGED <<room, ink>>
      BY <1>14, Zenon DEF Settled, Goto, World, sheet
    <2> QED BY <2>1, WaitFrame DEF CheckedInv, ReadyPhase, Present, Clear, Takes
  <1> QED BY <1>1, <1>2, <1>3, <1>4, <1>5, <1>6, <1>7, <1>8, <1>9, <1>10, <1>11,
      <1>12, <1>13, <1>14 DEF Wait

LEMMA WaitKeepAbort ==
  ASSUME CallerInv, OrdinaryInv, AbortInv, Wait
  PROVE  AbortInv'
  <1>1. CASE Ask
    <2>1. UNCHANGED <<pc, caller, reply>>
      BY <1>1, Zenon DEF Ask
    <2> QED BY <2>1, WaitFrame DEF AbortInv
  <1>2. CASE EjectAnswered
    <2>1. pc = "eject" /\ UNCHANGED <<caller, reply>>
      BY <1>2, Zenon DEF EjectAnswered, Goto
    <2> QED BY <2>1, WaitFrame DEF AbortInv
  <1>3. CASE Feed
    <2>1. pc = "feeding" /\ caller' = caller
      BY <1>3, Zenon DEF Feed
    <2>2. \/ caller = "done" /\ pc' = "end" /\ reply' = "ok"
          \/ caller = "cancelled" /\ pc' = "end"
          \/ reply' = reply /\ pc' \in {"fresh", "ready"}
      BY <1>3, <2>1 DEF Feed, Answer, Goto, CallerInv
    <2> QED BY <2>1, <2>2, WaitFrame DEF AbortInv
  <1>4. CASE EjectFails
    <2>1. client # "up"
      BY <1>4, Zenon DEF EjectFails, WriteRefused
    <2> QED BY <2>1, WaitLinked
  <1>5. CASE Cancel
    <2>1. abort /\ pc' = "end"
      BY <1>5, Zenon DEF Cancel, Aborted, Answer
    <2> QED BY <2>1, WaitFrame DEF AbortInv
  <1>6. CASE FreshConnected
    <2>1. UNCHANGED reply /\ pc' \notin {"padding", "eject", "feeding"}
      BY <1>6, Zenon DEF FreshConnected, Goto
    <2> QED BY <2>1, WaitFrame DEF AbortInv
  <1>7. CASE WatchLid
    <2>1. UNCHANGED reply /\ pc' \notin {"padding", "eject", "feeding"}
      BY <1>7, Zenon DEF WatchLid, Goto, CountMute
    <2> QED BY <2>1, WaitFrame DEF AbortInv
  <1>8. CASE WatchLidFails
    <2>1. client = "none"
      BY <1>8, Zenon DEF WatchLidFails
    <2> QED BY <2>1, WaitLinked
  <1>9. CASE CheckPaper
    <2>1. UNCHANGED reply /\ (pc' = "ready" \/ caller' = "fresh")
      BY <1>9, Zenon DEF CheckPaper, Goto
    <2> QED BY <2>1, WaitFrame DEF AbortInv
  <1>10. CASE ReadyWriteFails
    <2>1. client # "up"
      BY <1>10, Zenon DEF ReadyWriteFails, WriteRefused
    <2> QED BY <2>1, WaitLinked
  <1>11. CASE WatchReady
    <2>1. UNCHANGED reply /\ pc' \notin {"padding", "eject", "feeding"}
      BY <1>11, Zenon DEF WatchReady, Goto, CountMute
    <2> QED BY <2>1, WaitFrame DEF AbortInv
  <1>12. CASE Settle
    <2>1. UNCHANGED reply /\ pc' \notin {"padding", "eject", "feeding"}
      BY <1>12, Zenon DEF Settle, Goto, SettleMute
    <2> QED BY <2>1, WaitFrame DEF AbortInv
  <1>13. CASE SettleTimesOut
    <2>1. UNCHANGED reply /\ pc' \notin {"padding", "eject", "feeding"}
      BY <1>13, Zenon DEF SettleTimesOut, Goto
    <2> QED BY <2>1, WaitFrame DEF AbortInv
  <1>14. CASE Settled
    <2>1. UNCHANGED reply /\ pc' \notin {"padding", "eject", "feeding"}
      BY <1>14, Zenon DEF Settled, Goto
    <2> QED BY <2>1, WaitFrame DEF AbortInv
  <1> QED BY <1>1, <1>2, <1>3, <1>4, <1>5, <1>6, <1>7, <1>8, <1>9, <1>10, <1>11,
      <1>12, <1>13, <1>14 DEF Wait

\* No wait starts or continues the raster.
LEMMA WaitAsks ==
  ASSUME CallerInv, Wait
  PROVE  pc' \notin {"sending", "motor"}
  <1>1. Ask => pc' = pc /\ pc \in Asking
    BY Zenon DEF Ask, Unasked
  <1> QED BY <1>1, AskingIs, WaitPlace DEF Printing

LEMMA WaitKeepOrdinary ==
  ASSUME Numbers, CallerInv, OrdinaryInv, Wait
  PROVE  OrdinaryInv'
  BY WaitAsks, WaitLinked, WaitKeepChecked, WaitKeepAbort, WaitFrame
        DEF OrdinaryInv, SignalInv

\* What becomes of a motor stop on its way.
LEMMA StopAppended ==
  ASSUME Lists, notes' = Append(notes, "stop")
  PROVE  HasStop'
  <1>1. Len(notes') = Len(notes) + 1 /\ notes'[Len(notes) + 1] = "stop" /\ Len(notes) \in Nat
    BY DEF Lists
  <1> QED BY <1>1 DEF HasStop

LEMMA StopStays ==
  ASSUME Lists, HasStop,
         NEW s \in Seq({"lid", "absent", "stop"}), notes' = notes \o s
  PROVE  HasStop'
  <1>1. PICK i \in 1 .. Len(notes) : notes[i] = "stop"
    BY DEF HasStop
  <1>2. Len(notes') = Len(notes) + Len(s) /\ notes'[i] = notes[i]
    BY DEF Lists
  <1> QED BY <1>1, <1>2, LenProperties DEF HasStop, Lists

LEMMA StopDelivered ==
  ASSUME Lists, notes # <<>>, notes' = Tail(notes), HasStop
  PROVE  Head(notes) = "stop" \/ HasStop'
  <1>1. PICK i \in 1 .. Len(notes) : notes[i] = "stop"
    BY DEF HasStop
  <1>2. CASE i = 1
    BY <1>1, <1>2 DEF Lists
  <1>3. CASE i > 1
    <2>1. Len(notes') = Len(notes) - 1 /\ notes'[i - 1] = notes[i]
      BY <1>1, <1>3 DEF Lists
    <2>2. i - 1 \in 1 .. Len(notes')
      BY <1>1, <1>3, <2>1 DEF Lists
    <2> QED BY <1>1, <2>1, <2>2 DEF HasStop
  <1> QED BY <1>1, <1>2, <1>3

LEMMA PrinterKeepChecked ==
  ASSUME Numbers, CheckedInv, Printer
  PROVE  CheckedInv'
  <1>1. CASE PrintRow
    <2>1. buf > 0
      BY <1>1, Zenon DEF PrintRow
    <2>2. ~Clear /\ ~ReadyPhase
      <3>1. ReadyPhase => buf = 0
        BY Zenon DEF CheckedInv
      <3> QED BY <2>1, <3>1 DEF Clear
    <2>3. ReadyPhase' <=> ReadyPhase
      BY PrinterFrame DEF ReadyPhase
    <2> QED BY <2>2, <2>3, PrinterFrame DEF CheckedInv
  <1>2. CASE Overrun
    <2>1. buf > 0
      BY <1>2, Zenon DEF Overrun
    <2>2. ~Clear /\ ~ReadyPhase
      <3>1. ReadyPhase => buf = 0
        BY Zenon DEF CheckedInv
      <3> QED BY <2>1, <3>1 DEF Clear
    <2>3. ReadyPhase' <=> ReadyPhase
      BY PrinterFrame DEF ReadyPhase
    <2> QED BY <2>2, <2>3, PrinterFrame DEF CheckedInv
  <1>3. CASE StopMotor
    <2>1. motor /\ ~motor' /\ UNCHANGED <<buf, room, ink, mute>>
      BY <1>3, Zenon DEF StopMotor, sheet
    <2>2. (Clear' <=> Clear) /\ (Present' <=> Present) /\ (ReadyPhase' <=> ReadyPhase)
      BY <2>1, PrinterFrame DEF Clear, Takes, Present, ReadyPhase
    <2> QED BY <2>1, <2>2, PrinterFrame DEF CheckedInv
  <1>4. CASE Deliver
    <2>1. notes # <<>> /\ UNCHANGED <<buf, room, ink, mute>> /\ (motor' <=> motor)
      BY <1>4, Zenon DEF Deliver, sheet
    <2>2. (Clear' <=> Clear) /\ (Present' <=> Present) /\ (ReadyPhase' <=> ReadyPhase)
      BY <2>1, PrinterFrame DEF Clear, Takes, Present, ReadyPhase
    <2> QED BY <2>1, <2>2, PrinterFrame DEF CheckedInv
  <1> QED BY <1>1, <1>2, <1>3, <1>4 DEF Printer

LEMMA PrinterKeepSignal ==
  ASSUME Lists, Numbers, LinkedInv, SignalInv, Printer
  PROVE  SignalInv'
  <1>1. CASE PrintRow
    <2>1. motor'
      BY <1>1, Zenon DEF PrintRow
    <2> QED BY <2>1 DEF SignalInv
  <1>2. CASE Overrun
    <2>1. client = "up" => notes' = Append(notes, "stop")
      BY <1>2 DEF Overrun
    <2>2. pc' \in {"sending", "motor"} => HasStop'
      BY <2>1, StopAppended, PrinterFrame DEF LinkedInv
    <2> QED BY <2>2 DEF SignalInv
  <1>3. CASE StopMotor
    <2>1. client = "up" => notes' = Append(notes, "stop")
      BY <1>3 DEF StopMotor
    <2>2. pc' \in {"sending", "motor"} => HasStop'
      BY <2>1, StopAppended, PrinterFrame DEF LinkedInv
    <2> QED BY <2>2 DEF SignalInv
  <1>4. CASE Deliver
    <2>1. /\ notes # <<>> /\ notes' = Tail(notes) /\ (motor => motor')
          /\ (stopped => stopped') /\ (sawLid => sawLid')
      BY <1>4, Zenon DEF Deliver
    <2>2. pc \in Printing => /\ Head(notes) = "stop" => stopped'
                             /\ Head(notes) = "lid" => sawLid'
      BY <1>4, Zenon DEF Deliver
    <2>3. HasStop => Head(notes) = "stop" \/ HasStop'
      BY <2>1, StopDelivered
    <2>4. pc = "sending" /\ Quiet => Quiet'
      <3> SUFFICES ASSUME pc = "sending", Quiet PROVE Quiet'
        OBVIOUS
      <3>1. rows <= 1 /\ (sawLid \/ Head(notes) = "lid")
        BY <2>1, Zenon DEF Quiet
      <3>2. sawLid'
        BY <2>1, <2>2, <3>1 DEF Printing
      <3> QED BY <3>1, <3>2, PrinterFrame DEF Quiet
    <2>5. pc \in {"sending", "motor"} => pc \in Printing
      BY DEF Printing
    <2> QED BY <2>1, <2>2, <2>3, <2>4, <2>5, PrinterFrame DEF SignalInv
  <1> QED BY <1>1, <1>2, <1>3, <1>4 DEF Printer

LEMMA PrinterKeepOrdinary ==
  ASSUME Lists, Numbers, OrdinaryInv, Printer
  PROVE  OrdinaryInv'
  <1>1. LinkedInv' /\ AbortInv' /\ ~overprint'
    BY PrinterFrame DEF OrdinaryInv, LinkedInv, AbortInv
  <1> QED BY <1>1, PrinterKeepChecked, PrinterKeepSignal DEF OrdinaryInv

\* With the ordinary faults alone the connection holds.
LEMMA UserOrdinary ==
  ASSUME OrdinaryInv, Ordinary', User
  PROVE  ~DropLink /\ ~SwitchOff /\ ~SwitchOn
  <1>1. DropLink => "drop" \in met'
    BY DEF DropLink, Fault
  <1>2. SwitchOff => "off" \in met'
    BY DEF SwitchOff, Fault
  <1>3. SwitchOn => ~reach
    BY Zenon DEF SwitchOn
  <1> QED BY <1>1, <1>2, <1>3 DEF Ordinary, OrdinaryInv, LinkedInv

\* With them the lid stays closed while the sheet is ejected and before the print.
LEMMA LidOrdinary ==
  ASSUME Ordinary', OpenLid
  PROVE  pc \notin {"paper", "eject", "feeding", "print", "settle paper", "settling"}
  <1>1. LidFault \in met'
    BY DEF OpenLid, Fault
  <1> QED BY <1>1 DEF Ordinary, LidFault

LEMMA UserKeepLinked ==
  ASSUME OrdinaryInv, Ordinary', User
  PROVE  LinkedInv' /\ AbortInv' /\ ~overprint'
  <1>1. CASE AbortArrives
    <2>1. UNCHANGED <<client, reach>> /\ (abort => abort')
      BY <1>1, Zenon DEF AbortArrives, link, user
    <2> QED BY <2>1, UserFrame DEF OrdinaryInv, LinkedInv, AbortInv
  <1>2. CASE OpenLid
    <2>1. UNCHANGED <<client, reach>> /\ (abort => abort')
      BY <1>2, Zenon DEF OpenLid, link, user
    <2> QED BY <2>1, UserFrame DEF OrdinaryInv, LinkedInv, AbortInv
  <1>3. CASE CloseLid
    <2>1. UNCHANGED <<client, reach>> /\ (abort => abort')
      BY <1>3, Zenon DEF CloseLid, link, user
    <2> QED BY <2>1, UserFrame DEF OrdinaryInv, LinkedInv, AbortInv
  <1>4. CASE PullSheet
    <2>1. UNCHANGED <<client, reach>> /\ (abort => abort')
      BY <1>4, Zenon DEF PullSheet, link, user
    <2> QED BY <2>1, UserFrame DEF OrdinaryInv, LinkedInv, AbortInv
  <1>5. CASE InsertSheet
    <2>1. UNCHANGED <<client, reach>> /\ (abort => abort')
      BY <1>5, Zenon DEF InsertSheet, link, user
    <2> QED BY <2>1, UserFrame DEF OrdinaryInv, LinkedInv, AbortInv
  <1>6. CASE InsertShortSheet
    <2>1. UNCHANGED <<client, reach>> /\ (abort => abort')
      BY <1>6, Zenon DEF InsertShortSheet, link, user
    <2> QED BY <2>1, UserFrame DEF OrdinaryInv, LinkedInv, AbortInv
  <1>7. CASE DropLink
    BY <1>7, UserOrdinary
  <1>8. CASE SwitchOff
    BY <1>8, UserOrdinary
  <1>9. CASE SwitchOn
    BY <1>9, UserOrdinary
  <1> QED BY <1>1, <1>2, <1>3, <1>4, <1>5, <1>6, <1>7, <1>8, <1>9 DEF User

LEMMA UserKeepChecked ==
  ASSUME OrdinaryInv, Numbers, CheckedInv, Ordinary', User
  PROVE  CheckedInv'
  <1>1. CASE AbortArrives
    <2>1. UNCHANGED <<buf, room, ink, mute, lid, notes>> /\ (motor' <=> motor)
      BY <1>1, Zenon DEF AbortArrives, sheet, printer
    <2>2. (Clear' <=> Clear) /\ (Present' <=> Present) /\ (ReadyPhase' <=> ReadyPhase)
      BY <2>1, UserFrame DEF Clear, Takes, Present, ReadyPhase
    <2> QED BY <2>1, <2>2, UserFrame DEF CheckedInv
  <1>2. CASE OpenLid
    <2>1. buf' = 0 /\ ~motor' /\ UNCHANGED <<room, ink>>
      BY <1>2, Zenon DEF OpenLid, sheet
    <2>2. (Present' <=> Present) /\ (ReadyPhase' <=> ReadyPhase)
      BY <2>1, UserFrame DEF Present, ReadyPhase
    <2> QED BY <1>2, <2>1, <2>2, LidOrdinary, UserFrame DEF CheckedInv
  <1>3. CASE CloseLid
    <2>1. lid = "open" /\ lid' = "closed" /\ UNCHANGED <<buf, room, ink, notes>> /\ (motor' <=> motor)
      BY <1>3, Zenon DEF CloseLid, sheet, printer
    <2>2. ~Clear /\ (Present' <=> Present) /\ (ReadyPhase' <=> ReadyPhase)
      BY <2>1, UserFrame DEF Clear, Takes, Present, ReadyPhase
    <2> QED BY <2>1, <2>2, UserFrame DEF CheckedInv
  <1>4. CASE PullSheet
    <2>1. /\ lid = "open" /\ room' = 0 /\ ink' = 0
          /\ UNCHANGED <<buf, mute, lid, notes>> /\ (motor' <=> motor)
      BY <1>4, Zenon DEF PullSheet, printer, user
    <2>2. ~Clear /\ ~Present' /\ (ReadyPhase' <=> ReadyPhase)
      BY <2>1, UserFrame, NumbersAre DEF Clear, Takes, Present, ReadyPhase
    <2> QED BY <2>1, <2>2, UserFrame DEF CheckedInv
  <1>5. CASE InsertSheet
    <2>1. /\ ~Present /\ ~motor /\ ink' = 0
          /\ UNCHANGED <<buf, mute, lid, notes>> /\ (motor' <=> motor)
      BY <1>5, Zenon DEF InsertSheet, printer, user
    <2>2. (Clear' <=> Clear) /\ (ReadyPhase' <=> ReadyPhase)
      BY <2>1, UserFrame DEF Clear, Takes, ReadyPhase
    <2>3. pc \notin {"settling", "print"} /\ (ReadyPhase => buf = 0)
      BY <2>1, Zenon DEF CheckedInv
    <2>4. ~(ink' > 0 \/ motor')
      BY <2>1
    <2> QED BY <2>1, <2>2, <2>3, <2>4, UserFrame DEF CheckedInv
  <1>6. CASE InsertShortSheet
    <2>1. /\ ~Present /\ ~motor /\ ink' = 0
          /\ UNCHANGED <<buf, mute, lid, notes>> /\ (motor' <=> motor)
      BY <1>6, Zenon DEF InsertShortSheet, printer, user
    <2>2. (Clear' <=> Clear) /\ (ReadyPhase' <=> ReadyPhase)
      BY <2>1, UserFrame DEF Clear, Takes, ReadyPhase
    <2>3. pc \notin {"settling", "print"} /\ (ReadyPhase => buf = 0)
      BY <2>1, Zenon DEF CheckedInv
    <2>4. ~(ink' > 0 \/ motor')
      BY <2>1
    <2> QED BY <2>1, <2>2, <2>3, <2>4, UserFrame DEF CheckedInv
  <1>7. CASE DropLink
    BY <1>7, UserOrdinary
  <1>8. CASE SwitchOff
    BY <1>8, UserOrdinary
  <1>9. CASE SwitchOn
    BY <1>9, UserOrdinary
  <1> QED BY <1>1, <1>2, <1>3, <1>4, <1>5, <1>6, <1>7, <1>8, <1>9 DEF User

LEMMA UserKeepSignal ==
  ASSUME OrdinaryInv, Lists, PaperInv, SignalInv, Ordinary', User
  PROVE  SignalInv'
  <1>1. CASE AbortArrives
    <2>1. UNCHANGED <<notes, lid, mute, behind>> /\ (motor' <=> motor)
      BY <1>1, Zenon DEF AbortArrives, printer, user
    <2>2. (HasStop' <=> HasStop) /\ (Quiet' <=> Quiet)
      BY <2>1, UserFrame DEF HasStop, Quiet
    <2> QED BY <2>1, <2>2, UserFrame DEF SignalInv
  <1>2. CASE OpenLid
    <2> SUFFICES ASSUME pc \in {"sending", "motor"}
                 PROVE  stopped' \/ HasStop' \/ (pc = "sending" /\ Quiet')
      BY UserFrame DEF SignalInv
    <2>1. client = "up"
      BY DEF OrdinaryInv, LinkedInv
    <2>2. CASE motor
      <3>1. ~mute
        BY <2>2 DEF PaperInv, Takes
      <3>2. notes' = notes \o <<"lid", "stop">>
        BY <1>2, <2>1, <2>2, <3>1 DEF OpenLid
      <3>3. Len(notes') = Len(notes) + 2 /\ notes'[Len(notes) + 2] = "stop" /\ Len(notes) \in Nat
        BY <3>2 DEF Lists
      <3> QED BY <3>3 DEF HasStop
    <2>3. CASE stopped
      BY <2>3, UserFrame
    <2>4. CASE HasStop /\ ~motor
      <3>1. notes' = notes \/ notes' = notes \o <<"lid">>
        BY <1>2, <2>4 DEF OpenLid
      <3>2. <<"lid">> \in Seq({"lid", "absent", "stop"})
        OBVIOUS
      <3>3. notes' = notes => HasStop'
        BY <2>4 DEF HasStop
      <3> QED BY <2>4, <3>1, <3>2, <3>3, StopStays
    <2>5. CASE pc = "sending" /\ Quiet /\ ~motor
      <3>1. notes' = notes \/ notes' = notes \o <<"lid">>
        BY <1>2, <2>5 DEF OpenLid
      <3>2. CASE rows = 0 /\ lid = "closed" /\ ~mute /\ notes = <<>>
        <4>1. notes' = <<>> \o <<"lid">>
          BY <1>2, <2>1, <2>5, <3>2 DEF OpenLid
        <4>2. notes' # <<>> /\ Head(notes') = "lid"
          BY <4>1
        <4> QED BY <2>5, <3>2, <4>2, UserFrame DEF Quiet
      <3>3. CASE rows <= 1 /\ sawLid
        BY <2>5, <3>3, UserFrame DEF Quiet
      <3>4. CASE /\ rows <= 1 /\ notes # <<>> /\ Head(notes) = "lid"
                 /\ (behind \/ rows = 0)
        <4>1. notes' # <<>> /\ Head(notes') = "lid"
          BY <3>1, <3>4 DEF Lists
        <4>2. behind' <=> behind
          BY <1>2, Zenon DEF OpenLid
        <4> QED BY <2>5, <3>4, <4>1, <4>2, UserFrame DEF Quiet
      <3> QED BY <2>5, <3>2, <3>3, <3>4 DEF Quiet
    <2> QED BY <2>2, <2>3, <2>4, <2>5 DEF SignalInv
  <1>3. CASE CloseLid
    <2>1. lid = "open" /\ UNCHANGED <<notes, behind>>
      BY <1>3, Zenon DEF CloseLid, printer
    <2>2. ~motor
      BY <2>1 DEF PaperInv, Takes
    <2>3. HasStop' <=> HasStop
      BY <2>1 DEF HasStop
    <2>4. Quiet => Quiet'
      BY <2>1, UserFrame DEF Quiet
    <2> QED BY <2>2, <2>3, <2>4, UserFrame DEF SignalInv
  <1>4. CASE PullSheet
    <2>1. UNCHANGED <<notes, lid, mute, behind>> /\ (motor' <=> motor)
      BY <1>4, Zenon DEF PullSheet, printer, user
    <2>2. (HasStop' <=> HasStop) /\ (Quiet' <=> Quiet)
      BY <2>1, UserFrame DEF HasStop, Quiet
    <2> QED BY <2>1, <2>2, UserFrame DEF SignalInv
  <1>5. CASE InsertSheet
    <2>1. pc \notin Printing
      BY <1>5, Zenon DEF InsertSheet
    <2> QED BY <2>1, UserFrame DEF SignalInv, Printing
  <1>6. CASE InsertShortSheet
    <2>1. pc \notin Printing
      BY <1>6, Zenon DEF InsertShortSheet
    <2> QED BY <2>1, UserFrame DEF SignalInv, Printing
  <1>7. CASE DropLink
    BY <1>7, UserOrdinary
  <1>8. CASE SwitchOff
    BY <1>8, UserOrdinary
  <1>9. CASE SwitchOn
    BY <1>9, UserOrdinary
  <1> QED BY <1>1, <1>2, <1>3, <1>4, <1>5, <1>6, <1>7, <1>8, <1>9 DEF User

LEMMA UserKeepOrdinary ==
  ASSUME Lists, Numbers, PaperInv, OrdinaryInv, Ordinary', User
  PROVE  OrdinaryInv'
  BY UserKeepLinked, UserKeepChecked, UserKeepSignal DEF OrdinaryInv

LEMMA PrintsKeepOrdinary ==
  ASSUME Numbers, CallerInv, PaperInv, OrdinaryInv, Prints
  PROVE  OrdinaryInv'
  BY PrintsKeepChecked, PrintsKeepAbort, PrintsKeepSignal, PrintsKeepFresh
      DEF OrdinaryInv

\* What a page has met it keeps.
LEMMA MetGrows == ASSUME CallerInv, [Next]_vars, Ordinary' PROVE Ordinary
  <1>1. CASE Prints \/ Link \/ Wait \/ Printer
    BY <1>1, PrintsFrame, LinkFrame, WaitFrame, PrinterFrame DEF Ordinary
  <1>2. CASE User
    <2>1. met \subseteq met'
      <3>1. CASE AbortArrives
        BY <3>1 DEF AbortArrives, Fault, user, troubles
      <3>2. CASE OpenLid
        BY <3>2 DEF OpenLid, Fault, user, troubles
      <3>3. CASE CloseLid
        BY <3>3 DEF CloseLid, Fault, user, troubles
      <3>4. CASE PullSheet
        BY <3>4 DEF PullSheet, Fault, user, troubles
      <3>5. CASE InsertSheet
        BY <3>5 DEF InsertSheet, Fault, user, troubles
      <3>6. CASE InsertShortSheet
        BY <3>6 DEF InsertShortSheet, Fault, user, troubles
      <3>7. CASE DropLink
        BY <3>7 DEF DropLink, Fault, user, troubles
      <3>8. CASE SwitchOff
        BY <3>8 DEF SwitchOff, Fault, user, troubles
      <3>9. CASE SwitchOn
        BY <3>9 DEF SwitchOn, Fault, user, troubles
      <3> QED BY <1>2, <3>1, <3>2, <3>3, <3>4, <3>5, <3>6, <3>7, <3>8, <3>9 DEF User
    <2> QED BY <2>1 DEF Ordinary
  <1>3. CASE UNCHANGED vars
    BY <1>3 DEF vars, user, troubles, Ordinary
  <1> QED BY <1>1, <1>2, <1>3 DEF Next

\* Every step keeps the ordinary invariant as long as the page stays ordinary.
LEMMA OrdStep == ASSUME IInv, OrdInv, [Next]_vars PROVE OrdInv'
  <1> SUFFICES ASSUME Ordinary' PROVE OrdinaryInv'
    BY DEF OrdInv
  <1>0. OrdinaryInv
    BY MetGrows DEF OrdInv, IInv
  <1> USE <1>0 DEF IInv
  <1>1. CASE Prints
    BY <1>1, PrintsKeepOrdinary
  <1>2. CASE Link
    BY <1>2, LinkKeepOrdinary
  <1>3. CASE Wait
    BY <1>3, WaitKeepOrdinary
  <1>4. CASE Printer
    BY <1>4, PrinterKeepOrdinary
  <1>5. CASE User
    BY <1>5, UserKeepOrdinary
  <1>6. CASE UNCHANGED vars
    <2> USE DEF vars, transfer, link, sheet, printer, user, OrdinaryInv
    <2>1. LinkedInv' /\ AbortInv' /\ ~overprint'
      BY <1>6 DEF LinkedInv, AbortInv
    <2>2. (Clear' <=> Clear) /\ (Present' <=> Present) /\ (ReadyPhase' <=> ReadyPhase)
          /\ (motor' <=> motor)
      BY <1>6 DEF Clear, Takes, Present, ReadyPhase
    <2>3. CheckedInv'
      <3>1. UNCHANGED <<pc, caller, buf, ink, lid, notes>>
        BY <1>6, Zenon
      <3> QED BY <2>2, <3>1 DEF CheckedInv
    <2>4. SignalInv'
      <3>1. UNCHANGED <<pc, notes, rows, lid, mute, sawLid, behind, stopped>>
        BY <1>6, Zenon
      <3>2. (HasStop' <=> HasStop) /\ (Quiet' <=> Quiet)
        BY <3>1 DEF HasStop, Quiet
      <3> QED BY <2>2, <3>1, <3>2 DEF SignalInv
    <2> QED BY <2>1, <2>3, <2>4
  <1> QED BY <1>1, <1>2, <1>3, <1>4, <1>5, <1>6 DEF Next

LEMMA InitOrd == Init => OrdInv
  <1> SUFFICES ASSUME Init PROVE OrdinaryInv
    BY DEF OrdInv
  <1>1. LinkedInv /\ AbortInv /\ ~overprint
    BY DEF Init, LinkedInv, AbortInv
  <1>2. CheckedInv
    <2>1. room = Rows \/ room = ShortSheet
      BY Zenon DEF Init
    <2>2. Present
      BY <2>1, PageAssumption DEF Present
    <2>3. Clear
      BY DEF Init, Clear, Takes
    <2>4. pc = "print" /\ ink = 0 /\ ~motor /\ notes = <<>>
      BY Zenon DEF Init
    <2> QED BY <2>2, <2>3, <2>4 DEF CheckedInv, ReadyPhase
  <1>3. SignalInv
    BY DEF Init, SignalInv
  <1> QED BY <1>1, <1>2, <1>3 DEF OrdinaryInv

\* With the lid and short sheets as the only troubles, no transfer starts on a
\* sheet that is already printed on, however many attempts the page takes.
THEOREM SheetIsFresh == Spec => []FreshSheet
  <1>1. OrdInv => FreshSheet
    BY DEF OrdInv, OrdinaryInv, FreshSheet
  <1>2. IInv /\ OrdInv /\ [Next]_vars => IInv' /\ OrdInv'
    BY OrdStep, TypesStep
  <1> QED BY InitIInv, InitOrd, <1>1, <1>2, PTL DEF Spec

\* With those troubles, page_end answers anything but ok only after an abort: no
\* lid, short sheet or silence of the printer ends the page without printing it.
THEOREM OnlyCancelLoses == Spec => []OnlyCancelLosesPage
  <1>1. OrdInv => OnlyCancelLosesPage
    BY DEF OrdInv, OrdinaryInv, AbortInv, OnlyCancelLosesPage
  <1>2. IInv /\ OrdInv /\ [Next]_vars => IInv' /\ OrdInv'
    BY OrdStep, TypesStep
  <1> QED BY InitIInv, InitOrd, <1>1, <1>2, PTL DEF Spec

-----------------------------------------------------------------------------
(* One copy.                                                                *)

LEMMA WholeIs ==
  /\ Whole \in {0, 1}
  /\ Whole = 1 <=> ink = Rows /\ ~overprint
  BY DEF Whole

LEMMA MayIs == MayComplete => ~overprint /\ ink < Rows /\ ink + buf >= Rows /\ room > 0
  BY DEF MayComplete

\* What is printed at most once counts once.
LEMMA NotYetWhole == ASSUME Numbers, MayComplete PROVE Whole = 0
  BY MayIs, NumbersAre DEF Whole

\* The printer discards, or the host is cut off: the copy is paid for.
LEMMA PaidDamaged ==
  ASSUME Numbers, PaperInv, PrintingPays, pc \in Printing, Damaged
  PROVE  Paid
  <1>1. CASE ~Takes
    <2>1. wholes <= faults
      BY <1>1 DEF PrintingPays
    <2>2. ~MayComplete
      <3>1. ~(buf > 0)
        BY <1>1, Zenon DEF PaperInv
      <3> QED BY <3>1, MayIs, NumbersAre
    <2> QED BY <2>1, <2>2 DEF Paid
  <1>2. CASE client # "up"
    <2>1. wholes + 1 <= faults + Whole
      BY <1>2 DEF PrintingPays
    <2> QED BY <2>1, WholeIs, NotYetWhole, NumbersAre DEF Paid
  <1> QED BY <1>1, <1>2 DEF Damaged

\* So it is while pieces are unsent.
LEMMA PaidUnsent ==
  ASSUME Numbers, SentInv, PrintingPays, pc \in Printing, rows < Rows
  PROVE  Paid
  <1>1. overprint \/ ink + buf <= rows
    BY Zenon DEF SentInv
  <1>2. Whole = 0
    BY <1>1, WholeIs, NumbersAre
  <1>3. ~MayComplete
    BY <1>1, MayIs, NumbersAre
  <1>4. wholes <= faults + Whole
    BY DEF PrintingPays
  <1> QED BY <1>2, <1>3, <1>4, NumbersAre DEF Paid

\* Wherever a transfer ends page_end, the count is right.
LEMMA PrintingEnds ==
  ASSUME Numbers, PrintingPays, pc \in Printing
  PROVE  EndPaid
  <1>1. wholes <= faults + Whole
    BY DEF PrintingPays
  <1> QED BY <1>1, WholeIs, NotYetWhole, NumbersAre DEF EndPaid

LEMMA PaidEnds == ASSUME Numbers, Paid PROVE EndPaid
  BY NumbersAre DEF Paid, EndPaid

\* What the copies' count depends on.
LEMMA CopySame ==
  ASSUME UNCHANGED <<ink, buf, room, overprint, lid, mute, client>>
  PROVE  /\ Whole' = Whole /\ (MayComplete' <=> MayComplete)
         /\ (Takes' <=> Takes) /\ (Damaged' <=> Damaged) /\ (Dead' <=> Dead)
  <1>1. Whole' = Whole
    BY DEF Whole
  <1>2. MayComplete' <=> MayComplete
    BY DEF MayComplete
  <1>3. (Takes' <=> Takes) /\ (Damaged' <=> Damaged) /\ (Dead' <=> Dead)
    BY DEF Takes, Damaged, Dead
  <1> QED BY <1>1, <1>2, <1>3

LEMMA PaySame ==
  ASSUME UNCHANGED <<ink, buf, room, overprint, lid, mute, client, wholes, faults>>
  PROVE  /\ Whole' = Whole /\ (Takes' <=> Takes) /\ (Dead' <=> Dead)
         /\ (Paid' <=> Paid) /\ (EndPaid' <=> EndPaid)
  BY CopySame DEF Paid, EndPaid

LEMMA PrintsKeepPays ==
  ASSUME Numbers, CallerInv, PaperInv, SentInv, CopyInv, Prints
  PROVE  PrintingPays' /\ WaitingPays' /\ EndPays'
  <1> USE DEF CopyInv
  <1>1. CASE StartPrint
    <2>1. pc = "print" /\ pc' = "sending" /\ client = "up"
      BY <1>1, Zenon DEF StartPrint, Goto
    <2>2. wholes <= faults
      BY <2>1 DEF WaitingPays, Paid, Printing
    <2>3. UNCHANGED <<wholes, faults, client>> /\ Whole' \in {0, 1}
      BY PrintsFrame DEF Whole
    <2>4. wholes' <= faults' + Whole' /\ wholes' <= faults' /\ client' = "up"
      BY <2>1, <2>2, <2>3, NumbersAre
    <2> QED BY <2>1, <2>4 DEF PrintingPays, WaitingPays, EndPays, Printing
  <1>2. CASE PrintNotConnected
    <2>1. pc = "print" /\ pc' = "end"
      BY <1>2, Zenon DEF PrintNotConnected, Answer
    <2>2. UNCHANGED <<buf, overprint>>
      BY <1>2, Zenon DEF PrintNotConnected, World, printer
    <2>3. UNCHANGED <<ink, buf, room, overprint, lid, mute, client, wholes, faults>>
      BY <2>2, PrintsFrame
    <2>4. Paid
      BY <2>1 DEF WaitingPays, Printing
    <2>5. EndPaid'
      BY <2>3, <2>4, PaySame, PaidEnds
    <2> QED BY <2>1, <2>5 DEF PrintingPays, WaitingPays, EndPays, Printing
  <1>3. CASE StopTransfer
    <2>1. pc = "sending" /\ pc' \in {"padding", "reconnect"} /\ (MustCancel \/ MustStopForLid \/ MustGiveUpSheet)
      BY <1>3, Zenon DEF StopTransfer, Goto
    <2>2. UNCHANGED <<buf, overprint>>
      BY <1>3, Zenon DEF StopTransfer, World, printer
    <2>3. UNCHANGED <<ink, buf, room, overprint, lid, mute, client, wholes, faults>>
      BY <2>2, PrintsFrame
    <2>4. rows < Rows
      BY <2>1, NumbersAre, PageAssumption DEF MustCancel, MustStopForLid,
          MustGiveUpSheet
    <2>5. Paid
      BY <2>1, <2>4, PaidUnsent DEF Printing
    <2> QED BY <2>1, <2>3, <2>5, PaySame DEF PrintingPays, WaitingPays, EndPays,
        Printing
  <1>4. CASE WriteRow
    <2>1. pc = "sending" /\ pc' = pc /\ client = "up" /\ UNCHANGED overprint
      BY <1>4, Zenon DEF WriteRow, MaySend
    <2>2. Whole' = Whole /\ (Takes' <=> Takes) /\ UNCHANGED <<client, lid, wholes, faults>>
      BY <2>1, PrintsFrame DEF Whole, Takes
    <2> QED BY <2>1, <2>2 DEF PrintingPays, WaitingPays, EndPays, Printing
  <1>5. CASE WriteTail
    <2>1. pc = "sending" /\ pc' = "motor" /\ UNCHANGED <<buf, overprint>>
      BY <1>5, Zenon DEF WriteTail, MaySend, Goto
    <2>2. UNCHANGED <<ink, buf, room, overprint, lid, mute, client, wholes, faults>>
      BY <2>1, PrintsFrame
    <2> QED BY <2>1, <2>2, PaySame DEF PrintingPays, WaitingPays, EndPays, Printing
  <1>6. CASE FinishPadding
    <2>1. pc = "padding" /\ pc' \in {"eject", "fresh"} /\ UNCHANGED <<buf, overprint>>
      BY <1>6, Zenon DEF FinishPadding, Goto
    <2>2. UNCHANGED <<ink, buf, room, overprint, lid, mute, client, wholes, faults>>
      BY <2>1, PrintsFrame
    <2>3. Paid
      BY <2>1, PaidUnsent DEF CallerInv, Printing
    <2> QED BY <2>1, <2>2, <2>3, PaySame DEF PrintingPays, WaitingPays, EndPays,
        Printing
  <1>7. CASE WriteFails
    <2>1. pc \in {"sending", "padding"} /\ pc' = "fresh" /\ client # "up"
      BY <1>7, Zenon DEF WriteFails, MaySend, Goto
    <2>2. UNCHANGED <<buf, overprint>>
      BY <1>7, Zenon DEF WriteFails, World, printer
    <2>3. UNCHANGED <<ink, buf, room, overprint, lid, mute, client, wholes, faults>>
      BY <2>2, PrintsFrame
    <2>4. Paid
      BY <2>1, PaidDamaged DEF Damaged, Printing
    <2> QED BY <2>1, <2>3, <2>4, PaySame DEF PrintingPays, WaitingPays, EndPays,
        Printing
  <1>8. CASE MotorStopped
    <2>1. pc = "motor" /\ pc' = "lid check"
      BY <1>8, Zenon DEF MotorStopped, Goto
    <2>2. UNCHANGED <<buf, overprint>>
      BY <1>8, Zenon DEF MotorStopped, World, printer
    <2>3. UNCHANGED <<ink, buf, room, overprint, lid, mute, client, wholes, faults>>
      BY <2>2, PrintsFrame
    <2> QED BY <2>1, <2>3, PaySame DEF PrintingPays, WaitingPays, EndPays, Printing
  <1>9. CASE CompletionTimesOut
    <2>1. pc = "motor" /\ pc' = "end"
      BY <1>9, Zenon DEF CompletionTimesOut, Answer
    <2>2. UNCHANGED <<buf, overprint>>
      BY <1>9, Zenon DEF CompletionTimesOut, World, printer
    <2>3. UNCHANGED <<ink, buf, room, overprint, lid, mute, client, wholes, faults>>
      BY <2>2, PrintsFrame
    <2>4. EndPaid'
      BY <2>1, <2>3, PaySame, PrintingEnds DEF Printing
    <2> QED BY <2>1, <2>4 DEF PrintingPays, WaitingPays, EndPays, Printing
  <1>10. CASE LidCheck
    <2>1. /\ pc = "lid check"
          /\ \/ pc' = "eject" /\ caller' = "done"
             \/ pc' = "fresh" /\ (Heard("open") \/ WriteRefused)
             \/ pc' = "reconnect" /\ Heard("none")
      BY <1>10, Zenon DEF LidCheck, Goto
    <2>2. UNCHANGED <<buf, overprint>>
      BY <1>10, Zenon DEF LidCheck, World, printer
    <2>3. UNCHANGED <<ink, buf, room, overprint, lid, mute, client, wholes, faults>>
      BY <2>2, PrintsFrame
    <2>4. CASE pc' = "eject" /\ caller' = "done"
      <3>1. wholes <= faults + 1
        BY <2>1, PrintingEnds DEF EndPaid, Printing
      <3> QED BY <2>3, <2>4, <3>1 DEF PrintingPays, WaitingPays, EndPays, Printing
    <2>5. Heard("open") \/ WriteRefused => Damaged
      BY <2>1 DEF Heard, WriteRefused, Sensor, PaperQueries, Damaged, Takes
    <2>6. Heard("none") => Damaged \/ buf > 0
      BY DEF Heard, Sensor, Damaged, Takes
    <2>7. CASE Damaged /\ pc' \in {"fresh", "reconnect"}
      <3>1. Paid
        BY <2>1, <2>7, PaidDamaged DEF Printing
      <3> QED BY <2>3, <2>7, <3>1, PaySame DEF PrintingPays, WaitingPays, EndPays,
          Printing
    <2>8. CASE ~Damaged /\ buf > 0 /\ pc' = "reconnect"
      <3>1. wholes <= faults + Whole
        BY <2>1 DEF PrintingPays, Printing
      <3>4. stopped
        BY <2>1, Zenon DEF CallerInv
      <3>2. overprint \/ (room = 0 /\ ink = 0) \/ wholes + 1 <= faults + Whole
        <4> SUFFICES ASSUME ~overprint
                     PROVE  (room = 0 /\ ink = 0) \/ wholes + 1 <= faults + Whole
          OBVIOUS
        <4>1. pc \in Printing \ {"padding"}
          BY <2>1 DEF Printing
        <4>2. buf # 0
          BY <2>8
        <4>3. ~Dead
          BY <2>8 DEF Dead, Damaged, Takes
        <4> QED BY <3>4, <4>1, <4>2, <4>3, Zenon DEF StopInv
      <3>3. Paid
        <4>1. CASE overprint
          BY <4>1, <3>1, WholeIs, MayIs, NumbersAre DEF Paid
        <4>2. CASE room = 0 /\ ink = 0
          BY <4>2, <3>1, WholeIs, MayIs, NumbersAre DEF Paid
        <4>3. CASE wholes + 1 <= faults + Whole
          BY <4>3, WholeIs, NotYetWhole, NumbersAre DEF Paid
        <4> QED BY <3>2, <4>1, <4>2, <4>3
      <3> QED BY <2>3, <2>8, <3>3, PaySame DEF PrintingPays, WaitingPays, EndPays,
          Printing
    <2> QED BY <2>1, <2>4, <2>5, <2>6, <2>7, <2>8
  <1> QED BY <1>1, <1>2, <1>3, <1>4, <1>5, <1>6, <1>7, <1>8, <1>9, <1>10 DEF Prints

\* Outside transfers and the last waits before one, nothing is left over.
LEMMA Elsewhere ==
  ASSUME pc' \notin {"sending", "motor", "lid check", "settle paper", "settling", "print"}
  PROVE  StopInv' /\ EndedInv' /\ BeforeInv'
  <1>1. StopInv'
    BY DEF StopInv, Printing
  <1>2. EndedInv' /\ BeforeInv'
    BY DEF EndedInv, BeforeInv
  <1> QED BY <1>1, <1>2

\* A dead transfer owes nothing to a motor stop.
LEMMA NowDead == ASSUME Dead' PROVE StopInv' /\ EndedInv'
  BY DEF StopInv, EndedInv

LEMMA StopSame == ASSUME UNCHANGED notes PROVE HasStop' <=> HasStop
  BY DEF HasStop

LEMMA StopsAlike ==
  ASSUME UNCHANGED <<ink, buf, room, overprint, lid, mute, client, wholes, faults>>,
         stopped' \/ HasStop' => stopped \/ HasStop,
         pc' = pc \/ (pc = "sending" /\ pc' = "motor") \/ (pc = "motor" /\ pc' = "lid check"),
         StopInv
  PROVE  StopInv'
  <1>1. Whole' = Whole /\ (Dead' <=> Dead)
    BY PaySame
  <1>2. pc' \in Printing \ {"padding"} => pc \in Printing \ {"padding"}
    BY DEF Printing
  <1>3. pc # "sending" => pc' # "sending"
    OBVIOUS
  <1> QED BY <1>1, <1>2, <1>3 DEF StopInv

LEMMA PrintsKeepStops ==
  ASSUME Numbers, CopyInv, Prints
  PROVE  StopInv' /\ EndedInv' /\ BeforeInv'
  <1>1. CASE StartPrint
    <2>1. /\ pc = "print" /\ pc' = "sending" /\ rows' = 0 /\ ~stopped'
          /\ overprint' = (ink > 0)
      BY <1>1, Zenon DEF StartPrint, Goto
    <2>2. EndedInv' /\ BeforeInv'
      BY <2>1 DEF EndedInv, BeforeInv
    <2>3. HasStop' <=> HasStop
      BY PrintsFrame, StopSame
    <2>4. HasStop => ink > 0 \/ room = 0 \/ wholes < faults
      BY <2>1 DEF CopyInv, BeforeInv
    <2>5. ~overprint' => ink' = 0
      <3>1. ~(ink > 0) => ink = 0
        BY NumbersAre
      <3> QED BY <2>1, <3>1, PrintsFrame, Zenon
    <2>6. Whole' \in {0, 1}
      BY DEF Whole
    <2>7. wholes < faults => wholes' + 1 <= faults' + Whole'
      <3>1. UNCHANGED <<wholes, faults>>
        BY PrintsFrame
      <3> QED BY <2>6, <3>1, NumbersAre
    <2>9. ink' = 0 => ~(ink > 0)
      <3>1. UNCHANGED ink
        BY PrintsFrame
      <3> QED BY <3>1
    <2>8. StopInv'
      BY <2>1, <2>3, <2>4, <2>5, <2>7, <2>9, PrintsFrame, Zenon DEF StopInv
    <2> QED BY <2>2, <2>8
  <1>2. CASE PrintNotConnected
    <2>1. pc' = "end"
      BY <1>2, Zenon DEF PrintNotConnected, Answer
    <2> QED BY <2>1, Elsewhere
  <1>3. CASE StopTransfer
    <2>1. pc' \in {"padding", "reconnect"}
      BY <1>3, Zenon DEF StopTransfer, Goto
    <2> QED BY <2>1, Elsewhere
  <1>4. CASE WriteRow
    <2>1. /\ pc = "sending" /\ pc' = pc /\ ~ended'
          /\ UNCHANGED <<overprint, stopped>>
      BY <1>4, Zenon DEF WriteRow, MaySend
    <2>2. EndedInv' /\ BeforeInv'
      BY <2>1 DEF EndedInv, BeforeInv
    <2>3. Whole' = Whole /\ (Dead' <=> Dead) /\ (HasStop' <=> HasStop)
      BY <2>1, PrintsFrame DEF Whole, Dead, HasStop
    <2>4. ~overprint /\ ~Dead /\ (stopped \/ HasStop) =>
            (room = 0 /\ ink = 0) \/ wholes + 1 <= faults + Whole
      BY <2>1 DEF CopyInv, StopInv, Printing
    <2>5. StopInv'
      BY <2>1, <2>3, <2>4, PrintsFrame DEF StopInv
    <2> QED BY <2>2, <2>5
  <1>5. CASE WriteTail
    <2>1. pc = "sending" /\ pc' = "motor" /\ UNCHANGED <<buf, overprint, stopped>>
      BY <1>5, Zenon DEF WriteTail, MaySend, Goto, transfer
    <2>2. EndedInv' /\ BeforeInv'
      BY <2>1 DEF EndedInv, BeforeInv
    <2>3. StopInv'
      BY <2>1, PrintsFrame, StopSame, StopsAlike DEF CopyInv
    <2> QED BY <2>2, <2>3
  <1>6. CASE FinishPadding
    <2>1. pc' \in {"eject", "fresh"}
      BY <1>6, Zenon DEF FinishPadding, Goto
    <2> QED BY <2>1, Elsewhere
  <1>7. CASE WriteFails
    <2>1. pc' = "fresh"
      BY <1>7, Zenon DEF WriteFails, Goto
    <2> QED BY <2>1, Elsewhere
  <1>8. CASE MotorStopped
    <2>1. pc = "motor" /\ pc' = "lid check" /\ UNCHANGED <<buf, overprint, stopped>>
      BY <1>8, Zenon DEF MotorStopped, Goto, transfer, World, printer
    <2>2. EndedInv' /\ BeforeInv'
      BY <2>1 DEF EndedInv, BeforeInv
    <2>3. StopInv'
      BY <2>1, PrintsFrame, StopSame, StopsAlike DEF CopyInv
    <2> QED BY <2>2, <2>3
  <1>9. CASE CompletionTimesOut
    <2>1. pc' = "end"
      BY <1>9, Zenon DEF CompletionTimesOut, Answer
    <2> QED BY <2>1, Elsewhere
  <1>10. CASE LidCheck
    <2>1. pc' \in {"eject", "fresh", "reconnect"}
      BY <1>10, Zenon DEF LidCheck, Goto
    <2> QED BY <2>1, Elsewhere
  <1> QED BY <1>1, <1>2, <1>3, <1>4, <1>5, <1>6, <1>7, <1>8, <1>9, <1>10 DEF Prints

\* A step that leaves the paper, the counts and the notifications alone.
LEMMA AllSameCopy ==
  ASSUME UNCHANGED <<pc, caller, rows>> /\ UNCHANGED <<stopped, overprint, wholes>>,
         UNCHANGED <<ink, buf, room>> /\ UNCHANGED <<lid, mute, client>>,
         UNCHANGED <<faults, ended, notes>>, CopyInv
  PROVE  CopyInv'
  <1>1. /\ Whole' = Whole /\ (Takes' <=> Takes) /\ (Dead' <=> Dead)
        /\ (Paid' <=> Paid) /\ (EndPaid' <=> EndPaid)
    BY PaySame
  <1>2. (HasStop' <=> HasStop) /\ (Present' <=> Present)
    BY StopSame DEF Present
  <1>3. PrintingPays' /\ WaitingPays' /\ EndPays'
    BY <1>1 DEF CopyInv, PrintingPays, WaitingPays, EndPays
  <1>4. StopInv' /\ EndedInv'
    BY <1>1, <1>2 DEF CopyInv, StopInv, EndedInv
  <1>5. BeforeInv'
    BY <1>2 DEF CopyInv, BeforeInv
  <1> QED BY <1>3, <1>4, <1>5 DEF CopyInv

LEMMA PrintsKeepCopy ==
  ASSUME Numbers, CallerInv, PaperInv, SentInv, CopyInv, Prints
  PROVE  CopyInv'
  BY PrintsKeepPays, PrintsKeepStops DEF CopyInv

LEMMA PaidSame ==
  ASSUME UNCHANGED <<ink, buf, room, overprint, wholes, faults>>
  PROVE  (Paid' <=> Paid) /\ (EndPaid' <=> EndPaid)
  <1>1. MayComplete' <=> MayComplete
    BY DEF MayComplete
  <1> QED BY <1>1 DEF Paid, EndPaid

LEMMA LinkKeepCopy ==
  ASSUME CallerInv, CopyInv, Link
  PROVE  CopyInv'
  <1>1. pc \in {"reconnect", "connecting", "fresh", "ready"}
    <2>1. CASE Disconnect
      BY <2>1, Zenon DEF Disconnect
    <2>2. CASE Connected
      BY <2>2, Zenon DEF Connected
    <2>3. CASE ConnectFails
      BY <2>3, Zenon DEF ConnectFails
    <2>4. CASE ConnectOnce
      BY <2>4, Zenon DEF ConnectOnce
    <2> QED BY <2>1, <2>2, <2>3, <2>4 DEF Link
  <1>2. pc' \in {"connecting", "eject", "fresh", "lid", "ready", "settle"}
    <2>1. CASE Disconnect
      BY <2>1, Zenon DEF Disconnect, Goto
    <2>2. CASE Connected
      BY <2>2 DEF Connected, Goto, AfterConnect, CallerInv
    <2>3. CASE ConnectFails
      BY <2>3 DEF ConnectFails, Goto, AfterConnect, CallerInv
    <2>4. CASE ConnectOnce
      BY <2>4, Zenon DEF ConnectOnce, Goto
    <2> QED BY <2>1, <2>2, <2>3, <2>4 DEF Link
  <1>3. StopInv' /\ EndedInv' /\ BeforeInv'
    BY <1>2, Elsewhere
  <1>4. Paid
    BY <1>1 DEF CopyInv, WaitingPays, Printing
  <1>5. Paid'
    BY <1>4, LinkFrame, PaidSame
  <1>6. PrintingPays' /\ WaitingPays' /\ EndPays'
    BY <1>2, <1>5 DEF PrintingPays, WaitingPays, EndPays, Printing
  <1> QED BY <1>3, <1>6 DEF CopyInv

\* What a wait that is not a query being written knows and does.
LEMMA WaitAway ==
  ASSUME CallerInv, Wait, ~Ask
  PROVE  /\ pc \notin Printing \cup {"end"}
         /\ pc \in {"eject", "feeding"} /\ caller = "done" =>
              pc' = "end" \/ (pc' = "feeding" /\ caller' = "done")
         /\ pc' = "settle paper" => lid = "closed"
         /\ pc' = "settling" => pc = "settle paper" /\ Present /\ notes = <<>> /\ ~mute
         /\ pc' \in {"eject", "feeding"} /\ caller' = "done" =>
              pc \in {"eject", "feeding"} /\ caller = "done"
         /\ pc' = "print" => pc = "settling"
  <1> USE DEF Goto, Answer, Printing
  <1>1. CASE EjectAnswered
    <2>1. pc = "eject" /\ pc' = "feeding" /\ caller' = caller
      BY <1>1, Zenon DEF EjectAnswered
    <2> QED BY <2>1
  <1>2. CASE Feed
    BY <1>2 DEF Feed, CallerInv
  <1>3. CASE EjectFails
    BY <1>3 DEF EjectFails
  <1>4. CASE Cancel
    BY <1>4, Zenon DEF Cancel, Aborted
  <1>5. CASE FreshConnected
    BY <1>5, Zenon DEF FreshConnected
  <1>6. CASE WatchLid
    BY <1>6, Zenon DEF WatchLid, CountMute
  <1>7. CASE WatchLidFails
    BY <1>7, Zenon DEF WatchLidFails
  <1>8. CASE CheckPaper
    BY <1>8, Zenon DEF CheckPaper
  <1>9. CASE ReadyWriteFails
    BY <1>9, Zenon DEF ReadyWriteFails
  <1>10. CASE WatchReady
    BY <1>10, Zenon DEF WatchReady, CountMute
  <1>11. CASE Settle
    BY <1>11 DEF Settle, Heard, Sensor, PaperQueries, SettleMute
  <1>12. CASE SettleTimesOut
    BY <1>12, Zenon DEF SettleTimesOut
  <1>13. CASE Settled
    BY <1>13, Zenon DEF Settled
  <1> QED BY <1>1, <1>2, <1>3, <1>4, <1>5, <1>6, <1>7, <1>8, <1>9, <1>10, <1>11,
      <1>12, <1>13 DEF Wait

LEMMA WaitKeepCopy ==
  ASSUME Numbers, CallerInv, RestInv, CopyInv, Wait
  PROVE  CopyInv'
  <1>1. CASE Ask
    <2>1. UNCHANGED <<pc, caller, ink, room>>
      BY <1>1, Zenon DEF Ask, World, sheet
    <2>2. UNCHANGED <<rows, stopped, overprint>> /\ UNCHANGED <<wholes, buf, faults>>
          /\ UNCHANGED <<lid, mute, client>> /\ UNCHANGED <<ended, notes>>
      BY WaitFrame
    <2> QED BY <2>1, <2>2, AllSameCopy
  <1>2. CASE ~Ask
    <2>1. UNCHANGED <<wholes, faults, overprint, buf>> /\ UNCHANGED <<lid, notes, mute>>
      BY WaitFrame
    <2>2. UNCHANGED <<room, ink>> \/ room' = 0
      BY WaitSheet, Zenon DEF Feed
    <2>3. MayComplete' => MayComplete
      <3>1. CASE UNCHANGED <<room, ink>>
        BY <2>1, <3>1 DEF MayComplete
      <3>2. CASE room' = 0
        BY <3>2 DEF MayComplete
      <3> QED BY <2>2, <3>1, <3>2
    <2>4. (Paid => Paid') /\ (EndPaid => EndPaid')
      BY <2>1, <2>3 DEF Paid, EndPaid
    <2>5. pc' \notin Printing
      BY <1>2, WaitPlace
    <2>6. Paid \/ (caller = "done" /\ pc \in {"eject", "feeding"} /\ wholes <= faults + 1)
      BY <1>2, WaitAway, Zenon DEF CopyInv, WaitingPays
    <2>7. EndPaid
      <3>1. CASE Paid
        BY <3>1, PaidEnds
      <3>2. CASE caller = "done" /\ pc \in {"eject", "feeding"} /\ wholes <= faults + 1
        <4>1. buf = 0
          BY <3>2, Zenon DEF RestInv
        <4>2. ~MayComplete
          BY <4>1, MayIs, NumbersAre
        <4> QED BY <3>2, <4>2 DEF EndPaid
      <3> QED BY <2>6, <3>1, <3>2
    <2>8. PrintingPays' /\ EndPays'
      BY <2>4, <2>5, <2>7 DEF PrintingPays, EndPays
    <2>9. WaitingPays'
      <3>1. CASE Paid
        BY <2>4, <3>1 DEF WaitingPays
      <3>2. CASE caller = "done" /\ pc \in {"eject", "feeding"} /\ wholes <= faults + 1
        <4>1. pc' = "end" \/ (pc' = "feeding" /\ caller' = "done")
          BY <1>2, <3>2, WaitAway
        <4>2. wholes' <= faults' + 1
          BY <2>1, <3>2
        <4> QED BY <4>1, <4>2 DEF WaitingPays
      <3> QED BY <2>6, <3>1, <3>2
    <2>10. StopInv' /\ EndedInv'
      BY <2>5 DEF StopInv, EndedInv, Printing
    <2>11. BeforeInv'
      <3>1. CASE pc' = "settle paper"
        BY <1>2, <2>1, <3>1, WaitAway DEF BeforeInv
      <3>2. CASE pc' = "settling"
        <4>1. pc = "settle paper" /\ Present /\ notes = <<>> /\ ~mute
          BY <1>2, <3>2, WaitAway
        <4>2. pc' # "feeding" /\ UNCHANGED <<room, ink>>
          <5>1. Feed => pc = "feeding"
            BY Zenon DEF Feed
          <5> QED BY <3>2, <4>1, <5>1, WaitSheet
        <4>3. Present'
          BY <4>1, <4>2 DEF Present
        <4>5. ~HasStop'
          <5>1. Len(notes') = 0
            BY <2>1, <4>1
          <5> QED BY <5>1 DEF HasStop
        <4>4. lid = "open" => wholes < faults
          BY <4>1 DEF CopyInv, BeforeInv
        <4> QED BY <2>1, <3>2, <4>1, <4>3, <4>4, <4>5 DEF BeforeInv
      <3>3. CASE pc' = "print"
        <4>1. pc = "settling"
          BY <1>2, <3>3, WaitAway
        <4>2. UNCHANGED <<room, ink>>
          <5>1. Feed => pc = "feeding"
            BY Zenon DEF Feed
          <5> QED BY <4>1, <5>1, WaitSheet
        <4>3. (Present' <=> Present) /\ (HasStop' <=> HasStop)
          BY <2>1, <4>2, StopSame DEF Present
        <4> QED BY <2>1, <3>3, <4>1, <4>2, <4>3 DEF CopyInv, BeforeInv
      <3> QED BY <3>1, <3>2, <3>3 DEF BeforeInv
    <2> QED BY <2>8, <2>9, <2>10, <2>11 DEF CopyInv
  <1> QED BY <1>1, <1>2

\* A motor stop that is heard was on its way.
LEMMA StopWasThere ==
  ASSUME Lists, notes # <<>>, Head(notes) = "stop" \/ (notes' = Tail(notes) /\ HasStop')
  PROVE  HasStop
  <1>1. Len(notes) \in Nat /\ Len(notes) > 0 /\ Head(notes) = notes[1]
    BY DEF Lists
  <1>2. CASE Head(notes) = "stop"
    BY <1>1, <1>2 DEF HasStop
  <1>3. CASE notes' = Tail(notes) /\ HasStop'
    <2>1. PICK i \in 1 .. Len(notes') : notes'[i] = "stop"
      BY <1>3 DEF HasStop
    <2>2. i + 1 \in 1 .. Len(notes) /\ notes[i + 1] = notes'[i]
      BY <1>1, <1>3, <2>1 DEF Lists
    <2> QED BY <2>1, <2>2 DEF HasStop
  <1> QED BY <1>2, <1>3

\* Another notification brings no motor stop.
LEMMA AppendedStops ==
  ASSUME Lists, NEW x \in {"lid", "absent"}, notes' = Append(notes, x), HasStop'
  PROVE  HasStop
  <1>1. PICK i \in 1 .. Len(notes') : notes'[i] = "stop"
    BY DEF HasStop
  <1>2. Len(notes') = Len(notes) + 1 /\ notes'[Len(notes) + 1] = x /\ Len(notes) \in Nat
    BY DEF Lists
  <1>3. i \in 1 .. Len(notes)
    BY <1>1, <1>2
  <1>4. notes'[i] = notes[i]
    BY <1>3 DEF Lists
  <1> QED BY <1>1, <1>3, <1>4 DEF HasStop

LEMMA PrintRowKeepsCopy ==
  ASSUME IInv, RestInv, CopyInv, PrintRow
  PROVE  CopyInv'
  <1> USE DEF IInv
  <1>1. buf > 0 /\ Takes /\ room > 0
    BY Zenon DEF PrintRow
  <1>2. UNCHANGED <<pc, caller, overprint>> /\ UNCHANGED <<client, lid>>
        /\ UNCHANGED <<rows, faults>>
    BY PrinterFrame DEF Printer
  <1>3. UNCHANGED <<stopped, ended, mute>>
    BY Zenon DEF PrintRow, transfer
  <1>4. Takes' /\ lid' = "closed" /\ (Dead' <=> Dead)
    BY <1>1, <1>2, <1>3 DEF Takes, Dead
  <1>5. buf' = buf - 1 /\ room' = room - 1 /\ ink' = ink + 1
    BY Zenon DEF PrintRow
  <1>6. Whole = 0
    <2>1. ink < Rows
      BY <1>1, NumbersAre DEF PaperInv
    <2> QED BY <2>1, NumbersAre, WholeIs
  <1>7. wholes' = wholes + Whole' /\ Whole' \in {0, 1}
    <2>1. wholes' = IF ink' = Rows /\ ~overprint THEN wholes + 1 ELSE wholes
      BY Zenon DEF PrintRow
    <2> QED BY <1>2, <2>1, NumbersAre DEF Whole
  <1>8. MayComplete' => MayComplete /\ Whole' = 0
    <2>1. ASSUME MayComplete' PROVE ~overprint /\ ink + 1 < Rows /\ ink + buf >= Rows
      <3>1. ink' < Rows /\ ink' + buf' >= Rows
        BY <2>1 DEF MayComplete
      <3>2. ~overprint
        BY <1>2, <2>1 DEF MayComplete
      <3> QED BY <1>5, <3>1, <3>2, NumbersAre
    <2>2. MayComplete' => Whole' = 0
      BY <1>5, <2>1, NumbersAre DEF Whole
    <2>3. MayComplete' => MayComplete
      BY <1>1, <2>1, NumbersAre DEF MayComplete
    <2> QED BY <2>2, <2>3
  <1>9. Whole' = 1 => MayComplete
    <2>1. Whole' = 1 => ~overprint /\ ink + 1 = Rows
      BY <1>2, <1>5 DEF Whole
    <2> QED BY <1>1, <2>1, NumbersAre DEF MayComplete
  <1>10. PrintingPays'
    <2> SUFFICES ASSUME pc \in Printing
                 PROVE  /\ wholes' <= faults' + Whole'
                        /\ client' # "up" => wholes' + 1 <= faults' + Whole'
      BY <1>2, <1>4 DEF PrintingPays
    <2>1. wholes <= faults /\ (client # "up" => wholes + 1 <= faults)
      BY <1>1, <1>6, NumbersAre DEF CopyInv, PrintingPays
    <2>2. UNCHANGED <<client, faults>>
      BY <1>2
    <2> QED BY <1>7, <2>1, <2>2, NumbersAre
  <1>11. WaitingPays'
    <2> SUFFICES ASSUME pc \notin Printing \cup {"end"} PROVE Paid'
      BY <1>2 DEF WaitingPays
    <2>1. Paid
      <3>1. ~(caller = "done" /\ pc \in {"eject", "feeding"})
        BY <1>1 DEF RestInv
      <3> QED BY <3>1 DEF CopyInv, WaitingPays
    <2>2. wholes + Whole' <= faults
      BY <1>7, <1>9, <2>1, NumbersAre DEF Paid
    <2>3. MayComplete' => wholes < faults /\ Whole' = 0
      BY <1>8, <2>1 DEF Paid
    <2>4. faults' = faults
      BY <1>2
    <2> QED BY <1>7, <2>2, <2>3, <2>4, NumbersAre DEF Paid
  <1>12. EndPays'
    <2> SUFFICES ASSUME pc = "end" PROVE EndPaid'
      BY <1>2 DEF EndPays
    <2>1. EndPaid
      BY DEF CopyInv, EndPays
    <2>2. wholes + Whole' <= faults + 1
      BY <1>7, <1>9, <2>1, NumbersAre DEF EndPaid
    <2>3. MayComplete' => wholes <= faults /\ Whole' = 0
      BY <1>8, <2>1 DEF EndPaid
    <2>4. faults' = faults
      BY <1>2
    <2> QED BY <1>7, <2>2, <2>3, <2>4, NumbersAre DEF EndPaid
  <1>13. HasStop' => HasStop
    <2>1. notes' = notes \/ notes' = Append(notes, "absent")
      BY DEF PrintRow
    <2> QED BY <2>1, AppendedStops, StopSame
  <1>14. StopInv'
    <2> SUFFICES ASSUME pc \in Printing \ {"padding"}, ~overprint', ~Dead', stopped' \/ HasStop'
                 PROVE  wholes' + 1 <= faults' + Whole'
      BY <1>2 DEF StopInv
    <2>1. ~overprint /\ ~Dead /\ (stopped \/ HasStop)
      BY <1>2, <1>3, <1>4, <1>13
    <2>2. wholes + 1 <= faults + Whole
      <3>1. buf # 0 /\ room # 0
        BY <1>1
      <3> QED BY <2>1, <3>1, Zenon DEF CopyInv, StopInv
    <2>3. faults' = faults
      BY <1>2
    <2> QED BY <1>6, <1>7, <2>2, <2>3, NumbersAre
  <1>15. EndedInv'
    BY <1>2, <1>3, <1>4 DEF CopyInv, EndedInv
  <1>16. BeforeInv'
    <2>1. pc \notin {"settling", "print"} /\ lid # "open"
      BY <1>1 DEF PaperInv, Takes
    <2> QED BY <1>2, <2>1 DEF BeforeInv
  <1> QED BY <1>10, <1>11, <1>12, <1>14, <1>15, <1>16 DEF CopyInv

LEMMA OverrunKeepsCopy ==
  ASSUME IInv, SentInv, CopyInv, Overrun
  PROVE  CopyInv'
  <1> USE DEF IInv
  <1>1. buf > 0 /\ Takes /\ room = 0
    BY Zenon DEF Overrun
  <1>2. UNCHANGED <<pc, caller, overprint>> /\ UNCHANGED <<client, lid, faults>>
    BY PrinterFrame DEF Printer
  <1>3. mute' /\ UNCHANGED <<room, ink, wholes>>
    BY Zenon DEF Overrun, sheet
  <1>4. Dead' /\ lid' = "closed"
    BY <1>1, <1>2, <1>3 DEF Takes, Dead
  <1>5. Whole' = Whole /\ ~MayComplete'
    <2>1. room' = 0
      BY <1>1, <1>3
    <2> QED BY <1>2, <1>3, <2>1 DEF Whole, MayComplete
  <1>6. PrintingPays'
    <2> SUFFICES ASSUME pc \in Printing
                 PROVE  /\ wholes <= faults
                        /\ wholes <= faults + Whole
                        /\ client # "up" => wholes + 1 <= faults + Whole
      BY <1>2, <1>3, <1>4, <1>5 DEF PrintingPays
    <2>1. wholes <= faults + Whole /\ (client # "up" => wholes + 1 <= faults + Whole)
      BY DEF CopyInv, PrintingPays
    <2>2. overprint \/ ink + buf <= rows
      BY Zenon DEF SentInv
    <2>3. Whole = 0
      BY <1>1, <2>2, WholeIs, NumbersAre
    <2> QED BY <2>1, <2>3, NumbersAre
  <1>7. (Paid => Paid') /\ (EndPaid => EndPaid')
    BY <1>2, <1>3, <1>5 DEF Paid, EndPaid
  <1>8. WaitingPays' /\ EndPays'
    BY <1>2, <1>3, <1>7 DEF CopyInv, WaitingPays, EndPays
  <1>9. StopInv' /\ EndedInv'
    BY <1>4, NowDead
  <1>10. BeforeInv'
    <2>1. pc \notin {"settling", "print"} /\ lid # "open"
      BY <1>1 DEF PaperInv, Takes
    <2> QED BY <1>2, <2>1 DEF BeforeInv
  <1> QED BY <1>6, <1>8, <1>9, <1>10 DEF CopyInv

LEMMA StopMotorKeepsCopy ==
  ASSUME IInv, PieceInv, CopyInv, StopMotor
  PROVE  CopyInv'
  <1> USE DEF IInv
  <1>1. motor /\ buf = 0 /\ ended
    BY Zenon DEF StopMotor
  <1>2. UNCHANGED <<pc, caller, overprint>> /\ UNCHANGED <<client, lid, faults>>
        /\ UNCHANGED rows
    BY PrinterFrame DEF Printer
  <1>3. UNCHANGED <<room, ink, wholes>> /\ UNCHANGED <<buf, mute, ended>>
    BY Zenon DEF StopMotor, sheet
  <1>4. /\ Whole' = Whole /\ (Takes' <=> Takes) /\ (Dead' <=> Dead)
        /\ (Paid' <=> Paid) /\ (EndPaid' <=> EndPaid)
    BY <1>2, <1>3, PaySame
  <1>5. PrintingPays' /\ WaitingPays' /\ EndPays'
    BY <1>2, <1>3, <1>4 DEF CopyInv, PrintingPays, WaitingPays, EndPays
  <1>6. ink > 0 \/ room = 0 \/ wholes < faults
    BY <1>1 DEF PieceInv, RunsInv
  <1>7. StopInv'
    <2> SUFFICES ASSUME pc = "sending", ~overprint, ~Dead
                 PROVE  (room = 0 /\ ink = 0) \/ wholes + 1 <= faults + Whole
      BY <1>1, <1>2, <1>3, <1>4 DEF StopInv
    <2>1. rows = 0
      BY <1>1 DEF CopyInv, EndedInv
    <2>2. ink + buf <= rows
      BY DEF PieceInv, SentInv, Printing
    <2>3. ink = 0
      BY <1>1, <2>1, <2>2, NumbersAre
    <2> QED BY <1>6, <2>3, WholeIs, NumbersAre
  <1>8. EndedInv'
    BY <1>2, <1>3, <1>4 DEF CopyInv, EndedInv
  <1>9. BeforeInv'
    <2>1. Present' <=> Present
      BY <1>3 DEF Present
    <2> QED BY <1>2, <1>3, <1>6, <2>1 DEF CopyInv, BeforeInv
  <1> QED BY <1>5, <1>7, <1>8, <1>9 DEF CopyInv

LEMMA DeliverKeepsCopy ==
  ASSUME IInv, CopyInv, Deliver
  PROVE  CopyInv'
  <1> USE DEF IInv
  <1>1. notes # <<>> /\ notes' = Tail(notes)
    BY Zenon DEF Deliver
  <1>2. UNCHANGED <<pc, caller, overprint>> /\ UNCHANGED <<client, lid, faults>>
        /\ UNCHANGED rows
    BY PrinterFrame DEF Printer
  <1>3. UNCHANGED <<room, ink, wholes>> /\ UNCHANGED <<buf, mute, ended>>
    BY Zenon DEF Deliver, sheet
  <1>4. /\ Whole' = Whole /\ (Takes' <=> Takes) /\ (Dead' <=> Dead)
        /\ (Paid' <=> Paid) /\ (EndPaid' <=> EndPaid)
    BY <1>2, <1>3, PaySame
  <1>5. PrintingPays' /\ WaitingPays' /\ EndPays'
    BY <1>2, <1>3, <1>4 DEF CopyInv, PrintingPays, WaitingPays, EndPays
  <1>6. HasStop' => HasStop
    BY <1>1, StopWasThere
  <1>7. stopped' => stopped \/ HasStop
    <2>1. stopped' => stopped \/ Head(notes) = "stop"
      BY Zenon DEF Deliver
    <2> QED BY <1>1, <2>1, StopWasThere
  <1>8. StopInv'
    BY <1>2, <1>3, <1>6, <1>7, StopsAlike DEF CopyInv
  <1>9. EndedInv'
    BY <1>2, <1>3, <1>4 DEF CopyInv, EndedInv
  <1>10. BeforeInv'
    <2>1. Present' <=> Present
      BY <1>3 DEF Present
    <2> QED BY <1>2, <1>3, <1>6, <2>1 DEF CopyInv, BeforeInv
  <1> QED BY <1>5, <1>8, <1>9, <1>10 DEF CopyInv

LEMMA PrinterKeepCopy ==
  ASSUME IInv, PieceInv, CopyInv, Printer
  PROVE  CopyInv'
  <1>1. SentInv /\ RestInv
    BY DEF PieceInv
  <1> QED BY <1>1, PrintRowKeepsCopy, OverrunKeepsCopy, StopMotorKeepsCopy, DeliverKeepsCopy
          DEF Printer

\* A fault pays for a copy.
LEMMA FaultPays ==
  ASSUME Numbers, CopyInv, UNCHANGED <<pc, caller, wholes>>, pc # "end", faults' = faults + 1
  PROVE  /\ pc \notin Printing => wholes' <= faults'
         /\ EndPays'
         /\ pc \in {"settle paper", "settling", "print"} => wholes' < faults'
  <1>1. EndPays'
    BY DEF EndPays
  <1>2. pc \notin Printing => wholes <= faults + 1
    <2>1. Paid => wholes <= faults + 1
      BY NumbersAre DEF Paid
    <2> QED BY <2>1 DEF CopyInv, WaitingPays
  <1>3. pc \in {"settle paper", "settling", "print"} => wholes <= faults
    BY DEF CopyInv, WaitingPays, Paid, Printing
  <1>4. wholes <= faults + 1 => wholes' <= faults'
    BY NumbersAre
  <1>5. wholes <= faults => wholes' < faults'
    BY NumbersAre
  <1> QED BY <1>1, <1>2, <1>3, <1>4, <1>5

\* With nothing left to complete, the count of a waiting page_end stands.
LEMMA EmptyPays ==
  ASSUME Numbers, CopyInv, User, pc # "end", ~MayComplete',
         faults' = faults \/ faults' = faults + 1
  PROVE  WaitingPays' /\ EndPays'
  <1>1. UNCHANGED <<pc, caller, wholes>>
    BY UserFrame
  <1>2. WaitingPays'
    <2> SUFFICES ASSUME pc \notin Printing
                 PROVE  Paid' \/ (caller = "done" /\ pc \in {"eject",
         "feeding"} /\ wholes' <= faults' + 1)
      BY <1>1 DEF WaitingPays
    <2>1. Paid \/ (caller = "done" /\ pc \in {"eject", "feeding"} /\ wholes <= faults + 1)
      BY DEF CopyInv, WaitingPays
    <2>2. CASE Paid
      <3>1. wholes' <= faults'
        BY <1>1, <2>2, NumbersAre DEF Paid
      <3> QED BY <3>1 DEF Paid
    <2>3. CASE caller = "done" /\ pc \in {"eject", "feeding"} /\ wholes <= faults + 1
      BY <1>1, <2>3, NumbersAre
    <2> QED BY <2>1, <2>2, <2>3
  <1> QED BY <1>1, <1>2 DEF EndPays

LEMMA UserKeepCopy ==
  ASSUME IInv, PieceInv, CopyInv, User
  PROVE  CopyInv'
  <1> USE DEF IInv, PieceInv
  <1>1. UNCHANGED <<pc, caller, rows>> /\ UNCHANGED <<stopped, overprint, wholes>>
    BY UserFrame
  <1>2. CASE AbortArrives
    <2>1. UNCHANGED <<ink, buf, room>> /\ UNCHANGED <<lid, mute, client>>
          /\ UNCHANGED <<faults, ended, notes>>
      BY <1>2, Zenon DEF AbortArrives, link, sheet, printer, troubles
    <2> QED BY <1>1, <2>1, AllSameCopy
  <1>3. CASE OpenLid
    <2>1. /\ pc # "end" /\ faults' = faults + 1 /\ buf' = 0 /\ lid' = "open"
          /\ UNCHANGED <<ink, room, client>> /\ UNCHANGED <<mute, ended>>
      BY <1>3, Zenon DEF OpenLid, Fault, Running, link, sheet
    <2>2. ~MayComplete' /\ ~Takes' /\ (Dead' <=> Dead) /\ Whole' = Whole
      <3>1. ~MayComplete'
        BY <2>1, NumbersAre DEF MayComplete
      <3>2. ~Takes' /\ (Dead' <=> Dead)
        BY <2>1 DEF Takes, Dead
      <3>3. Whole' = Whole
        BY <1>1, <2>1 DEF Whole
      <3> QED BY <3>1, <3>2, <3>3
    <2>3. WaitingPays' /\ EndPays'
      BY <2>1, <2>2, EmptyPays
    <2>4. pc \in Printing => wholes' + 1 <= faults' + Whole'
      <3>1. pc \in Printing => wholes <= faults + Whole
        BY DEF CopyInv, PrintingPays
      <3> QED BY <1>1, <2>1, <2>2, <3>1, WholeIs, NumbersAre
    <2>5. PrintingPays'
      <3> SUFFICES ASSUME pc \in Printing
                   PROVE  /\ wholes' <= faults' + Whole' /\ wholes' <= faults'
                          /\ client # "up" => wholes' + 1 <= faults'
        BY <1>1, <2>1, <2>2, <2>4 DEF PrintingPays
      <3>1. client # "up" => wholes + 1 <= faults + Whole
        BY DEF CopyInv, PrintingPays
      <3> QED BY <1>1, <2>1, <2>2, <2>4, <3>1, WholeIs, NumbersAre
    <2>6. StopInv'
      BY <1>1, <2>4 DEF StopInv
    <2>7. EndedInv'
      BY <1>1, <2>1, <2>2 DEF CopyInv, EndedInv
    <2>8. BeforeInv'
      BY <1>1, <2>1, FaultPays DEF CopyInv, BeforeInv
    <2> QED BY <2>3, <2>5, <2>6, <2>7, <2>8 DEF CopyInv
  <1>4. CASE CloseLid
    <2>1. /\ lid = "open" /\ lid' = "closed"
          /\ UNCHANGED <<ink, buf, room>> /\ UNCHANGED <<faults, notes>>
          /\ UNCHANGED <<client, mute, ended>>
      BY <1>4, Zenon DEF CloseLid, link, sheet, printer, troubles
    <2>2. (Paid' <=> Paid) /\ (EndPaid' <=> EndPaid)
      BY <1>1, <2>1, PaidSame
    <2>3. ~Takes /\ (Dead' <=> Dead) /\ Whole' = Whole
      BY <1>1, <2>1 DEF Takes, Dead, Whole
    <2>4. PrintingPays'
      BY <1>1, <2>1, <2>3 DEF CopyInv, PrintingPays
    <2>5. WaitingPays' /\ EndPays'
      BY <1>1, <2>1, <2>2 DEF CopyInv, WaitingPays, EndPays
    <2>6. (Present' <=> Present) /\ (HasStop' <=> HasStop)
      BY <2>1, StopSame DEF Present
    <2>7. StopInv' /\ EndedInv'
      BY <1>1, <2>1, <2>3, <2>6 DEF CopyInv, StopInv, EndedInv
    <2>8. BeforeInv'
      BY <1>1, <2>1, <2>6 DEF CopyInv, BeforeInv
    <2> QED BY <2>4, <2>5, <2>7, <2>8 DEF CopyInv
  <1>5. CASE PullSheet
    <2>1. /\ pc # "end" /\ lid = "open" /\ room' = 0 /\ ink' = 0
          /\ UNCHANGED <<lid, mute, faults>> /\ UNCHANGED <<client, ended, notes>>
      BY <1>5, Zenon DEF PullSheet, Running, link, printer, user, troubles
    <2>2. ~MayComplete' /\ ~Takes /\ (Dead' <=> Dead)
      BY <2>1 DEF MayComplete, Takes, Dead
    <2>3. WaitingPays' /\ EndPays'
      BY <2>1, <2>2, EmptyPays
    <2>4. PrintingPays'
      <3> SUFFICES ASSUME pc \in Printing
                   PROVE  /\ wholes' <= faults' + Whole' /\ wholes' <= faults'
                          /\ client # "up" => wholes' + 1 <= faults' + Whole' /\ wholes' + 1 <= faults'
        BY <1>1, <2>1 DEF PrintingPays
      <3>1. wholes <= faults /\ (client # "up" => wholes + 1 <= faults)
        BY <2>1, <2>2 DEF CopyInv, PrintingPays
      <3>2. Whole' \in {0, 1}
        BY DEF Whole
      <3> QED BY <1>1, <2>1, <3>1, <3>2, NumbersAre
    <2>5. StopInv'
      BY <2>1 DEF StopInv
    <2>6. EndedInv'
      BY <1>1, <2>1, <2>2 DEF CopyInv, EndedInv
    <2>7. BeforeInv'
      <3>1. HasStop' <=> HasStop
        BY <2>1, StopSame
      <3> QED BY <1>1, <2>1, <3>1 DEF CopyInv, BeforeInv
    <2> QED BY <2>3, <2>4, <2>5, <2>6, <2>7 DEF CopyInv
  <1>6. CASE InsertSheet
    <2>1. /\ pc # "end" /\ ~Present /\ ~motor /\ pc \notin Printing /\ ink' = 0
          /\ UNCHANGED <<buf, lid, faults, mute>>
      BY <1>6, Zenon DEF InsertSheet, Running, printer, user, troubles
    <2>2. ~MayComplete'
      <3>1. ~(buf > 0)
        BY <2>1, Zenon DEF PaperInv
      <3> QED BY <2>1, <3>1, NumbersAre DEF MayComplete
    <2>3. WaitingPays' /\ EndPays'
      BY <2>1, <2>2, EmptyPays
    <2>4. PrintingPays' /\ StopInv' /\ EndedInv'
      BY <1>1, <2>1 DEF PrintingPays, StopInv, EndedInv, Printing
    <2>5. BeforeInv'
      BY <1>1, <2>1 DEF CopyInv, BeforeInv
    <2> QED BY <2>3, <2>4, <2>5 DEF CopyInv
  <1>7. CASE InsertShortSheet
    <2>1. /\ pc # "end" /\ faults' = faults + 1 /\ ~motor /\ pc \notin Printing /\ ink' = 0
          /\ UNCHANGED <<buf, mute>>
      BY <1>7, Zenon DEF InsertShortSheet, Fault, Running, printer
    <2>2. ~MayComplete'
      <3>1. ~(buf > 0)
        BY <2>1, Zenon DEF PaperInv
      <3> QED BY <2>1, <3>1, NumbersAre DEF MayComplete
    <2>3. WaitingPays' /\ EndPays'
      BY <2>1, <2>2, EmptyPays
    <2>4. PrintingPays' /\ StopInv' /\ EndedInv'
      BY <1>1, <2>1 DEF PrintingPays, StopInv, EndedInv, Printing
    <2>5. BeforeInv'
      BY <1>1, <2>1, FaultPays DEF CopyInv, BeforeInv
    <2> QED BY <2>3, <2>4, <2>5 DEF CopyInv
  <1>8. CASE DropLink
    <2>1. /\ pc # "end" /\ faults' = faults + 1 /\ client' = "dropped"
          /\ UNCHANGED <<ink, buf, room>> /\ UNCHANGED <<lid, mute>>
      BY <1>8, Zenon DEF DropLink, Fault, Running, sheet
    <2>2. Whole' = Whole /\ (Takes' <=> Takes) /\ Dead' /\ (MayComplete' <=> MayComplete)
      BY <1>1, <2>1 DEF Whole, Takes, Dead, MayComplete
    <2>3. WaitingPays'
      <3> SUFFICES ASSUME pc \notin Printing PROVE Paid'
        BY <1>1 DEF WaitingPays
      <3>1. Paid \/ (caller = "done" /\ pc \in {"eject", "feeding"} /\ wholes <= faults + 1)
        BY <2>1 DEF CopyInv, WaitingPays
      <3>2. CASE Paid
        <4>1. wholes' < faults' /\ wholes' <= faults'
          BY <1>1, <2>1, <3>2, NumbersAre DEF Paid
        <4> QED BY <4>1 DEF Paid
      <3>3. CASE caller = "done" /\ pc \in {"eject", "feeding"} /\ wholes <= faults + 1
        <4>1. buf = 0
          BY <3>3, Zenon DEF RestInv
        <4>2. ~MayComplete
          BY <4>1, MayIs, NumbersAre
        <4> QED BY <1>1, <2>1, <2>2, <3>3, <4>2 DEF Paid
      <3> QED BY <3>1, <3>2, <3>3
    <2>4. PrintingPays'
      <3> SUFFICES ASSUME pc \in Printing
                   PROVE  /\ wholes' + 1 <= faults' + Whole' /\ wholes' <= faults' + Whole'
                          /\ ~Takes => wholes' <= faults' /\ wholes' + 1 <= faults'
        <4>1. lid' = "open" => ~Takes
          BY <2>1 DEF Takes
        <4> QED BY <1>1, <2>2, <4>1 DEF PrintingPays
      <3>1. wholes <= faults + Whole /\ (~Takes => wholes <= faults)
        BY DEF CopyInv, PrintingPays
      <3> QED BY <1>1, <2>1, <2>2, <3>1, WholeIs, NumbersAre
    <2>5. StopInv' /\ EndedInv'
      BY <2>2, NowDead
    <2>6. EndPays' /\ BeforeInv'
      BY <1>1, <2>1, FaultPays DEF CopyInv, BeforeInv
    <2> QED BY <2>3, <2>4, <2>5, <2>6 DEF CopyInv
  <1>9. CASE SwitchOff
    <2>1. /\ pc # "end" /\ faults' = faults + 1 /\ buf' = 0 /\ ~mute'
          /\ UNCHANGED <<ink, room, lid>>
      BY <1>9, Zenon DEF SwitchOff, Fault, Running, sheet
    <2>2. client' # "up"
      BY <1>9 DEF SwitchOff
    <2>3. ~MayComplete' /\ Dead' /\ Whole' = Whole /\ (~Takes' => ~Takes)
      <3>1. ~MayComplete'
        BY <2>1, NumbersAre DEF MayComplete
      <3>2. (~Takes' => ~Takes) /\ Dead'
        BY <2>1, <2>2 DEF Takes, Dead
      <3>3. Whole' = Whole
        BY <1>1, <2>1 DEF Whole
      <3> QED BY <3>1, <3>2, <3>3
    <2>4. WaitingPays' /\ EndPays'
      BY <2>1, <2>3, EmptyPays
    <2>5. PrintingPays'
      <3> SUFFICES ASSUME pc \in Printing
                   PROVE  /\ wholes' + 1 <= faults' + Whole' /\ wholes' <= faults' + Whole'
                          /\ ~Takes => wholes' <= faults' /\ wholes' + 1 <= faults'
        <4>1. lid' = "open" => ~Takes
          BY <2>1 DEF Takes
        <4> QED BY <1>1, <2>3, <4>1 DEF PrintingPays
      <3>1. wholes <= faults + Whole /\ (~Takes => wholes <= faults)
        BY DEF CopyInv, PrintingPays
      <3> QED BY <1>1, <2>1, <2>3, <3>1, WholeIs, NumbersAre
    <2>6. StopInv' /\ EndedInv'
      BY <2>3, NowDead
    <2>7. BeforeInv'
      BY <1>1, <2>1, FaultPays DEF CopyInv, BeforeInv
    <2> QED BY <2>4, <2>5, <2>6, <2>7 DEF CopyInv
  <1>10. CASE SwitchOn
    <2>1. UNCHANGED <<ink, buf, room>> /\ UNCHANGED <<lid, mute, client>>
          /\ UNCHANGED <<faults, ended, notes>>
      BY <1>10, Zenon DEF SwitchOn, sheet, printer, user, troubles
    <2> QED BY <1>1, <2>1, AllSameCopy
  <1> QED BY <1>2, <1>3, <1>4, <1>5, <1>6, <1>7, <1>8, <1>9, <1>10 DEF User

-----------------------------------------------------------------------------
(* Where the pieces are.                                                    *)

\* A step of print_bitmap that leaves the raster alone and ends the sending.
LEMMA SentOn ==
  ASSUME PieceInv, Prints, UNCHANGED <<rows, buf, overprint, motor>>,
         pc' # "sending", pc' \in Printing => pc \in Printing,
         pc' \in {"eject", "feeding"} /\ caller' = "done" => buf = 0
  PROVE  PieceInv'
  <1>1. UNCHANGED <<room, ink>> /\ UNCHANGED <<wholes, faults>>
    BY PrintsFrame
  <1>2. SentInv' /\ RunsInv'
    BY <1>1 DEF PieceInv, SentInv, RunsInv
  <1>3. RestInv' /\ DeafInv' /\ LossInv'
    BY <1>1 DEF RestInv, DeafInv, LossInv
  <1> QED BY <1>2, <1>3 DEF PieceInv

LEMMA PrintsKeepPieces ==
  ASSUME Words, Numbers, CallerInv, PaperInv, CopyInv, PieceInv, Prints
  PROVE  PieceInv'
  <1>0. /\ UNCHANGED <<room, ink>> /\ UNCHANGED <<wholes, faults>> /\ UNCHANGED <<lid, mute>>
        /\ (Takes' <=> Takes)
    <2>1. UNCHANGED <<room, ink>> /\ UNCHANGED <<wholes, faults>> /\ UNCHANGED <<lid, mute>>
      BY PrintsFrame
    <2>2. Takes' <=> Takes
      BY <2>1 DEF Takes
    <2> QED BY <2>1, <2>2
  <1>1. CASE StartPrint
    <2>1. /\ pc = "print" /\ pc' = "sending" /\ rows' = 0 /\ UNCHANGED <<buf, motor>>
          /\ overprint' = (ink > 0)
      BY <1>1, Zenon DEF StartPrint, Goto, World, printer
    <2>2. buf = 0 /\ ~mute /\ (lid = "open" => wholes < faults)
      BY <2>1 DEF PaperInv, CopyInv, BeforeInv
    <2>3. ~(ink > 0) => ink = 0
      BY NumbersAre
    <2>4. ~overprint' => ink' = 0
      BY <1>0, <2>1, <2>3, Zenon
    <2>5. SentInv'
      BY <2>1, <2>2, <2>4 DEF SentInv
    <2>6. RestInv' /\ RunsInv'
      BY <1>0, <2>1 DEF PieceInv, RestInv, RunsInv
    <2>7. Takes \/ wholes < faults
      BY <2>2 DEF Words, Takes
    <2>8. DeafInv'
      BY <1>0, <2>7 DEF DeafInv
    <2>9. overprint' => ink' > 0
      BY <1>0, <2>1, Zenon
    <2>10. ~overprint' => ink' + buf' = rows'
      BY <2>1, <2>2, <2>4
    <2>11. LossInv'
      BY <2>9, <2>10, Zenon DEF LossInv
    <2> QED BY <2>5, <2>6, <2>8, <2>11 DEF PieceInv
  <1>2. CASE PrintNotConnected
    <2>1. pc' = "end" /\ UNCHANGED <<rows, buf, overprint, motor>>
      BY <1>2, Zenon DEF PrintNotConnected, Answer, World, transfer, printer
    <2> QED BY <2>1, SentOn DEF Printing
  <1>3. CASE StopTransfer
    <2>1. /\ pc = "sending" /\ pc' \in {"padding", "reconnect"}
          /\ UNCHANGED <<rows, buf, overprint, motor>>
      BY <1>3, Zenon DEF StopTransfer, Goto, World, transfer, printer
    <2> QED BY <2>1, SentOn DEF Printing
  <1>4. CASE WriteRow
    <2>1. /\ pc = "sending" /\ pc' = pc /\ rows < Rows /\ rows' = rows + 1
          /\ UNCHANGED overprint
      BY <1>4, Zenon DEF WriteRow, MaySend
    <2>2. (Takes /\ buf' = buf + 1) \/ (~Takes /\ buf' = buf /\ (motor' <=> motor))
      BY <1>4, Zenon DEF WriteRow
    <2>3. ~overprint => ink + buf <= rows
      BY <2>1 DEF PieceInv, SentInv, Printing
    <2>4. room = 0 \/ wholes < faults \/ (overprint /\ ink > 0) \/ (~overprint /\ ink + buf = rows)
      BY <2>1 DEF PieceInv, LossInv
    <2>5. CASE Takes /\ buf' = buf + 1
      <3>1. SentInv'
        BY <1>0, <2>1, <2>3, <2>5, NumbersAre DEF SentInv
      <3>2. RunsInv'
        BY <2>5, NumbersAre DEF RunsInv
      <3>3. RestInv' /\ DeafInv'
        BY <1>0, <2>1, <2>5 DEF RestInv, DeafInv
      <3>4. ink + buf = rows => ink' + buf' = rows'
        BY <1>0, <2>1, <2>5, NumbersAre
      <3>5. LossInv'
        BY <1>0, <2>1, <2>4, <3>4 DEF LossInv
      <3> QED BY <3>1, <3>2, <3>3, <3>5 DEF PieceInv
    <2>6. CASE ~Takes /\ buf' = buf /\ (motor' <=> motor)
      <3>1. SentInv'
        BY <1>0, <2>1, <2>3, <2>6, NumbersAre DEF SentInv
      <3>2. RunsInv'
        BY <1>0, <2>6 DEF PieceInv, RunsInv
      <3>3. ~overprint => room = 0 \/ wholes < faults
        BY <2>1, <2>6, NumbersAre DEF PieceInv, DeafInv
      <3>4. RestInv' /\ DeafInv'
        BY <1>0, <2>1, <3>3 DEF RestInv, DeafInv
      <3>5. LossInv'
        BY <1>0, <2>1, <2>4, <3>3 DEF LossInv
      <3> QED BY <3>1, <3>2, <3>4, <3>5 DEF PieceInv
    <2> QED BY <2>2, <2>5, <2>6
  <1>5. CASE WriteTail
    <2>1. /\ pc = "sending" /\ rows = Rows /\ pc' = "motor"
          /\ UNCHANGED <<rows, buf, overprint>>
      BY <1>5, Zenon DEF WriteTail, MaySend, Goto, transfer
    <2>2. room = 0 \/ wholes < faults \/ ink > 0 \/ ink + buf = rows
      BY <2>1 DEF PieceInv, LossInv
    <2>3. room = 0 \/ wholes < faults \/ ink > 0 \/ buf > 0
      BY <2>1, <2>2, NumbersAre
    <2>4. RunsInv'
      BY <1>0, <2>1, <2>3 DEF RunsInv
    <2>5. SentInv'
      BY <1>0, <2>1 DEF PieceInv, SentInv, Printing
    <2>6. RestInv' /\ DeafInv' /\ LossInv'
      BY <2>1 DEF RestInv, DeafInv, LossInv
    <2> QED BY <2>4, <2>5, <2>6 DEF PieceInv
  <1>6. CASE FinishPadding
    <2>1. /\ pc' \in {"eject", "fresh"} /\ caller' = caller
          /\ pc = "padding" /\ UNCHANGED <<rows, buf, overprint, motor>>
      BY <1>6, Zenon DEF FinishPadding, Goto, transfer
    <2>2. caller' # "done"
      BY <2>1 DEF CallerInv
    <2> QED BY <2>1, <2>2, SentOn DEF Printing
  <1>7. CASE WriteFails
    <2>1. pc' = "fresh" /\ UNCHANGED <<rows, buf, overprint, motor>>
      BY <1>7, Zenon DEF WriteFails, Goto, World, transfer, printer
    <2> QED BY <2>1, SentOn DEF Printing
  <1>8. CASE MotorStopped
    <2>1. pc = "motor" /\ pc' = "lid check" /\ UNCHANGED <<rows, buf, overprint, motor>>
      BY <1>8, Zenon DEF MotorStopped, Goto, World, transfer, printer
    <2> QED BY <2>1, SentOn DEF Printing
  <1>9. CASE CompletionTimesOut
    <2>1. pc' = "end" /\ UNCHANGED <<rows, buf, overprint, motor>>
      BY <1>9, Zenon DEF CompletionTimesOut, Answer, World, transfer, printer
    <2> QED BY <2>1, SentOn DEF Printing
  <1>10. CASE LidCheck
    <2>1. /\ \/ pc' = "eject" /\ Heard("closed")
             \/ pc' \in {"fresh", "reconnect"}
          /\ UNCHANGED <<rows, buf, overprint, motor>>
      BY <1>10, Zenon DEF LidCheck, Goto, World, transfer, printer
    <2>2. Heard("closed") => buf = 0
      BY DEF Heard
    <2> QED BY <2>1, <2>2, SentOn DEF Printing
  <1> QED BY <1>1, <1>2, <1>3, <1>4, <1>5, <1>6, <1>7, <1>8, <1>9, <1>10 DEF Prints

LEMMA LinkKeepPieces ==
  ASSUME CallerInv, PieceInv, Link
  PROVE  PieceInv'
  <1>1. pc' \in {"eject", "feeding"} => caller' = "short"
    <2>1. CASE Disconnect
      BY <2>1 DEF Disconnect, Goto
    <2>2. CASE Connected
      BY <2>2 DEF Connected, Goto, AfterConnect, CallerInv
    <2>3. CASE ConnectFails
      BY <2>3 DEF ConnectFails, Goto, AfterConnect, CallerInv
    <2>4. CASE ConnectOnce
      BY <2>4 DEF ConnectOnce, Goto
    <2> QED BY <2>1, <2>2, <2>3, <2>4 DEF Link
  <1>2. /\ pc' \notin Printing /\ UNCHANGED <<room, ink, buf>>
        /\ UNCHANGED <<wholes, faults, motor>>
    BY LinkFrame
  <1>3. RunsInv'
    BY <1>2 DEF PieceInv, RunsInv
  <1>4. SentInv' /\ RestInv' /\ DeafInv' /\ LossInv'
    BY <1>1, <1>2 DEF SentInv, RestInv, DeafInv, LossInv, Printing
  <1> QED BY <1>3, <1>4 DEF PieceInv

LEMMA WaitKeepPieces ==
  ASSUME CallerInv, PaperInv, PieceInv, Wait
  PROVE  PieceInv'
  <1>0. /\ UNCHANGED <<rows, buf, overprint>> /\ UNCHANGED <<wholes, faults, motor>>
        /\ UNCHANGED <<lid, mute>>
    BY WaitFrame
  <1>1. CASE Ask
    <2>1. UNCHANGED <<pc, caller, room, ink>>
      BY <1>1, Zenon DEF Ask, World, sheet
    <2>2. SentInv' /\ RestInv'
      BY <1>0, <2>1 DEF PieceInv, SentInv, RestInv
    <2>3. RunsInv'
      BY <1>0, <2>1 DEF PieceInv, RunsInv
    <2>4. DeafInv' /\ LossInv'
      BY <1>0, <2>1 DEF PieceInv, DeafInv, LossInv, Takes
    <2> QED BY <2>2, <2>3, <2>4 DEF PieceInv
  <1>2. CASE ~Ask
    <2>1. pc' \notin Printing
      BY <1>2, WaitPlace
    <2>2. SentInv' /\ DeafInv' /\ LossInv'
      BY <2>1 DEF SentInv, DeafInv, LossInv, Printing
    <2>3. RestInv'
      <3>1. pc' \in {"eject", "feeding"} /\ caller' = "done" =>
              pc \in {"eject", "feeding"} /\ caller = "done"
        BY <1>2, WaitAway
      <3> QED BY <1>0, <3>1 DEF PieceInv, RestInv
    <2>4. UNCHANGED <<room, ink>> \/ (Takes => room' = 0)
      BY WaitSheet, Zenon DEF Feed
    <2>5. RunsInv'
      BY <1>0, <2>4 DEF PieceInv, RunsInv, PaperInv
    <2> QED BY <2>2, <2>3, <2>5 DEF PieceInv
  <1> QED BY <1>1, <1>2

LEMMA PrinterKeepPieces ==
  ASSUME Numbers, PieceInv, Printer
  PROVE  PieceInv'
  <1>0. UNCHANGED <<pc, caller, overprint>> /\ UNCHANGED <<rows, lid, faults>>
    BY PrinterFrame
  <1>1. CASE PrintRow
    <2>1. /\ buf > 0 /\ Takes /\ room > 0 /\ mute' = mute
          /\ buf' = buf - 1 /\ room' = room - 1 /\ ink' = ink + 1
          /\ wholes' = IF ink' = Rows /\ ~overprint THEN wholes + 1 ELSE wholes
      BY <1>1, Zenon DEF PrintRow
    <2>2. ink' + buf' = ink + buf /\ ink' > 0
      BY <2>1, NumbersAre
    <2>3. SentInv'
      BY <1>0, <2>2 DEF PieceInv, SentInv
    <2>4. RestInv' /\ RunsInv' /\ DeafInv'
      <3>1. buf # 0 /\ Takes'
        BY <1>0, <2>1 DEF Takes
      <3> QED BY <1>0, <2>2, <3>1 DEF PieceInv, RestInv, RunsInv, DeafInv
    <2>5. LossInv'
      <3> SUFFICES ASSUME pc = "sending"
                   PROVE  wholes' < faults' \/ overprint \/ ink' + buf' = rows
        BY <1>0, <2>2 DEF LossInv
      <3>1. wholes < faults \/ overprint \/ ink + buf = rows
        BY <2>1 DEF PieceInv, LossInv
      <3>2. CASE ~overprint /\ ink' = Rows
        <4>1. ink + buf <= rows
          BY <3>2 DEF PieceInv, SentInv, Printing
        <4> QED BY <2>1, <2>2, <3>2, <4>1, NumbersAre
      <3>3. CASE overprint \/ ink' # Rows
        <4>1. wholes' = wholes
          BY <2>1, <3>3
        <4> QED BY <1>0, <2>2, <3>1, <4>1
      <3> QED BY <3>2, <3>3
    <2> QED BY <2>3, <2>4, <2>5 DEF PieceInv
  <1>2. CASE Overrun
    <2>1. buf > 0 /\ buf' = 0 /\ ~motor' /\ room = 0 /\ UNCHANGED <<room, ink, wholes>>
      BY <1>2, Zenon DEF Overrun, sheet
    <2>2. SentInv'
      BY <1>0, <2>1, NumbersAre DEF PieceInv, SentInv
    <2>3. RestInv' /\ RunsInv' /\ DeafInv' /\ LossInv'
      BY <2>1 DEF RestInv, RunsInv, DeafInv, LossInv
    <2> QED BY <2>2, <2>3 DEF PieceInv
  <1>3. CASE StopMotor \/ Deliver
    <2>1. UNCHANGED <<room, ink, wholes>> /\ UNCHANGED <<buf, mute>> /\ (motor' => motor)
      <3>1. CASE StopMotor
        BY <3>1, Zenon DEF StopMotor, sheet
      <3>2. CASE Deliver
        BY <3>2, Zenon DEF Deliver, sheet
      <3> QED BY <1>3, <3>1, <3>2
    <2>2. SentInv' /\ RestInv'
      BY <1>0, <2>1 DEF PieceInv, SentInv, RestInv
    <2>3. RunsInv'
      BY <1>0, <2>1 DEF PieceInv, RunsInv
    <2>4. DeafInv' /\ LossInv'
      BY <1>0, <2>1 DEF PieceInv, DeafInv, LossInv, Takes
    <2> QED BY <2>2, <2>3, <2>4 DEF PieceInv
  <1> QED BY <1>1, <1>2, <1>3 DEF Printer

\* The printer empties while rows are sent: a fault, or all is on the sheet.
LEMMA EmptiedPieces ==
  ASSUME Numbers, CopyInv, PieceInv, User, buf' = 0, ~motor', UNCHANGED <<room, ink>>,
         faults' = faults + 1
  PROVE  PieceInv'
  <1>1. UNCHANGED <<pc, caller, overprint>> /\ UNCHANGED <<rows, wholes>>
    BY UserFrame
  <1>2. SentInv'
    BY <1>1, NumbersAre DEF PieceInv, SentInv
  <1>3. RestInv' /\ RunsInv'
    BY DEF RestInv, RunsInv
  <1>4. pc = "sending" => wholes <= faults \/ (~overprint /\ ink = Rows /\ ink + buf <= rows)
    <2> SUFFICES ASSUME pc = "sending"
                 PROVE  wholes <= faults \/ (~overprint /\ ink = Rows /\ ink + buf <= rows)
      OBVIOUS
    <2>1. wholes <= faults + Whole
      BY DEF CopyInv, PrintingPays, Printing
    <2>2. CASE Whole = 0
      BY <2>1, <2>2, NumbersAre
    <2>3. CASE Whole = 1
      <3>1. ink = Rows /\ ~overprint
        BY <2>3, WholeIs
      <3> QED BY <3>1 DEF PieceInv, SentInv, Printing
    <2> QED BY <2>2, <2>3, WholeIs
  <1>5. pc = "sending" => wholes' < faults' \/ (~overprint /\ rows = Rows /\ ink' + buf' = rows)
    BY <1>1, <1>4, NumbersAre
  <1>6. DeafInv' /\ LossInv'
    BY <1>1, <1>5 DEF DeafInv, LossInv
  <1> QED BY <1>2, <1>3, <1>6 DEF PieceInv

LEMMA UserKeepPieces ==
  ASSUME Numbers, CopyInv, PieceInv, User
  PROVE  PieceInv'
  <1>0. UNCHANGED <<pc, caller, overprint>> /\ UNCHANGED <<rows, wholes>>
    BY UserFrame
  <1>1. CASE OpenLid
    <2>1. buf' = 0 /\ ~motor' /\ UNCHANGED <<room, ink>> /\ faults' = faults + 1
      BY <1>1, Zenon DEF OpenLid, Fault, sheet
    <2> QED BY <2>1, EmptiedPieces
  <1>2. CASE SwitchOff
    <2>1. buf' = 0 /\ ~motor' /\ UNCHANGED <<room, ink>> /\ faults' = faults + 1
      BY <1>2, Zenon DEF SwitchOff, Fault, sheet
    <2> QED BY <2>1, EmptiedPieces
  <1>3. CASE PullSheet
    <2>1. room' = 0 /\ ink' = 0 /\ buf' = buf
      BY <1>3, Zenon DEF PullSheet, printer
    <2>2. SentInv' /\ RestInv'
      BY <1>0, <2>1, NumbersAre DEF PieceInv, SentInv, RestInv
    <2>3. RunsInv' /\ DeafInv' /\ LossInv'
      BY <2>1 DEF RunsInv, DeafInv, LossInv
    <2> QED BY <2>2, <2>3 DEF PieceInv
  <1>4. CASE InsertSheet \/ InsertShortSheet
    <2>1. ~motor' /\ pc \notin Printing /\ buf' = buf
      <3>1. CASE InsertSheet
        BY <3>1, Zenon DEF InsertSheet, printer
      <3>2. CASE InsertShortSheet
        BY <3>2, Zenon DEF InsertShortSheet, printer
      <3> QED BY <1>4, <3>1, <3>2
    <2>2. SentInv' /\ RestInv' /\ RunsInv'
      BY <1>0, <2>1 DEF PieceInv, SentInv, RestInv, RunsInv
    <2>3. DeafInv' /\ LossInv'
      BY <1>0, <2>1 DEF DeafInv, LossInv, Printing
    <2> QED BY <2>2, <2>3 DEF PieceInv
  <1>5. CASE AbortArrives \/ CloseLid \/ DropLink \/ SwitchOn
    <2>1. /\ UNCHANGED <<room, ink, buf>> /\ UNCHANGED <<mute, motor>>
          /\ faults' = faults \/ faults' = faults + 1
          /\ lid' = "open" => lid = "open"
          /\ lid' = lid \/ lid' = "closed"
      BY <1>5, Zenon DEF AbortArrives, CloseLid, DropLink, SwitchOn, Fault, sheet, printer,
           user, troubles
    <2>2. wholes < faults => wholes' < faults'
      BY <1>0, <2>1, NumbersAre
    <2>3. ~Takes' => ~Takes
      BY <2>1 DEF Takes
    <2>4. SentInv' /\ RestInv'
      BY <1>0, <2>1 DEF PieceInv, SentInv, RestInv
    <2>5. RunsInv'
      BY <2>1, <2>2 DEF PieceInv, RunsInv
    <2>6. DeafInv' /\ LossInv'
      BY <1>0, <2>1, <2>2, <2>3 DEF PieceInv, DeafInv, LossInv
    <2> QED BY <2>4, <2>5, <2>6 DEF PieceInv
  <1> QED BY <1>1, <1>2, <1>3, <1>4, <1>5 DEF User

CountInv == IInv /\ PieceInv /\ CopyInv

\* Every step keeps the count of copies.
LEMMA CountStep ==
  ASSUME CountInv, [Next]_vars
  PROVE  CountInv'
  <1> USE DEF CountInv
  <1>0. SentInv /\ RestInv /\ Words /\ Lists /\ Numbers /\ CallerInv /\ PaperInv /\ IInv'
    BY TypesStep DEF IInv, PieceInv
  <1>1. CASE Prints
    BY <1>0, <1>1, PrintsKeepCopy, PrintsKeepPieces
  <1>2. CASE Link
    BY <1>0, <1>2, LinkKeepCopy, LinkKeepPieces
  <1>3. CASE Wait
    BY <1>0, <1>3, WaitKeepCopy, WaitKeepPieces
  <1>4. CASE Printer
    BY <1>0, <1>4, PrinterKeepCopy, PrinterKeepPieces
  <1>5. CASE User
    BY <1>0, <1>5, UserKeepCopy, UserKeepPieces
  <1>6. CASE UNCHANGED vars
    <2>1. UNCHANGED <<pc, caller, rows>> /\ UNCHANGED <<stopped, overprint, wholes>>
          /\ UNCHANGED <<ink, buf, room>> /\ UNCHANGED <<lid, mute, client>>
          /\ UNCHANGED <<faults, ended, notes>> /\ UNCHANGED motor
      BY <1>6, Zenon DEF vars, transfer, link, sheet, printer, user, troubles
    <2>2. CopyInv'
      BY <2>1, AllSameCopy
    <2>3. SentInv' /\ RestInv'
      BY <2>1 DEF PieceInv, SentInv, RestInv
    <2>4. RunsInv'
      BY <2>1 DEF PieceInv, RunsInv
    <2>5. DeafInv' /\ LossInv'
      BY <2>1 DEF PieceInv, DeafInv, LossInv, Takes
    <2> QED BY <1>0, <2>2, <2>3, <2>4, <2>5 DEF PieceInv
  <1> QED BY <1>1, <1>2, <1>3, <1>4, <1>5, <1>6 DEF Next

LEMMA InitCount == Init => CountInv
  <1> SUFFICES ASSUME Init PROVE CountInv
    OBVIOUS
  <1>1. /\ pc = "print" /\ wholes = 0 /\ faults = 0 /\ ink = 0 /\ buf = 0
        /\ notes = <<>> /\ lid = "closed" /\ ~mute /\ ~motor
    BY Zenon DEF Init
  <1>2. Paid
    BY <1>1, PageAssumption DEF Paid, MayComplete
  <1>3. PrintingPays /\ WaitingPays /\ EndPays /\ StopInv /\ EndedInv
    BY <1>1, <1>2 DEF PrintingPays, WaitingPays, EndPays, StopInv, EndedInv, Printing
  <1>4. Present
    <2>1. room = Rows \/ room = ShortSheet
      BY Zenon DEF Init
    <2> QED BY <2>1, PageAssumption DEF Present
  <1>5. ~HasStop
    BY <1>1 DEF HasStop
  <1>6. BeforeInv
    BY <1>1, <1>4, <1>5 DEF BeforeInv
  <1>7. PieceInv
    BY <1>1 DEF PieceInv, SentInv, RestInv, RunsInv, DeafInv, LossInv, Printing
  <1> QED BY <1>3, <1>6, <1>7, InitIInv DEF CountInv, CopyInv

\* Only a fault costs a copy: whatever page_end takes the sensor, a silence or a
\* motor stop for, the page is printed whole at most once more than the lid was
\* opened, the link dropped, the printer switched off or a short sheet inserted.
THEOREM OneCopyPerFault == Spec => []OneCopy
  <1>1. CountInv => OneCopy
    <2> SUFFICES ASSUME CountInv PROVE OneCopy
      OBVIOUS
    <2>1. Numbers /\ CopyInv
      BY DEF CountInv, IInv
    <2>2. CASE pc \in Printing
      BY <2>1, <2>2, PrintingEnds, NumbersAre DEF CopyInv, EndPaid, OneCopy
    <2>3. CASE pc = "end"
      BY <2>1, <2>3, NumbersAre DEF CopyInv, EndPays, EndPaid, OneCopy
    <2>4. CASE pc \notin Printing \cup {"end"}
      BY <2>1, <2>4, NumbersAre DEF CopyInv, WaitingPays, Paid, OneCopy
    <2> QED BY <2>2, <2>3, <2>4
  <1> QED BY InitCount, CountStep, <1>1, PTL DEF Spec
=============================================================================
