--------------------------- MODULE RasterTransfer ---------------------------
(***************************************************************************)
(* One page on its way to the printer: Printer._build_raster_stream,       *)
(* _rows_before, _pad_band and _transfer (printer.py), against the         *)
(* command parser of the printer that reads the bytes.                     *)
(*                                                                         *)
(* The stream is a line of byte positions 0 .. StreamEnd - 1:              *)
(*                                                                         *)
(*   ESC @ , [density] , band 0 , band 1 , ... , [feed]                    *)
(*                                                                         *)
(* and a band is its 8-byte GS v 0 header followed by the rows the header  *)
(* declares.  Pixels carry no value here; what matters is which byte of    *)
(* which command each position is, because the printer counts: once a      *)
(* header is in, it takes every following byte as a pixel until the        *)
(* declared rows are complete.  A chunk boundary may fall anywhere.        *)
(*                                                                         *)
(* The host runs on one event loop: between two writes nothing else runs,  *)
(* during a write (an await) the abort, the lid and the paper events may   *)
(* arrive and the printer may read.                                        *)
(***************************************************************************)
EXTENDS Integers, FiniteSetsExt

CONSTANTS
  WidthBytes,   \* bytes per row of the profile
  BandHeight,   \* rows per full band of the profile
  Heights,      \* page heights to consider, in rows
  DensityBytes, \* 4 with a density command, else 0
  FeedBytes,    \* 3 with a trailing feed command, else 0
  ChunkSizes,   \* payload sizes a connection may negotiate
  ShortDen      \* short_sheet_fraction is 1 / ShortDen

HeaderBytes == 8
InitBytes == 2
PrefixBytes == InitBytes + DensityBytes

\* A connection carries at least 20 bytes per write (ATT_MTU 23), so the
\* commands before the first band always leave in one write.
ASSUME RasterAssumption ==
  /\ WidthBytes \in Nat \ {0}
  /\ BandHeight \in Nat \ {0}
  /\ Heights \subseteq Nat \ {0}
  /\ DensityBytes \in {0, 4}
  /\ FeedBytes \in {0, 3}
  /\ ChunkSizes \subseteq Nat
  /\ \A c \in ChunkSizes : c >= PrefixBytes
  /\ ShortDen \in Nat \ {0}

-----------------------------------------------------------------------------
(* The layout of the stream for a page of h rows.                          *)

BandCount(h) == (h + BandHeight - 1) \div BandHeight

BandRows(h, b) ==
  IF h - b * BandHeight < BandHeight THEN h - b * BandHeight ELSE BandHeight

BandBytes == HeaderBytes + BandHeight * WidthBytes
HeaderStart(b) == PrefixBytes + b * BandBytes
DataStart(b) == HeaderStart(b) + HeaderBytes
DataEnd(h, b) == DataStart(b) + BandRows(h, b) * WidthBytes

Bands(h) == 0 .. BandCount(h) - 1

\* Past the last band only the trailing feed is left.
TailStart(h) == DataEnd(h, BandCount(h) - 1)
StreamEnd(h) == TailStart(h) + FeedBytes

\* Bug for the mutant runs: a row cut by a chunk boundary counts as sent.
Bug_RowsRoundedUp(h, off) ==
  LET InBand(b) == IF off >= DataEnd(h, b) THEN BandRows(h, b)
                   ELSE IF off > DataStart(b)
                        THEN (off - DataStart(b) + WidthBytes - 1) \div WidthBytes
                        ELSE 0
  IN  MapThenSumSet(InBand, Bands(h))

\* Rows of band b whose bytes lie entirely before `off` in the stream.
RowsInBand(h, off, b) ==
  IF off >= DataEnd(h, b) THEN BandRows(h, b)
  ELSE IF off > DataStart(b) THEN (off - DataStart(b)) \div WidthBytes
  ELSE 0

\* The same over all bands.
RowsBefore(h, off) ==
  LET InBand(b) == RowsInBand(h, off, b)
  IN  MapThenSumSet(InBand, Bands(h))

\* The bands whose header is partly out at `off` and whose rows are not all.
OpenBands(h, off) ==
  {b \in Bands(h) : HeaderStart(b) < off /\ off < DataEnd(h, b)}

\* Bug for the mutant runs: only rows are padded, the rest of a header that a
\* chunk boundary cut is not.
Bug_PadForgetsHeader(h, off) ==
  IF OpenBands(h, off) = {} THEN off
  ELSE LET b == CHOOSE b \in OpenBands(h, off) : TRUE
       IN  IF off < DataStart(b) THEN off + DataEnd(h, b) - DataStart(b)
           ELSE DataEnd(h, b)

\* Where the padding of a stop at `off` ends: nothing is owed at a boundary.
PadEnd(h, off) ==
  IF OpenBands(h, off) = {} THEN off
  ELSE DataEnd(h, CHOOSE b \in OpenBands(h, off) : TRUE)

\* Length of the command that starts at position p, 0 where none does.
CommandBytes(h, p) ==
  IF p = 0 THEN InitBytes
  ELSE IF p = InitBytes /\ DensityBytes > 0 THEN DensityBytes
  ELSE IF \E b \in Bands(h) : p = HeaderStart(b)
       THEN LET b == CHOOSE b \in Bands(h) : p = HeaderStart(b)
            IN  DataEnd(h, b) - HeaderStart(b)
  ELSE IF p = TailStart(h) THEN FeedBytes
  ELSE 0
-----------------------------------------------------------------------------
VARIABLES
  height,    \* rows of the page
  chunk,     \* transport.chunk_bytes of this connection
  pc,        \* where _transfer is, or how it ended
  offset,    \* its `offset`: stream bytes sent as they are
  sent,      \* bytes handed to the link, padding included
  rowsSent,  \* Printer._rows_sent
  abort,     \* the session's abort event
  absent,    \* a paper-absent event arrived during this print
  lidOpen,   \* a lid-open event arrived during this print
  pos,       \* bytes the printer has read
  left,      \* bytes still missing from the command it is reading
  misread    \* it took a command for pixels, or pixels for a command

host == <<pc, offset, sent, rowsSent>>
events == <<abort, absent, lidOpen>>
parser == <<pos, left, misread>>
vars == <<height, chunk, host, events, parser>>

\* `next` is the state after a stop or the whole stream, when the first byte
\* of the host's next command has followed on the same connection.
Stopped == {"cancelled", "lid opened"}
Padding == {"pad cancelled", "pad lid opened"}
PC == {"sending", "sent", "sheet ran out", "lost", "next"} \cup Stopped \cup Padding

Init ==
  /\ height \in Heights
  /\ chunk \in ChunkSizes
  /\ pc = "sending"
  /\ offset = 0 /\ sent = 0 /\ rowsSent = 0
  /\ abort \in BOOLEAN /\ absent = FALSE /\ lidOpen = FALSE
  /\ pos = 0 /\ left = 0 /\ misread = FALSE
-----------------------------------------------------------------------------
(* The checks at the top of the transfer loop, in the order of the code.   *)

\* Bug for the mutant runs: the abort is honoured in the trailing feed too.
Bug_CancelInTail == abort

MustCancel == abort /\ offset < TailStart(height)
MustStopForLid == ~MustCancel /\ lidOpen /\ offset < TailStart(height)

\* The sheet is gone while more than the fraction of rows is unsent.
MustGiveUpSheet ==
  /\ ~MustCancel /\ ~MustStopForLid
  /\ absent
  /\ ShortDen * (height - rowsSent) > height

Sending == pc = "sending" /\ offset < StreamEnd(height)

StopFor(padding) ==
  /\ Sending
  /\ pc' = padding
  /\ UNCHANGED <<height, chunk, offset, sent, rowsSent, events, parser>>

Cancel == MustCancel /\ StopFor("pad cancelled")
StopForLid == MustStopForLid /\ StopFor("pad lid opened")

GiveUpSheet ==
  /\ Sending
  /\ MustGiveUpSheet
  /\ pc' = "sheet ran out"
  /\ UNCHANGED <<height, chunk, offset, sent, rowsSent, events, parser>>

\* Bug for the mutant runs: the last chunk is written at full length.
Bug_PieceNotCapped == offset + chunk

PieceEnd == IF offset + chunk < StreamEnd(height)
            THEN offset + chunk ELSE StreamEnd(height)

WriteChunk ==
  /\ Sending
  /\ ~MustCancel /\ ~MustStopForLid /\ ~MustGiveUpSheet
  /\ offset' = PieceEnd
  /\ sent' = PieceEnd
  /\ rowsSent' = RowsBefore(height, PieceEnd)
  /\ pc' = IF PieceEnd = StreamEnd(height) THEN "sent" ELSE "sending"
  /\ UNCHANGED <<height, chunk, events, parser>>

\* The padding starts at `offset` (sent = offset there) and ends with the band.
PadChunk ==
  /\ pc \in Padding
  /\ sent < PadEnd(height, offset)
  /\ sent' = IF sent + chunk < PadEnd(height, offset)
             THEN sent + chunk ELSE PadEnd(height, offset)
  /\ UNCHANGED <<height, chunk, pc, offset, rowsSent, events, parser>>

Raise ==
  /\ pc \in Padding
  /\ sent >= PadEnd(height, offset)
  /\ pc' = IF pc = "pad cancelled" THEN "cancelled" ELSE "lid opened"
  /\ UNCHANGED <<height, chunk, offset, sent, rowsSent, events, parser>>

\* The write of a chunk, of the page or of the padding, fails.
LoseLink ==
  /\ Sending \/ pc \in Padding
  /\ pc' = "lost"
  /\ UNCHANGED <<height, chunk, offset, sent, rowsSent, events, parser>>
-----------------------------------------------------------------------------
(* What arrives while the host awaits a write.                             *)

Busy == pc = "sending" \/ pc \in Padding

AbortArrives ==
  Busy /\ abort' = TRUE /\ UNCHANGED <<height, chunk, host, absent, lidOpen, parser>>

SheetLeaves ==
  Busy /\ absent' = TRUE /\ UNCHANGED <<height, chunk, host, abort, lidOpen, parser>>

LidOpens ==
  Busy /\ lidOpen' = TRUE /\ UNCHANGED <<height, chunk, host, abort, absent, parser>>
-----------------------------------------------------------------------------
(* The printer: a command parser that counts bytes.                        *)

\* It reads the next byte: the start of a command when it owes nothing, else
\* one more byte of the command it is in.
PrinterReads ==
  /\ pos < sent
  /\ pos' = pos + 1
  /\ left' = IF left = 0 THEN CommandBytes(height, pos) - 1 ELSE left - 1
  /\ misread' = (misread \/ IF left = 0 THEN CommandBytes(height, pos) = 0
                              ELSE CommandBytes(height, pos) > 0)
  /\ UNCHANGED <<height, chunk, host, events>>

\* After a stop or a whole page the host's next command (the lid query, a
\* feed) reaches the printer on the same connection.  After a sheet that ran
\* out or a lost link the connection is made anew first.
NextCommand ==
  /\ pc \in Stopped \cup {"sent"}
  /\ pos = sent
  /\ pc' = "next"
  /\ misread' = (misread \/ left # 0)
  /\ UNCHANGED <<height, chunk, offset, sent, rowsSent, events, pos, left>>
-----------------------------------------------------------------------------
Host == Cancel \/ StopForLid \/ GiveUpSheet \/ WriteChunk \/ PadChunk \/ Raise \/ LoseLink

Next ==
  \/ Host
  \/ AbortArrives \/ SheetLeaves \/ LidOpens
  \/ PrinterReads \/ NextCommand

Spec == Init /\ [][Next]_vars
-----------------------------------------------------------------------------
(* Properties.                                                             *)

\* Types: the counters stay inside the stream and the printer never reads
\* ahead of what was handed to the link.  (RowsSentExact bounds rowsSent.)
TypeOK ==
  /\ height \in Heights
  /\ chunk \in ChunkSizes
  /\ pc \in PC
  /\ offset \in 0 .. StreamEnd(height)
  /\ sent \in offset .. StreamEnd(height)
  /\ abort \in BOOLEAN /\ absent \in BOOLEAN /\ lidOpen \in BOOLEAN
  /\ pos \in 0 .. sent
  /\ left \in Nat
  /\ misread \in BOOLEAN

\* The printer never takes a command for pixels nor pixels for a command,
\* wherever an abort or an opened lid stops the transfer (in a header, inside
\* a row, on a band boundary): _pad_band completes exactly what is owed, and a
\* stop never cuts the trailing feed.
ParserInSync == ~misread

\* Rows that are complete among the first `off` bytes, row by row.
RowEnd(r) == DataStart(r \div BandHeight) + ((r % BandHeight) + 1) * WidthBytes
CompleteRows(off) == {r \in 0 .. height - 1 : RowEnd(r) <= off}

\* rows_sent, which feeds the progress events and the short-sheet decision,
\* counts the rows of the page that are out completely: never a row still
\* split over two writes, never a row of the padding.
RowsSentExact == rowsSent = Cardinality(CompleteRows(offset))

\* A transfer that ends as cancelled or stopped by the lid left rows of the
\* page unsent: a page whose last row is out is never called interrupted, so
\* it is not printed a second time because of a late abort or lid event.
StopMeansUnfinished == pc \in Stopped \cup Padding => rowsSent < height
-----------------------------------------------------------------------------
(* The strengthening that makes TypeOK and ParserInSync inductive, and      *)
(* RowsSentExact with them; the proofs in RasterTransfer_proofs rest on it. *)

\* A position where the printer owes nothing: a command starts or all is read.
Boundary(h, p) == CommandBytes(h, p) > 0 \/ p = StreamEnd(h)

CommandEnd(h, s) == s + CommandBytes(h, s)

\* How far the host got, by where it is.
HostAt ==
  /\ offset = 0 \/ offset >= PrefixBytes
  /\ pc = "sending" => sent = offset
  /\ pc \in Stopped \cup Padding => /\ offset < TailStart(height)
                                    /\ sent <= PadEnd(height, offset)
  /\ pc \in Stopped \cup {"sent"} => Boundary(height, sent)
  /\ pc = "sent" => offset = StreamEnd(height)

\* The printer stands between two commands, or knows exactly how many bytes
\* of the command it is in are still to come.
ParserAt ==
  \/ left = 0 /\ Boundary(height, pos)
  \/ \E s \in 0 .. pos - 1 : /\ CommandBytes(height, s) > 0
                            /\ pos < CommandEnd(height, s)
                            /\ left = CommandEnd(height, s) - pos

IInv == TypeOK /\ HostAt /\ ParserAt /\ ParserInSync
=============================================================================
