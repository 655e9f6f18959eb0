------------------------ MODULE RasterTransfer_proofs ------------------------
(***************************************************************************)
(* The printer's parser stays in step with the host for every page height, *)
(* row width, band height, chunk size and stop position.                   *)
(*                                                                         *)
(* Argument.  The commands of a stream tile it: each one ends where the    *)
(* next begins and none begins inside another (Tiling).  The printer       *)
(* counts, so as long as it is handed a prefix of the stream it is either  *)
(* between two commands or a known number of bytes before the end of the   *)
(* one it is in (ParserAt).  A stop pads up to the end of the band in      *)
(* progress, which is the end of a command (PadEndIsBoundary), so what     *)
(* follows is read as the command it is.                                   *)
(*                                                                         *)
(* The rows counted as sent are the rows whose last byte is out            *)
(* (RowsBeforeCounts), and a stop before the trailing feed comes before    *)
(* the last byte of the last row (FirstAndLastRow), so a page that is      *)
(* called interrupted has rows left.                                       *)
(***************************************************************************)
EXTENDS RasterTransfer, FiniteSetTheorems, WellFoundedInduction, TLAPS

LEMMA MulNat == \A x, y \in Nat : x * y \in Nat
  BY Z3

\* Products by the band size are ordered as their factors.
LEMMA MulStep ==
  ASSUME NEW a \in Nat, NEW b \in Nat, NEW k \in Nat, a < b
  PROVE  a * k + k <= b * k
<1>1. (b - a - 1) * k \in Nat
  BY MulNat
<1>2. (b - a - 1) * k = b * k - a * k - k
  BY Z3
<1> QED
  BY <1>1, <1>2, MulNat

LEMMA DivFacts ==
  ASSUME NEW x \in Nat, NEW k \in Nat \ {0}
  PROVE  /\ x \div k \in Nat
         /\ (x \div k) * k <= x
         /\ x < (x \div k) * k + k
<1> DEFINE n == x \div k
<1>1. /\ n \in Int
      /\ x = n * k + (x % k)
      /\ x % k \in 0 .. k - 1
  OBVIOUS
<1>2. n >= 0
  BY <1>1
<1>3. n * k \in Nat
  BY <1>1, <1>2, MulNat
<1> HIDE DEF n
<1> QED
  BY <1>1, <1>2, <1>3 DEF n

\* The number of bands is the height over the band height, rounded up.
LEMMA BandCountFacts ==
  ASSUME NEW h \in Nat \ {0}
  PROVE  /\ BandCount(h) \in Nat \ {0}
         /\ BandCount(h) * BandHeight < h + BandHeight
         /\ h <= BandCount(h) * BandHeight
<1> DEFINE n == BandCount(h)
           x == h + BandHeight - 1
<1>1. x \in Nat /\ BandHeight \in Nat \ {0} /\ x >= BandHeight
  BY RasterAssumption
<1>2. /\ n \in Int
      /\ x = n * BandHeight + (x % BandHeight)
      /\ x % BandHeight \in 0 .. BandHeight - 1
  BY <1>1 DEF BandCount
<1>3. n * BandHeight <= x /\ x < n * BandHeight + BandHeight
  BY <1>1, <1>2
<1>4. n > 0
  BY <1>1, <1>2, <1>3
<1> QED
  BY <1>1, <1>2, <1>3, <1>4

LEMMA SizeFacts ==
  /\ PrefixBytes \in Nat /\ PrefixBytes >= InitBytes /\ InitBytes = 2
  /\ BandBytes \in Nat /\ BandBytes >= HeaderBytes /\ HeaderBytes = 8
  /\ BandHeight * WidthBytes \in Nat
  BY RasterAssumption, MulNat
     DEF PrefixBytes, InitBytes, BandBytes, HeaderBytes

\* Every band declares between 1 and BandHeight rows, all but the last a full
\* band, and ends where the next one starts (the last one: at the tail).
LEMMA BandFacts ==
  ASSUME NEW h \in Nat \ {0}, NEW b \in Bands(h)
  PROVE  /\ b \in Nat
         /\ BandRows(h, b) \in 1 .. BandHeight
         /\ HeaderStart(b) \in Nat /\ HeaderStart(b) >= PrefixBytes
         /\ DataStart(b) = HeaderStart(b) + 8
         /\ DataEnd(h, b) \in Nat /\ DataEnd(h, b) > DataStart(b)
         /\ DataEnd(h, b) <= HeaderStart(b) + BandBytes
         /\ b < BandCount(h) - 1 => DataEnd(h, b) = HeaderStart(b + 1)
         /\ b = BandCount(h) - 1 => DataEnd(h, b) = TailStart(h)
<1> DEFINE n == BandCount(h)
<1>1. b \in Nat /\ b < n /\ n \in Nat
  BY BandCountFacts DEF Bands
<1>2. BandHeight \in Nat \ {0} /\ WidthBytes \in Nat \ {0}
  BY RasterAssumption
<1>3. b * BandHeight \in Nat /\ n * BandHeight \in Nat
  BY <1>1, <1>2, MulNat
<1>4. b * BandHeight + BandHeight <= n * BandHeight
  BY <1>1, <1>2, MulStep
<1>5. b * BandHeight < h
  BY <1>2, <1>3, <1>4, BandCountFacts
<1>6. BandRows(h, b) \in 1 .. BandHeight
  BY <1>2, <1>3, <1>5 DEF BandRows
<1>7. b < n - 1 => BandRows(h, b) = BandHeight
  <2>1. SUFFICES ASSUME b < n - 1 PROVE BandRows(h, b) = BandHeight
    OBVIOUS
  <2>2. (b + 1) * BandHeight + BandHeight <= n * BandHeight
    BY <1>1, <1>2, <2>1, MulStep
  <2>3. (b + 1) * BandHeight = b * BandHeight + BandHeight
    BY <1>1, <1>2, Z3
  <2> QED
    BY <1>2, <1>3, <2>2, <2>3, BandCountFacts DEF BandRows
<1>8. /\ b * BandBytes \in Nat
      /\ (b + 1) * BandBytes = b * BandBytes + BandBytes
  <2>1. b * BandBytes \in Nat
    BY <1>1, SizeFacts, MulNat
  <2>2. BandBytes \in Nat
    BY SizeFacts
  <2> HIDE DEF BandBytes
  <2> QED
    BY <1>1, <2>1, <2>2, Z3
<1>9. /\ BandRows(h, b) * WidthBytes \in Nat
      /\ BandRows(h, b) * WidthBytes >= 1
      /\ BandRows(h, b) * WidthBytes <= BandHeight * WidthBytes
  <2> DEFINE r == BandRows(h, b)
  <2>1. r \in Nat /\ r >= 1 /\ r <= BandHeight
    BY <1>2, <1>6
  <2>2. r * WidthBytes \in Nat
    BY <1>2, <2>1, MulNat
  <2>3. 0 * WidthBytes + WidthBytes <= r * WidthBytes
    BY <1>2, <2>1, MulStep
  <2>4. 0 * WidthBytes = 0
    BY <1>2
  <2>5. CASE r = BandHeight
    BY <1>2, <2>2, <2>3, <2>4, <2>5
  <2>6. CASE r < BandHeight
    <3>1. r * WidthBytes + WidthBytes <= BandHeight * WidthBytes
      BY <1>2, <2>1, <2>6, MulStep
    <3> QED
      BY <1>2, <2>2, <2>3, <2>4, <3>1, SizeFacts
  <2> QED
    BY <1>2, <2>1, <2>5, <2>6
<1>10. HeaderStart(b) \in Nat /\ HeaderStart(b) >= PrefixBytes
  BY <1>8, SizeFacts DEF HeaderStart
<1>11. DataEnd(h, b) = HeaderStart(b) + 8 + BandRows(h, b) * WidthBytes
  BY SizeFacts, <1>10 DEF DataEnd, DataStart
<1>12. HeaderStart(b + 1) = HeaderStart(b) + 8 + BandHeight * WidthBytes
  BY <1>8, SizeFacts DEF HeaderStart, BandBytes
<1>13. DataStart(b) = HeaderStart(b) + 8
  BY SizeFacts DEF DataStart
<1>14. b = n - 1 => DataEnd(h, b) = TailStart(h)
  BY DEF TailStart
<1>15. BandBytes = 8 + BandHeight * WidthBytes
  BY SizeFacts DEF BandBytes
<1> HIDE DEF n
<1> QED
  BY <1>1, <1>6, <1>7, <1>9, <1>10, <1>11, <1>12, <1>13, <1>14, <1>15, SizeFacts DEF n

\* Bands do not overlap.
LEMMA BandsDisjoint ==
  ASSUME NEW h \in Nat \ {0}, NEW a \in Bands(h), NEW b \in Bands(h), a < b
  PROVE  DataEnd(h, a) <= HeaderStart(b)
<1>1. a \in Nat /\ b \in Nat /\ BandBytes \in Nat
  BY BandFacts, SizeFacts
<1>2. a * BandBytes + BandBytes <= b * BandBytes
  BY <1>1, MulStep
<1>3. a * BandBytes \in Nat /\ b * BandBytes \in Nat
  BY <1>1, MulNat
<1>4. HeaderStart(a) + BandBytes <= HeaderStart(b)
  BY <1>1, <1>2, <1>3, SizeFacts DEF HeaderStart
<1>5. DataEnd(h, a) <= HeaderStart(a) + BandBytes
  BY BandFacts
<1> QED
  BY <1>1, <1>4, <1>5, BandFacts

LEMMA TailFacts ==
  ASSUME NEW h \in Nat \ {0}
  PROVE  /\ TailStart(h) \in Nat /\ StreamEnd(h) \in Nat
         /\ TailStart(h) > PrefixBytes
         /\ StreamEnd(h) = TailStart(h) + FeedBytes /\ FeedBytes \in Nat
         /\ \A b \in Bands(h) : DataEnd(h, b) <= TailStart(h)
<1>1. BandCount(h) - 1 \in Bands(h)
  BY BandCountFacts DEF Bands
<1>2. TailStart(h) \in Nat /\ TailStart(h) > PrefixBytes
  BY <1>1, BandFacts, SizeFacts
<1>3. FeedBytes \in Nat
  BY RasterAssumption
<1>4. ASSUME NEW b \in Bands(h)
      PROVE  DataEnd(h, b) <= TailStart(h)
  <2>1. CASE b = BandCount(h) - 1
    BY <2>1, <1>2, BandFacts
  <2>2. CASE b # BandCount(h) - 1
    <3>1. b < BandCount(h) - 1
      BY <2>2, BandCountFacts DEF Bands
    <3>2. DataEnd(h, b) <= HeaderStart(BandCount(h) - 1)
      BY <1>1, <3>1, BandsDisjoint
    <3> QED
      BY <1>1, <3>2, BandFacts
  <2> QED
    BY <2>1, <2>2
<1> QED
  BY <1>2, <1>3, <1>4 DEF StreamEnd
-----------------------------------------------------------------------------
(* The commands of a stream, one lemma per kind.                            *)

LEMMA InitCommand ==
  ASSUME NEW h \in Nat \ {0}
  PROVE  CommandBytes(h, 0) = 2
  BY SizeFacts DEF CommandBytes

LEMMA DensityCommand ==
  ASSUME NEW h \in Nat \ {0}, DensityBytes > 0
  PROVE  CommandBytes(h, 2) = DensityBytes
  BY SizeFacts DEF CommandBytes

LEMMA HeaderStartInjective ==
  ASSUME NEW h \in Nat \ {0}, NEW b \in Bands(h), NEW c \in Bands(h),
         HeaderStart(b) = HeaderStart(c)
  PROVE  b = c
<1>1. /\ HeaderStart(b) \in Nat /\ DataEnd(h, b) > HeaderStart(b)
      /\ HeaderStart(c) \in Nat /\ DataEnd(h, c) > HeaderStart(c)
      /\ DataEnd(h, b) \in Nat /\ DataEnd(h, c) \in Nat
      /\ b \in Nat /\ c \in Nat
  BY BandFacts
<1>2. ~(b < c)
  BY <1>1, BandsDisjoint
<1>3. ~(c < b)
  BY <1>1, BandsDisjoint
<1> QED
  BY <1>1, <1>2, <1>3

LEMMA BandCommand ==
  ASSUME NEW h \in Nat \ {0}, NEW b \in Bands(h)
  PROVE  CommandBytes(h, HeaderStart(b)) = DataEnd(h, b) - HeaderStart(b)
<1> DEFINE p == HeaderStart(b)
           c == CHOOSE c \in Bands(h) : p = HeaderStart(c)
<1>1. p \in Nat /\ p >= PrefixBytes
  BY BandFacts
<1>2. c \in Bands(h) /\ p = HeaderStart(c)
  OBVIOUS
<1> HIDE DEF p, c
<1>3. c = b
  BY <1>2, HeaderStartInjective DEF p
<1>4. p # 0 /\ ~(p = InitBytes /\ DensityBytes > 0)
  BY <1>1, SizeFacts, RasterAssumption DEF PrefixBytes
<1>5. CommandBytes(h, p) = DataEnd(h, c) - p
  BY <1>2, <1>4 DEF CommandBytes, c
<1> QED
  BY <1>3, <1>5 DEF p

LEMMA FeedCommand ==
  ASSUME NEW h \in Nat \ {0}
  PROVE  CommandBytes(h, TailStart(h)) = FeedBytes
<1>1. /\ TailStart(h) \in Nat /\ TailStart(h) > PrefixBytes
      /\ PrefixBytes \in Nat /\ PrefixBytes >= 2 /\ InitBytes = 2
  BY TailFacts, SizeFacts
<1>2. ~\E b \in Bands(h) : TailStart(h) = HeaderStart(b)
  <2> SUFFICES ASSUME NEW b \in Bands(h), TailStart(h) = HeaderStart(b) PROVE FALSE
    OBVIOUS
  <2>1. DataEnd(h, b) <= TailStart(h)
    BY TailFacts
  <2>2. /\ DataEnd(h, b) \in Nat /\ HeaderStart(b) \in Nat
        /\ DataEnd(h, b) > HeaderStart(b)
    BY BandFacts
  <2> QED
    BY <2>1, <2>2
<1> QED
  BY <1>1, <1>2 DEF CommandBytes

\* These are all the commands there are.
LEMMA CommandStarts ==
  ASSUME NEW h \in Nat \ {0}, NEW p \in Nat, CommandBytes(h, p) # 0
  PROVE  \/ p = 0
         \/ p = 2 /\ DensityBytes = 4
         \/ \E b \in Bands(h) : p = HeaderStart(b)
         \/ p = TailStart(h) /\ FeedBytes = 3
  BY SizeFacts, RasterAssumption DEF CommandBytes

LEMMA FirstBand ==
  ASSUME NEW h \in Nat \ {0}
  PROVE  0 \in Bands(h) /\ HeaderStart(0) = PrefixBytes
<1>1. 0 \in Bands(h)
  BY BandCountFacts DEF Bands
<1>2. 0 * BandBytes = 0
  BY SizeFacts
<1> QED
  BY <1>1, <1>2, SizeFacts DEF HeaderStart

LEMMA CommandBytesNat ==
  ASSUME NEW h \in Nat \ {0}, NEW p \in Nat
  PROVE  CommandBytes(h, p) \in Nat
<1>1. CASE CommandBytes(h, p) = 0
  BY <1>1
<1>2. CASE p = 0
  BY <1>2, InitCommand
<1>3. CASE p = 2 /\ DensityBytes = 4
  BY <1>3, DensityCommand
<1>4. ASSUME NEW b \in Bands(h), p = HeaderStart(b)
      PROVE  CommandBytes(h, p) \in Nat
  BY <1>4, BandCommand, BandFacts
<1>5. CASE p = TailStart(h) /\ FeedBytes = 3
  BY <1>5, FeedCommand
<1> QED
  BY <1>1, <1>2, <1>3, <1>4, <1>5, CommandStarts

\* The end of a band is the start of a command or the end of the stream.
LEMMA BandEndIsBoundary ==
  ASSUME NEW h \in Nat \ {0}, NEW b \in Bands(h)
  PROVE  Boundary(h, DataEnd(h, b))
<1>1. CASE b < BandCount(h) - 1
  <2>1. b + 1 \in Bands(h)
    BY <1>1, BandCountFacts DEF Bands
  <2>2. DataEnd(h, b) = HeaderStart(b + 1)
    BY <1>1, BandFacts
  <2>3. DataEnd(h, b + 1) - HeaderStart(b + 1) > 0
    BY <2>1, BandFacts
  <2> QED
    BY <2>1, <2>2, <2>3, BandCommand DEF Boundary
<1>2. CASE b = BandCount(h) - 1
  <2>1. DataEnd(h, b) = TailStart(h)
    BY <1>2, BandFacts
  <2>2. FeedBytes = 3 \/ FeedBytes = 0
    BY RasterAssumption
  <2>3. CASE FeedBytes = 3
    BY <2>1, <2>3, FeedCommand DEF Boundary
  <2>4. CASE FeedBytes = 0
    BY <2>1, <2>4, TailFacts DEF Boundary
  <2> QED
    BY <2>2, <2>3, <2>4
<1> QED
  BY <1>1, <1>2, BandCountFacts DEF Bands

\* The commands tile the stream: each ends inside it, at a boundary, and no
\* other command starts between its first and its last byte.
LEMMA Tiling ==
  ASSUME NEW h \in Nat \ {0}, NEW s \in Nat, CommandBytes(h, s) > 0
  PROVE  /\ CommandEnd(h, s) \in Nat
         /\ CommandEnd(h, s) <= StreamEnd(h)
         /\ Boundary(h, CommandEnd(h, s))
         /\ \A q \in Nat : s < q /\ q < CommandEnd(h, s) => CommandBytes(h, q) = 0
<1> DEFINE Tiled(e) ==
      /\ e \in Nat
      /\ e <= StreamEnd(h)
      /\ Boundary(h, e)
      /\ \A q \in Nat : s < q /\ q < e => CommandBytes(h, q) = 0
<1>1. /\ 0 \in Bands(h) /\ HeaderStart(0) = PrefixBytes
      /\ CommandBytes(h, PrefixBytes) > 0
      /\ PrefixBytes = 2 + DensityBytes
  <2>1. 0 \in Bands(h) /\ HeaderStart(0) = PrefixBytes
    BY FirstBand
  <2>2. DataEnd(h, 0) - HeaderStart(0) > 0
    BY <2>1, BandFacts
  <2> QED
    BY <2>1, <2>2, BandCommand DEF PrefixBytes, InitBytes
<1>2. /\ TailStart(h) \in Nat /\ StreamEnd(h) \in Nat
      /\ TailStart(h) > PrefixBytes
      /\ StreamEnd(h) = TailStart(h) + FeedBytes
      /\ FeedBytes \in Nat /\ DensityBytes \in {0, 4}
  BY TailFacts, RasterAssumption
\* Where the command that starts at a position q can be.
<1>3. ASSUME NEW q \in Nat, CommandBytes(h, q) # 0
      PROVE  \/ q = 0
             \/ q = 2 /\ DensityBytes = 4
             \/ \E b \in Bands(h) : q = HeaderStart(b)
             \/ q = TailStart(h)
  BY <1>3, CommandStarts
<1>4. \A b \in Bands(h) : HeaderStart(b) \in Nat /\ HeaderStart(b) >= PrefixBytes
  BY BandFacts
<1>5. CASE s = 0
  <2>1. CommandEnd(h, s) = 2
    BY <1>5, InitCommand DEF CommandEnd
  <2>2. Boundary(h, 2)
    BY <1>1, <1>2, DensityCommand DEF Boundary
  <2>3. \A q \in Nat : 0 < q /\ q < 2 => CommandBytes(h, q) = 0
    BY <1>1, <1>2, <1>3, <1>4
  <2>4. 2 <= StreamEnd(h)
    BY <1>1, <1>2
  <2> QED
    BY <1>5, <2>1, <2>2, <2>3, <2>4
<1>6. CASE s = 2 /\ DensityBytes = 4
  <2>1. CommandEnd(h, s) = 6 /\ PrefixBytes = 6
    BY <1>1, <1>6, DensityCommand DEF CommandEnd
  <2>2. Boundary(h, 6)
    BY <1>1, <2>1 DEF Boundary
  <2>3. \A q \in Nat : 2 < q /\ q < 6 => CommandBytes(h, q) = 0
    BY <1>2, <1>3, <1>4, <2>1
  <2>4. 6 <= StreamEnd(h)
    BY <1>2, <2>1
  <2> QED
    BY <1>6, <2>1, <2>2, <2>3, <2>4
<1>7. ASSUME NEW b \in Bands(h), s = HeaderStart(b)
      PROVE  Tiled(CommandEnd(h, s))
  <2>1. /\ CommandEnd(h, s) = DataEnd(h, b)
        /\ DataEnd(h, b) \in Nat /\ DataEnd(h, b) <= TailStart(h)
        /\ HeaderStart(b) \in Nat /\ HeaderStart(b) >= PrefixBytes
    BY <1>7, BandCommand, BandFacts, TailFacts DEF CommandEnd
  <2>2. Boundary(h, DataEnd(h, b))
    BY BandEndIsBoundary
  <2>3. ASSUME NEW c \in Bands(h)
        PROVE  ~(HeaderStart(b) < HeaderStart(c) /\ HeaderStart(c) < DataEnd(h, b))
    <3>1. b \in Nat /\ c \in Nat
      BY BandFacts
    <3>2. /\ HeaderStart(c) \in Nat /\ DataEnd(h, c) \in Nat
          /\ DataEnd(h, c) > HeaderStart(c)
      BY BandFacts
    <3>3. CASE b < c
      BY <2>1, <3>2, <3>3, BandsDisjoint
    <3>4. CASE c < b
      BY <2>1, <3>2, <3>4, BandsDisjoint
    <3>5. CASE b = c
      BY <2>1, <3>5
    <3> QED
      BY <3>1, <3>3, <3>4, <3>5
  <2>4. \A q \in Nat : s < q /\ q < DataEnd(h, b) => CommandBytes(h, q) = 0
    BY <1>1, <1>2, <1>3, <1>7, <2>1, <2>3
  <2>5. DataEnd(h, b) <= StreamEnd(h)
    BY <1>2, <2>1
  <2> QED
    BY <2>1, <2>2, <2>4, <2>5
<1>8. CASE s = TailStart(h) /\ FeedBytes = 3
  <2>1. CommandEnd(h, s) = StreamEnd(h)
    BY <1>2, <1>8, FeedCommand DEF CommandEnd
  <2>2. \A b \in Bands(h) : HeaderStart(b) < TailStart(h)
    <3> TAKE b \in Bands(h)
    <3>1. /\ HeaderStart(b) \in Nat /\ DataEnd(h, b) \in Nat
          /\ DataEnd(h, b) > HeaderStart(b) /\ DataEnd(h, b) <= TailStart(h)
      BY BandFacts, TailFacts
    <3> QED
      BY <1>2, <3>1
  <2>3. \A q \in Nat : TailStart(h) < q => CommandBytes(h, q) = 0
    BY <1>1, <1>2, <1>3, <1>4, <2>2
  <2> QED
    BY <1>2, <1>8, <2>1, <2>3 DEF Boundary
<1>9. \/ s = 0
      \/ s = 2 /\ DensityBytes = 4
      \/ \E b \in Bands(h) : s = HeaderStart(b)
      \/ s = TailStart(h) /\ FeedBytes = 3
  BY CommandStarts
<1> QED
  BY <1>5, <1>6, <1>7, <1>8, <1>9

\* The padding of a stop ends at a boundary, at most where the tail begins.
LEMMA PadEndIsBoundary ==
  ASSUME NEW h \in Nat \ {0}, NEW off \in Nat, off < TailStart(h),
         off = 0 \/ off >= PrefixBytes
  PROVE  /\ PadEnd(h, off) \in Nat
         /\ off <= PadEnd(h, off)
         /\ PadEnd(h, off) <= TailStart(h)
         /\ Boundary(h, PadEnd(h, off))
<1>1. CASE OpenBands(h, off) # {}
  <2>1. PICK b \in OpenBands(h, off) : PadEnd(h, off) = DataEnd(h, b)
    BY <1>1 DEF PadEnd
  <2>2. b \in Bands(h) /\ off < DataEnd(h, b)
    BY <2>1 DEF OpenBands
  <2> QED
    BY <2>1, <2>2, BandFacts, TailFacts, BandEndIsBoundary
<1>2. CASE OpenBands(h, off) = {} /\ off = 0
  BY <1>2, InitCommand, TailFacts DEF PadEnd, Boundary
<1>3. CASE OpenBands(h, off) = {} /\ off >= PrefixBytes
  <2> DEFINE n == BandCount(h)
             b == (off - PrefixBytes) \div BandBytes
  <2>1. /\ PrefixBytes \in Nat /\ BandBytes \in Nat /\ BandBytes >= 8
        /\ n \in Nat \ {0}
    BY SizeFacts, BandCountFacts
  <2>2. b \in Nat /\ b * BandBytes <= off - PrefixBytes
        /\ off - PrefixBytes < b * BandBytes + BandBytes
    BY <1>3, <2>1, DivFacts
  <2> HIDE DEF b
  <2>3. HeaderStart(b) <= off /\ off < HeaderStart(b) + BandBytes
        /\ HeaderStart(b) \in Nat
    <3>1. b * BandBytes \in Nat
      BY <2>1, <2>2, MulNat
    <3> QED
      BY <2>1, <2>2, <3>1 DEF HeaderStart
  <2>4. b < n
    <3> SUFFICES ASSUME b >= n PROVE FALSE
      BY <2>1, <2>2
    <3>1. n - 1 \in Bands(h) /\ n - 1 \in Nat
      BY <2>1 DEF Bands
    <3>2. (n - 1) * BandBytes + BandBytes <= b * BandBytes
      BY <2>1, <2>2, <3>1, MulStep
    <3>3. (n - 1) * BandBytes \in Nat /\ b * BandBytes \in Nat
      BY <2>1, <2>2, <3>1, MulNat
    <3>4. HeaderStart(n - 1) + BandBytes <= HeaderStart(b)
      BY <2>1, <3>2, <3>3 DEF HeaderStart
    <3>5. TailStart(h) <= HeaderStart(n - 1) + BandBytes
      BY <3>1, BandFacts
    <3> QED
      BY <2>1, <2>3, <3>1, <3>4, <3>5, TailFacts, BandFacts
  <2>5. b \in Bands(h)
    BY <2>1, <2>2, <2>4 DEF Bands
  <2>6. off < DataEnd(h, b)
    <3>1. CASE b < n - 1
      <4>1. HeaderStart(b + 1) = HeaderStart(b) + BandBytes
        <5>1. (b + 1) * BandBytes = b * BandBytes + BandBytes
          BY <2>1, <2>2, Z3
        <5>2. b * BandBytes \in Nat
          BY <2>1, <2>2, MulNat
        <5> QED
          BY <2>1, <5>1, <5>2 DEF HeaderStart
      <4> QED
        BY <2>3, <2>5, <3>1, <4>1, BandFacts
    <3>2. CASE b = n - 1
      BY <2>5, <3>2, BandFacts
    <3> QED
      BY <2>1, <2>2, <2>4, <3>1, <3>2
  <2>7. off = HeaderStart(b)
    BY <1>3, <2>3, <2>5, <2>6 DEF OpenBands
  <2>8. CommandBytes(h, off) > 0
    BY <2>5, <2>7, BandCommand, BandFacts
  <2> QED
    BY <1>3, <2>8, TailFacts DEF PadEnd, Boundary
<1> QED
  BY <1>1, <1>2, <1>3

\* The padding is shorter than a band.
LEMMA PadIsShort ==
  ASSUME NEW h \in Nat \ {0}, NEW off \in Nat, off < TailStart(h)
  PROVE  PadEnd(h, off) \in Nat /\ PadEnd(h, off) < off + BandBytes
<1>1. CASE OpenBands(h, off) # {}
  <2>1. PICK b \in OpenBands(h, off) : PadEnd(h, off) = DataEnd(h, b)
    BY <1>1 DEF PadEnd
  <2>2. b \in Bands(h) /\ HeaderStart(b) < off
    BY <2>1 DEF OpenBands
  <2> QED
    BY <2>1, <2>2, BandFacts, SizeFacts
<1>2. CASE OpenBands(h, off) = {}
  BY <1>2, SizeFacts DEF PadEnd
<1> QED
  BY <1>1, <1>2
-----------------------------------------------------------------------------
(* The rows that are out.  RowsBefore folds over the bands; a row is out    *)
(* when its last byte is.  The two counts are shown equal without induction *)
(* over the fold: the number of rows of a set of bands that are out         *)
(* satisfies the equation of the fold, and a smallest set of bands on which *)
(* another solution differs would not be the smallest.                      *)

LEMMA MulOrder ==
  ASSUME NEW a \in Nat, NEW b \in Nat, NEW k \in Nat, a <= b
  PROVE  a * k <= b * k
<1>1. CASE a = b
  BY <1>1, MulNat
<1>2. CASE a < b
  <2>1. a * k + k <= b * k
    BY <1>2, MulStep
  <2> QED
    BY <2>1, MulNat
<1> QED
  BY <1>1, <1>2

\* The quotient is the only number of whole divisors that fit.
LEMMA DivUnique ==
  ASSUME NEW x \in Nat, NEW k \in Nat \ {0}, NEW q \in Nat,
         q * k <= x, x < q * k + k
  PROVE  x \div k = q
<1> DEFINE d == x \div k
<1>1. d \in Nat /\ d * k <= x /\ x < d * k + k
  BY DivFacts
<1> HIDE DEF d
<1>2. d * k \in Nat /\ q * k \in Nat
  BY <1>1, MulNat
<1>3. ~(d < q)
  <2> SUFFICES ASSUME d < q PROVE FALSE
    OBVIOUS
  <2>1. d * k + k <= q * k
    BY <1>1, MulStep
  <2> QED
    BY <1>1, <1>2, <2>1
<1>4. ~(q < d)
  <2> SUFFICES ASSUME q < d PROVE FALSE
    OBVIOUS
  <2>1. q * k + k <= d * k
    BY <1>1, MulStep
  <2> QED
    BY <1>1, <1>2, <2>1
<1>5. d = q
  BY <1>1, <1>3, <1>4
<1> QED
  BY <1>5 DEF d

\* The rows of band b are the BandRows(h, b) rows from b * BandHeight on.
LEMMA RowsOfBand ==
  ASSUME NEW h \in Nat \ {0}, NEW b \in Bands(h), NEW r \in Nat
  PROVE  /\ b * BandHeight \in Nat
         /\ r < h /\ r \div BandHeight = b
            <=> b * BandHeight <= r /\ r < b * BandHeight + BandRows(h, b)
<1> DEFINE s == b * BandHeight
           d == r \div BandHeight
<1>1. b \in Nat /\ BandHeight \in Nat \ {0} /\ BandRows(h, b) \in 1 .. BandHeight
  BY BandFacts, RasterAssumption
<1>2. s \in Nat
  BY <1>1, MulNat
<1>3. d = b => s <= r /\ r < s + BandHeight
  BY <1>1, DivFacts
<1>4. s <= r /\ r < s + BandHeight => d = b
  BY <1>1, DivUnique
<1>5. BandRows(h, b) = IF h - s < BandHeight THEN h - s ELSE BandHeight
  BY DEF BandRows
<1> HIDE DEF s, d
<1>6. r < h /\ d = b <=> s <= r /\ r < s + BandRows(h, b)
  BY <1>1, <1>2, <1>3, <1>4, <1>5
<1> QED
  BY <1>2, <1>6 DEF s, d

\* Every row of the page is in a band.
LEMMA BandOfRow ==
  ASSUME NEW h \in Nat \ {0}, NEW r \in 0 .. h - 1
  PROVE  r \div BandHeight \in Bands(h)
<1> DEFINE d == r \div BandHeight
           n == BandCount(h)
<1>1. /\ BandHeight \in Nat \ {0} /\ n \in Nat /\ r \in Nat
      /\ h <= n * BandHeight
  BY BandCountFacts, RasterAssumption
<1>2. d \in Nat /\ d * BandHeight <= r
  BY <1>1, DivFacts
<1> HIDE DEF d, n
<1>3. d < n
  <2> SUFFICES ASSUME n <= d PROVE FALSE
    BY <1>1, <1>2
  <2>1. n * BandHeight <= d * BandHeight
    BY <1>1, <1>2, MulOrder
  <2> QED
    BY <1>1, <1>2, <2>1, MulNat
<1> QED
  BY <1>1, <1>2, <1>3 DEF d, n, Bands

\* Within a band the rows that are out come first, RowsInBand of them.
LEMMA RowsOutOfBand ==
  ASSUME NEW h \in Nat \ {0}, NEW off \in Nat, NEW b \in Bands(h), NEW r \in Nat,
         b * BandHeight <= r, r < b * BandHeight + BandRows(h, b)
  PROVE  RowEnd(r) <= off <=> r < b * BandHeight + RowsInBand(h, off, b)
<1> DEFINE s == b * BandHeight
           k == r - s
           W == WidthBytes
           D == DataStart(b)
           n == BandRows(h, b)
           x == off - D
           q == x \div W
           m == (k + 1) * W
<1>1. /\ b \in Nat /\ BandHeight \in Nat \ {0} /\ W \in Nat \ {0}
      /\ n \in Nat /\ n >= 1 /\ n <= BandHeight /\ D \in Nat
  BY BandFacts, RasterAssumption
<1>2. s \in Nat /\ k \in Nat /\ k < n
  BY <1>1, RowsOfBand
<1>3. r < h /\ r \div BandHeight = b
  BY RowsOfBand
<1>4. r % BandHeight = k
  <2> DEFINE d == r \div BandHeight
  <2>1. r = d * BandHeight + (r % BandHeight) /\ r % BandHeight \in 0 .. BandHeight - 1
    BY <1>1
  <2>2. d * BandHeight = s
    BY <1>3
  <2> HIDE DEF d, s
  <2>3. r % BandHeight = r - s
    BY <1>1, <1>2, <2>1, <2>2
  <2> QED
    BY <2>3
<1>5. RowEnd(r) = D + m
  BY <1>3, <1>4 DEF RowEnd
<1>6. m \in Nat /\ n * W \in Nat /\ DataEnd(h, b) = D + n * W
  BY <1>1, <1>2, MulNat DEF DataEnd
<1>7. W <= m /\ m <= n * W
  <2>1. 1 * W <= m /\ 1 * W = W
    BY <1>1, <1>2, MulOrder
  <2>2. k + 1 \in Nat /\ k + 1 <= n
    BY <1>1, <1>2
  <2>3. m <= n * W
    BY <1>1, <2>2, MulOrder
  <2> QED
    BY <2>1, <2>3
<1>8. ASSUME x > 0
      PROVE  q \in Nat /\ (m <= x <=> k < q)
  <2>1. x \in Nat
    BY <1>1, <1>8
  <2>2. q \in Nat /\ q * W <= x /\ x < q * W + W
    BY <1>1, <2>1, DivFacts
  <2> HIDE DEF q, x
  <2>3. q * W \in Nat
    BY <1>1, <2>2, MulNat
  <2>4. ASSUME k < q PROVE m <= x
    <3>1. k + 1 \in Nat /\ k + 1 <= q
      BY <1>2, <2>2, <2>4
    <3>2. m <= q * W
      BY <1>1, <2>2, <3>1, MulOrder
    <3> QED
      BY <1>6, <2>1, <2>2, <2>3, <3>2
  <2>5. ASSUME q <= k PROVE ~(m <= x)
    <3>1. k + 1 \in Nat /\ q < k + 1
      BY <1>2, <2>2, <2>5
    <3>2. q * W + W <= m
      BY <1>1, <2>2, <3>1, MulStep
    <3> QED
      BY <1>1, <1>6, <2>1, <2>2, <2>3, <3>2
  <2> QED
    BY <1>2, <2>2, <2>4, <2>5
<1>9. RowsInBand(h, off, b) = IF off >= DataEnd(h, b) THEN n
                              ELSE IF off > D THEN q ELSE 0
  BY DEF RowsInBand
<1> SUFFICES D + m <= off <=> k < RowsInBand(h, off, b)
  <2>1. ASSUME NEW i \in Nat, NEW j \in Nat
        PROVE  r < i + j <=> r - i < j
    OBVIOUS
  <2>2. RowsInBand(h, off, b) \in Nat
    BY <1>1, <1>8, <1>9
  <2>3. r < s + RowsInBand(h, off, b) <=> k < RowsInBand(h, off, b)
    BY <1>2, <2>1, <2>2
  <2> QED
    BY <1>5, <2>3, Zenon
<1>10. off > D <=> x > 0
  BY <1>1
<1>11. m <= x <=> D + m <= off
  BY <1>1, <1>6
<1> HIDE DEF s, k, W, D, n, x, q, m
<1> QED
  BY <1>1, <1>2, <1>6, <1>7, <1>8, <1>9, <1>10, <1>11

\* The rows of the bands in s that are out at `off`.
RowsOut(h, off, s) ==
  {r \in 0 .. h - 1 : r \div BandHeight \in s /\ RowEnd(r) <= off}

\* A band contributes the number of its rows that are out.
LEMMA BandContributes ==
  ASSUME NEW h \in Nat \ {0}, NEW off \in Nat, NEW b \in Bands(h)
  PROVE  /\ RowsInBand(h, off, b) \in Nat
         /\ IsFiniteSet(RowsOut(h, off, {b}))
         /\ Cardinality(RowsOut(h, off, {b})) = RowsInBand(h, off, b)
<1> DEFINE s == b * BandHeight
           n == BandRows(h, b)
           m == RowsInBand(h, off, b)
<1>1. s \in Nat /\ n \in Nat
  BY RowsOfBand, BandFacts, RasterAssumption
<1>2. m \in Nat /\ m <= n
  <2>1. /\ DataStart(b) \in Nat /\ WidthBytes \in Nat \ {0} /\ n * WidthBytes \in Nat
        /\ DataEnd(h, b) = DataStart(b) + n * WidthBytes
    BY <1>1, BandFacts, RasterAssumption, MulNat DEF DataEnd
  <2>2. CASE off >= DataEnd(h, b)
    BY <1>1, <2>2 DEF RowsInBand
  <2>3. CASE off < DataEnd(h, b) /\ off > DataStart(b)
    <3> DEFINE x == off - DataStart(b)
               q == x \div WidthBytes
    <3>1. x \in Nat /\ x < n * WidthBytes
      BY <2>1, <2>3
    <3>2. q \in Nat /\ q * WidthBytes <= x
      BY <2>1, <3>1, DivFacts
    <3>3. m = q
      BY <2>1, <2>3 DEF RowsInBand
    <3> HIDE DEF x, q, m, n
    <3>4. ~(n < q)
      <4> SUFFICES ASSUME n < q PROVE FALSE
        OBVIOUS
      <4>1. n * WidthBytes <= q * WidthBytes
        BY <1>1, <2>1, <3>2, MulOrder
      <4> QED
        BY <1>1, <2>1, <3>1, <3>2, <4>1, MulNat
    <3> QED
      BY <1>1, <3>2, <3>3, <3>4
  <2>4. CASE off <= DataStart(b)
    <3>1. ~(off >= DataEnd(h, b))
      BY <2>1, <2>4, BandFacts
    <3> QED
      BY <1>1, <2>1, <2>4, <3>1 DEF RowsInBand
  <2> QED
    BY <2>1, <2>2, <2>3, <2>4
<1>3. ASSUME NEW r \in Nat
      PROVE  r \in RowsOut(h, off, {b}) <=> s <= r /\ r < s + m
  <2>1. r < h /\ r \div BandHeight = b <=> s <= r /\ r < s + n
    BY RowsOfBand
  <2>2. s <= r /\ r < s + n => (RowEnd(r) <= off <=> r < s + m)
    BY RowsOutOfBand
  <2>3. r \in RowsOut(h, off, {b}) <=> r < h /\ r \div BandHeight = b /\ RowEnd(r) <= off
    BY DEF RowsOut
  <2> HIDE DEF s, n, m
  <2> QED
    BY <1>1, <1>2, <2>1, <2>2, <2>3
<1> HIDE DEF s, m
<1>4. RowsOut(h, off, {b}) = s .. s + m - 1
  <2>1. RowsOut(h, off, {b}) \in SUBSET Nat
    BY DEF RowsOut
  <2>2. \A r : r \in s .. s + m - 1 <=> r \in Nat /\ s <= r /\ r < s + m
    BY <1>1, <1>2
  <2> QED
    BY <1>3, <2>1, <2>2
<1>5. /\ IsFiniteSet(s .. s + m - 1)
      /\ Cardinality(s .. s + m - 1) = m
  <2> DEFINE e == s + m - 1
  <2>1. s \in Int /\ e \in Int /\ m = IF s > e THEN 0 ELSE e - s + 1
    BY <1>1, <1>2
  <2> HIDE DEF e
  <2>2. IsFiniteSet(s .. e) /\ Cardinality(s .. e) = m
    BY <2>1, FS_Interval
  <2> QED
    BY <2>2 DEF e
<1> QED
  BY <1>2, <1>4, <1>5 DEF m

\* The rows of a set of bands are those of any one of them and of the others.
LEMMA OneBandLess ==
  ASSUME NEW h \in Nat \ {0}, NEW off \in Nat, NEW s \in SUBSET Bands(h), NEW b \in s
  PROVE  /\ Cardinality(RowsOut(h, off, s \ {b})) \in Nat
         /\ Cardinality(RowsOut(h, off, s))
              = RowsInBand(h, off, b) + Cardinality(RowsOut(h, off, s \ {b}))
<1> DEFINE S == RowsOut(h, off, {b})
           T == RowsOut(h, off, s \ {b})
<1>1. RowsOut(h, off, s) = S \cup T /\ S \cap T = {}
  BY DEF RowsOut
<1>2. IsFiniteSet(0 .. h - 1) /\ T \in SUBSET (0 .. h - 1)
  BY FS_Interval DEF RowsOut
<1>3. IsFiniteSet(T) /\ Cardinality(T) \in Nat
  BY <1>2, FS_Subset, FS_CardinalityType
<1>4. IsFiniteSet(S) /\ Cardinality(S) = RowsInBand(h, off, b)
      /\ RowsInBand(h, off, b) \in Nat
  BY BandContributes
<1> HIDE DEF S, T
<1>5. Cardinality(S \cup T) = Cardinality(S) + Cardinality(T) - Cardinality(S \cap T)
  BY <1>3, <1>4, FS_Union
<1>6. Cardinality(S \cap T) = 0
  BY <1>1, FS_EmptySet
<1>7. Cardinality(RowsOut(h, off, s)) = RowsInBand(h, off, b) + Cardinality(T)
  BY <1>1, <1>3, <1>4, <1>5, <1>6
<1> QED
  BY <1>3, <1>7 DEF T

\* The element the fold takes from a set.
OneOf(s) == CHOOSE x \in s : TRUE

\* `sum` solves the equation of the fold over the bands.
Solves(h, off, sum) ==
  sum = [s \in SUBSET Bands(h) |->
           IF s = {} THEN 0
           ELSE RowsInBand(h, off, OneOf(s)) + sum[s \ {OneOf(s)}]]

LEMMA RowsOutSolves ==
  ASSUME NEW h \in Nat \ {0}, NEW off \in Nat
  PROVE  Solves(h, off, [s \in SUBSET Bands(h) |-> Cardinality(RowsOut(h, off, s))])
<1> DEFINE g == [s \in SUBSET Bands(h) |-> Cardinality(RowsOut(h, off, s))]
<1>1. ASSUME NEW s \in SUBSET Bands(h)
      PROVE  g[s] = IF s = {} THEN 0
                    ELSE RowsInBand(h, off, OneOf(s)) + g[s \ {OneOf(s)}]
  <2>1. CASE s = {}
    BY <2>1, FS_EmptySet DEF RowsOut
  <2>2. CASE s # {}
    <3>1. OneOf(s) \in s
      BY <2>2 DEF OneOf
    <3>2. s \ {OneOf(s)} \in SUBSET Bands(h)
      OBVIOUS
    <3> QED
      BY <2>2, <3>1, <3>2, OneBandLess
  <2> QED
    BY <2>1, <2>2
<1> QED
  BY <1>1, Zenon DEF Solves

\* There is no other solution.
LEMMA SolutionCounts ==
  ASSUME NEW h \in Nat \ {0}, NEW off \in Nat, NEW sum, Solves(h, off, sum),
         NEW t \in SUBSET Bands(h)
  PROVE  sum[t] = Cardinality(RowsOut(h, off, t))
<1> DEFINE Wrong == {s \in SUBSET Bands(h) : sum[s] # Cardinality(RowsOut(h, off, s))}
           Sizes == {Cardinality(s) : s \in Wrong}
<1> SUFFICES ASSUME Wrong # {} PROVE FALSE
  OBVIOUS
<1>1. ASSUME NEW s \in SUBSET Bands(h)
      PROVE  IsFiniteSet(s) /\ Cardinality(s) \in Nat
  <2>1. IsFiniteSet(Bands(h))
    <3>1. 0 \in Int /\ BandCount(h) - 1 \in Int
      BY BandCountFacts
    <3> QED
      BY <3>1, FS_Interval DEF Bands
  <2> QED
    BY <2>1, FS_Subset, FS_CardinalityType
<1>2. Sizes \in SUBSET Nat /\ Sizes # {}
  BY <1>1
<1>3. PICK n \in Sizes : \A m \in Sizes : ~(<<m, n>> \in OpToRel(<, Nat))
  BY <1>2, WFMin, NatLessThanWellFounded, Zenon
<1>4. \A m \in Sizes : ~(m < n)
  BY <1>2, <1>3 DEF OpToRel
<1>5. PICK s \in Wrong : Cardinality(s) = n
  BY <1>3
<1>6. s \in SUBSET Bands(h) /\ sum[s] # Cardinality(RowsOut(h, off, s))
  BY <1>5
<1>7. sum[s] = IF s = {} THEN 0
               ELSE RowsInBand(h, off, OneOf(s)) + sum[s \ {OneOf(s)}]
  BY <1>6 DEF Solves
<1>8. CASE s = {}
  BY <1>6, <1>7, <1>8, FS_EmptySet DEF RowsOut
<1>9. CASE s # {}
  <2> DEFINE b == OneOf(s)
  <2>1. b \in s
    BY <1>9 DEF OneOf
  <2> HIDE DEF b
  <2>2. s \ {b} \in SUBSET Bands(h)
    BY <1>6
  <2>3. Cardinality(s \ {b}) = Cardinality(s) - 1
    BY <1>1, <1>6, <2>1, FS_RemoveElement
  <2>4. Cardinality(s \ {b}) < n
    BY <1>1, <1>5, <1>6, <2>3
  <2>5. s \ {b} \notin Wrong
    BY <1>4, <2>4
  <2>6. sum[s \ {b}] = Cardinality(RowsOut(h, off, s \ {b}))
    BY <2>2, <2>5
  <2>7. Cardinality(RowsOut(h, off, s))
          = RowsInBand(h, off, b) + Cardinality(RowsOut(h, off, s \ {b}))
    BY <1>6, <2>1, OneBandLess
  <2>8. sum[s] = RowsInBand(h, off, b) + sum[s \ {b}]
    BY <1>7, <1>9 DEF b
  <2> QED
    BY <1>6, <2>6, <2>7, <2>8
<1> QED
  BY <1>8, <1>9

\* _rows_before counts the rows that are out, whatever the bands.
LEMMA RowsBeforeCounts ==
  ASSUME NEW h \in Nat \ {0}, NEW off \in Nat
  PROVE  RowsBefore(h, off) = Cardinality({r \in 0 .. h - 1 : RowEnd(r) <= off})
<1> DEFINE sum == CHOOSE sum : Solves(h, off, sum)
<1>1. RowsBefore(h, off) = sum[Bands(h)]
  BY DEF RowsBefore, MapThenSumSet, MapThenFoldSet, Solves, OneOf
<1>2. Solves(h, off, sum)
  BY RowsOutSolves
<1> HIDE DEF sum
<1>3. sum[Bands(h)] = Cardinality(RowsOut(h, off, Bands(h)))
  BY <1>2, SolutionCounts
<1>4. \A r \in 0 .. h - 1 : r \div BandHeight \in Bands(h)
  BY BandOfRow
<1>5. RowsOut(h, off, Bands(h)) = {r \in 0 .. h - 1 : RowEnd(r) <= off}
  BY <1>4 DEF RowsOut
<1> QED
  BY <1>1, <1>3, <1>5

\* A row that is out stays out, and all are out where the trailing feed starts.
LEMMA RowsBeforeGrows ==
  ASSUME NEW h \in Nat \ {0}, NEW a \in Nat, NEW b \in Nat, a <= b
  PROVE  /\ RowsBefore(h, a) \in 0 .. RowsBefore(h, b)
         /\ RowsBefore(h, b) \in 0 .. h
         /\ TailStart(h) <= b => RowsBefore(h, b) = h
<1> DEFINE S == 0 .. h - 1
           A == {r \in S : RowEnd(r) <= a}
           B == {r \in S : RowEnd(r) <= b}
<1>1. IsFiniteSet(S) /\ Cardinality(S) = h
  <2>1. 0 \in Int /\ h - 1 \in Int /\ h = IF 0 > h - 1 THEN 0 ELSE h - 1 - 0 + 1
    OBVIOUS
  <2> QED
    BY <2>1, FS_Interval
<1>2. ASSUME NEW r \in S
      PROVE  RowEnd(r) \in Nat /\ RowEnd(r) <= TailStart(h)
  <2> DEFINE d == r \div BandHeight
             k == r % BandHeight
  <2>1. d \in Bands(h) /\ k \in Nat /\ BandHeight \in Nat \ {0} /\ WidthBytes \in Nat
    <3>1. d \in Bands(h)
      BY BandOfRow
    <3>2. r \in Nat /\ BandHeight \in Nat \ {0} /\ WidthBytes \in Nat
      BY RasterAssumption
    <3>3. k \in Nat
      BY <3>2
    <3> QED
      BY <3>1, <3>2, <3>3
  <2>2. RowEnd(r) = DataStart(d) + (k + 1) * WidthBytes
    BY DEF RowEnd
  <2>3. RowEnd(r) \in Nat
    <3> HIDE DEF d, k
    <3> QED
      BY <2>1, <2>2, BandFacts, MulNat
  <2>4. d * BandHeight <= r /\ r < d * BandHeight + BandRows(h, d)
    BY <2>1, RowsOfBand
  <2>5. TailStart(h) \in Nat /\ TailStart(h) >= DataEnd(h, d)
    BY <2>1, TailFacts, BandFacts
  <2>6. RowsInBand(h, TailStart(h), d) = BandRows(h, d)
    BY <2>5 DEF RowsInBand
  <2> HIDE DEF d
  <2> QED
    BY <2>1, <2>3, <2>4, <2>5, <2>6, RowsOutOfBand
<1>3. A \in SUBSET B /\ B \in SUBSET S /\ (TailStart(h) <= b => B = S)
  BY <1>2, TailFacts
<1>4. RowsBefore(h, a) = Cardinality(A) /\ RowsBefore(h, b) = Cardinality(B)
  BY RowsBeforeCounts
<1> HIDE DEF S, A, B
<1>5. /\ IsFiniteSet(B) /\ Cardinality(B) <= h
      /\ IsFiniteSet(A) /\ Cardinality(A) <= Cardinality(B)
  BY <1>1, <1>3, FS_Subset
<1>6. Cardinality(A) \in Nat /\ Cardinality(B) \in Nat
  BY <1>5, FS_CardinalityType
<1> QED
  BY <1>1, <1>3, <1>4, <1>5, <1>6

\* The last row of the page ends where the trailing feed starts, so it is not
\* out before; at the start no row is.
LEMMA FirstAndLastRow ==
  ASSUME NEW h \in Nat \ {0}
  PROVE  /\ RowEnd(h - 1) = TailStart(h)
         /\ \A r \in 0 .. h - 1 : ~(RowEnd(r) <= 0)
<1> DEFINE b == BandCount(h) - 1
<1>1. b \in Bands(h) /\ b \in Nat /\ BandHeight \in Nat \ {0} /\ WidthBytes \in Nat \ {0}
  BY BandCountFacts, RasterAssumption DEF Bands
<1>2. RowEnd(h - 1) = TailStart(h)
  <2> DEFINE s == b * BandHeight
             d == (h - 1) \div BandHeight
  <2>1. s \in Nat /\ s < h /\ h <= s + BandHeight
    <3>1. (b + 1) * BandHeight = s + BandHeight
      BY <1>1, Z3
    <3>2. b + 1 = BandCount(h)
      BY BandCountFacts
    <3>3. s + BandHeight < h + BandHeight /\ h <= s + BandHeight
      BY <3>1, <3>2, BandCountFacts
    <3>4. s \in Nat
      BY <1>1, MulNat
    <3> HIDE DEF s
    <3> QED
      BY <1>1, <3>3, <3>4
  <2>2. d = b
    <3> DEFINE x == h - 1
    <3>1. x \in Nat /\ s <= x /\ x < s + BandHeight
      <4> HIDE DEF s
      <4> QED
        BY <1>1, <2>1
    <3> HIDE DEF x, b
    <3> QED
      BY <1>1, <3>1, DivUnique DEF x
  <2>3. (h - 1) % BandHeight = h - 1 - s
    <3>1. /\ h - 1 = d * BandHeight + ((h - 1) % BandHeight)
          /\ (h - 1) % BandHeight \in 0 .. BandHeight - 1
      BY <1>1
    <3>2. d * BandHeight = s
      BY <2>2
    <3> HIDE DEF d, s
    <3> QED
      BY <1>1, <2>1, <3>1, <3>2
  <2>4. BandRows(h, b) = h - s
    <3>1. BandRows(h, b) = IF h - s < BandHeight THEN h - s ELSE BandHeight
      BY DEF BandRows
    <3> HIDE DEF s
    <3> QED
      BY <1>1, <2>1, <3>1
  <2>5. RowEnd(h - 1) = DataStart(b) + (h - 1 - s + 1) * WidthBytes
    BY <2>2, <2>3 DEF RowEnd
  <2>6. h - 1 - s + 1 = h - s
    BY <2>1
  <2> QED
    BY <2>4, <2>5, <2>6 DEF TailStart, DataEnd
<1>3. ASSUME NEW r \in 0 .. h - 1
      PROVE  ~(RowEnd(r) <= 0)
  <2> DEFINE d == r \div BandHeight
             k == r % BandHeight
  <2>1. d \in Nat /\ k \in Nat
    BY <1>1, DivFacts
  <2> HIDE DEF d, k
  <2>2. d * BandBytes \in Nat /\ (k + 1) * WidthBytes \in Nat
    BY <1>1, <2>1, SizeFacts, MulNat
  <2>3. RowEnd(r) = PrefixBytes + d * BandBytes + HeaderBytes + (k + 1) * WidthBytes
    BY DEF RowEnd, DataStart, HeaderStart, d, k
  <2> QED
    BY <2>2, <2>3, SizeFacts
<1> QED
  BY <1>2, <1>3
-----------------------------------------------------------------------------
(* The inductive invariant.                                                 *)

LEMMA InitInv == Init => IInv
<1> SUFFICES ASSUME Init PROVE IInv
  OBVIOUS
<1>1. height \in Nat \ {0} /\ height \in Heights
  BY RasterAssumption DEF Init
<1>2. StreamEnd(height) \in Nat
  BY <1>1, TailFacts
<1>3. Boundary(height, 0)
  BY <1>1, InitCommand DEF Boundary
<1>4. TypeOK
  <2>1. /\ 0 \in 0 .. StreamEnd(height) /\ 0 \in 0 .. 0 /\ 0 \in Nat
    BY <1>2
  <2>2. /\ chunk \in ChunkSizes /\ pc = "sending"
        /\ offset = 0 /\ sent = 0 /\ pos = 0 /\ left = 0
    BY DEF Init
  <2>3. abort \in BOOLEAN /\ absent \in BOOLEAN /\ lidOpen \in BOOLEAN /\ misread \in BOOLEAN
    BY DEF Init
  <2>4. sent \in offset .. StreamEnd(height) /\ pos \in 0 .. sent
    BY <1>2, <2>2
  <2> QED
    BY <1>1, <2>1, <2>2, <2>3, <2>4 DEF TypeOK, PC
<1>5. HostAt
  BY DEF Init, HostAt, Padding, Stopped
<1>6. ParserAt /\ ParserInSync
  BY <1>3 DEF Init, ParserAt, ParserInSync
<1> QED
  BY <1>4, <1>5, <1>6 DEF IInv

\* What every step starts from.
LEMMA StepFacts ==
  ASSUME IInv
  PROVE  /\ height \in Nat \ {0} /\ height \in Heights
         /\ chunk \in Nat /\ chunk >= PrefixBytes /\ chunk \in ChunkSizes
         /\ PrefixBytes \in Nat
         /\ StreamEnd(height) \in Nat /\ TailStart(height) \in Nat
         /\ StreamEnd(height) >= TailStart(height)
         /\ offset \in Nat /\ sent \in Nat /\ pos \in Nat /\ left \in Nat
         /\ offset <= sent /\ sent <= StreamEnd(height) /\ pos <= sent
<1>1. /\ height \in Heights /\ chunk \in ChunkSizes
      /\ offset \in 0 .. StreamEnd(height)
      /\ sent \in offset .. StreamEnd(height)
      /\ pos \in 0 .. sent /\ left \in Nat
  BY DEF IInv, TypeOK
<1>2. height \in Nat \ {0} /\ chunk \in Nat /\ chunk >= PrefixBytes
  BY <1>1, RasterAssumption
<1> QED
  BY <1>1, <1>2, TailFacts, SizeFacts

\* A step of the host or an event leaves the parser where it is.
LEMMA ParserUnmoved ==
  ASSUME IInv, height' = height, UNCHANGED parser
  PROVE  (ParserAt /\ ParserInSync)'
  BY DEF IInv, ParserAt, ParserInSync, parser

\* A stop between two chunks leaves everything but pc as it is.
LEMMA StopStep ==
  ASSUME IInv, NEW padding \in Padding, StopFor(padding), offset < TailStart(height)
  PROVE  IInv'
<1>1. offset <= PadEnd(height, offset)
  BY StepFacts, PadEndIsBoundary DEF IInv, HostAt
<1>2. TypeOK'
  BY DEF StopFor, IInv, TypeOK, PC, events, parser
<1>3. HostAt'
  BY <1>1 DEF StopFor, Sending, IInv, HostAt, Stopped, Padding
<1> QED
  BY <1>2, <1>3, ParserUnmoved DEF StopFor, IInv

LEMMA WriteStep ==
  ASSUME IInv, WriteChunk
  PROVE  IInv'
<1>1. PieceEnd \in Nat /\ PieceEnd >= offset /\ PieceEnd <= StreamEnd(height)
      /\ (PieceEnd >= PrefixBytes)
  <2>1. StreamEnd(height) >= PrefixBytes
    BY StepFacts, TailFacts
  <2> QED
    BY <2>1, StepFacts DEF PieceEnd, WriteChunk, Sending
<1>2. PieceEnd = StreamEnd(height) => Boundary(height, PieceEnd)
  BY DEF Boundary
<1>3. sent = offset
  BY DEF IInv, HostAt, WriteChunk, Sending
<1>4. TypeOK'
  <2>1. /\ height' = height /\ chunk' = chunk /\ pos' = pos /\ left' = left
        /\ offset' = PieceEnd /\ sent' = PieceEnd /\ pc' \in {"sent", "sending"}
    BY DEF WriteChunk, parser
  <2>2. /\ abort' \in BOOLEAN /\ absent' \in BOOLEAN /\ lidOpen' \in BOOLEAN
        /\ misread' \in BOOLEAN
    BY DEF WriteChunk, IInv, TypeOK, events, parser
  <2>3. /\ offset' \in 0 .. StreamEnd(height) /\ sent' \in offset' .. StreamEnd(height)
        /\ pos' \in 0 .. sent'
    BY <1>1, <1>3, <2>1, StepFacts
  <2> QED
    BY <2>1, <2>2, <2>3, StepFacts DEF TypeOK, PC
<1>5. HostAt'
  BY <1>1, <1>2 DEF WriteChunk, HostAt, Stopped, Padding
<1> QED
  BY <1>4, <1>5, ParserUnmoved DEF WriteChunk, IInv

LEMMA PadStep ==
  ASSUME IInv, PadChunk
  PROVE  IInv'
<1>1. PadEnd(height, offset) \in Nat /\ PadEnd(height, offset) <= TailStart(height)
  BY StepFacts, PadEndIsBoundary DEF IInv, HostAt, PadChunk
<1>2. sent' \in Nat /\ sent' >= sent /\ sent' <= PadEnd(height, offset)
  BY <1>1, StepFacts DEF PadChunk
<1>3. TypeOK'
  <2>1. /\ height' = height /\ chunk' = chunk /\ pos' = pos /\ left' = left
        /\ offset' = offset /\ pc' = pc
    BY DEF PadChunk, parser
  <2>2. /\ abort' \in BOOLEAN /\ absent' \in BOOLEAN /\ lidOpen' \in BOOLEAN
        /\ misread' \in BOOLEAN /\ pc \in PC
    BY DEF PadChunk, IInv, TypeOK, events, parser
  <2>3. /\ offset' \in 0 .. StreamEnd(height) /\ sent' \in offset' .. StreamEnd(height)
        /\ pos' \in 0 .. sent'
    BY <1>1, <1>2, <2>1, StepFacts
  <2> QED
    BY <2>1, <2>2, <2>3, StepFacts DEF TypeOK
<1>4. HostAt'
  BY <1>2 DEF PadChunk, IInv, HostAt, Stopped, Padding
<1> QED
  BY <1>3, <1>4, ParserUnmoved DEF PadChunk, IInv

LEMMA RaiseStep ==
  ASSUME IInv, Raise
  PROVE  IInv'
<1>1. Boundary(height, PadEnd(height, offset)) /\ PadEnd(height, offset) \in Nat
  BY StepFacts, PadEndIsBoundary DEF IInv, HostAt, Raise
<1>2. sent = PadEnd(height, offset)
  <2>1. sent <= PadEnd(height, offset) /\ sent >= PadEnd(height, offset)
    BY DEF IInv, HostAt, Raise
  <2> QED
    BY <1>1, <2>1, StepFacts
<1>3. TypeOK'
  BY DEF Raise, IInv, TypeOK, PC, Stopped, events, parser
<1>4. HostAt'
  BY <1>1, <1>2 DEF Raise, IInv, HostAt, Stopped, Padding
<1> QED
  BY <1>3, <1>4, ParserUnmoved DEF Raise, IInv

\* The printer reads one byte: the next command if it owes nothing, else a
\* byte of the command it is in, and no other command starts there.
LEMMA ReadStep ==
  ASSUME IInv, PrinterReads
  PROVE  IInv'
<1> DEFINE h == height
<1>1. pos < StreamEnd(h) /\ pos < sent
  BY StepFacts DEF PrinterReads
<1>2. CommandBytes(h, pos) \in Nat
  BY StepFacts, CommandBytesNat
<1>3. ASSUME left' \in Nat, misread' = FALSE
      PROVE  TypeOK' /\ HostAt'
  <2>1. TypeOK'
    BY <1>1, <1>3, StepFacts DEF PrinterReads, IInv, TypeOK, host, events
  <2>2. HostAt'
    BY DEF PrinterReads, IInv, HostAt, host
  <2> QED
    BY <2>1, <2>2
<1>4. CASE left = 0 /\ Boundary(h, pos)
  <2>1. CommandBytes(h, pos) > 0
    BY <1>1, <1>4, StepFacts DEF Boundary
  <2>2. /\ CommandEnd(h, pos) \in Nat /\ Boundary(h, CommandEnd(h, pos))
        /\ CommandEnd(h, pos) = pos + CommandBytes(h, pos)
    BY <2>1, StepFacts, Tiling DEF CommandEnd
  <2>3. left' = CommandEnd(h, pos) - pos' /\ left' \in Nat
    BY <1>2, <1>4, <2>1, <2>2, StepFacts DEF PrinterReads
  <2>4. misread' = FALSE
    BY <1>2, <1>4, <2>1 DEF PrinterReads, IInv, TypeOK, ParserInSync
  <2>5. ParserAt'
    <3>1. CASE pos' = CommandEnd(h, pos)
      <4>1. left' = 0
        BY <2>2, <2>3, <3>1, SMT
      <4>2. Boundary(h, pos')
        BY <2>2, <3>1
      <4> QED
        BY <4>1, <4>2, StepFacts DEF ParserAt, PrinterReads
    <3>2. CASE pos' < CommandEnd(h, pos)
      BY <2>1, <2>2, <2>3, <3>2, StepFacts DEF PrinterReads, ParserAt
    <3> QED
      BY <2>1, <2>2, <3>1, <3>2, <1>2, StepFacts DEF PrinterReads
  <2> QED
    BY <1>1, <1>3, <2>3, <2>4, <2>5 DEF IInv, ParserInSync
<1>5. ASSUME NEW s \in 0 .. pos - 1, CommandBytes(h, s) > 0,
             pos < CommandEnd(h, s), left = CommandEnd(h, s) - pos
      PROVE  IInv'
  <2>1. s \in Nat
    BY <1>5, StepFacts
  <2>2. /\ CommandEnd(h, s) \in Nat /\ Boundary(h, CommandEnd(h, s))
        /\ CommandBytes(h, pos) = 0
    BY <1>5, <2>1, StepFacts, Tiling
  <2>3. left' = CommandEnd(h, s) - pos' /\ left' \in Nat
    BY <1>5, <2>2, StepFacts DEF PrinterReads
  <2>4. misread' = FALSE
    <3>1. left # 0
      BY <1>5, <2>2, StepFacts
    <3> QED
      BY <2>2, <3>1 DEF PrinterReads, IInv, TypeOK, ParserInSync
  <2>5. ParserAt'
    <3>1. CASE pos' = CommandEnd(h, s)
      <4>1. left' = 0
        BY <2>2, <2>3, <3>1, SMT
      <4>2. Boundary(h, pos')
        BY <2>2, <3>1
      <4> QED
        BY <4>1, <4>2, StepFacts DEF ParserAt, PrinterReads
    <3>2. CASE pos' < CommandEnd(h, s)
      BY <1>5, <2>1, <2>2, <2>3, <3>2, StepFacts DEF PrinterReads, ParserAt
    <3> QED
      BY <1>5, <2>2, <3>1, <3>2, StepFacts DEF PrinterReads
  <2> QED
    BY <1>1, <1>3, <2>3, <2>4, <2>5 DEF IInv, ParserInSync
<1> QED
  BY <1>4, <1>5 DEF IInv, ParserAt

\* The host's next command meets a printer that owes nothing.
LEMMA NextCommandStep ==
  ASSUME IInv, NextCommand
  PROVE  IInv'
<1>1. Boundary(height, pos)
  BY DEF IInv, HostAt, NextCommand
<1>2. left = 0
  <2> SUFFICES ASSUME NEW s \in 0 .. pos - 1, CommandBytes(height, s) > 0,
                      pos < CommandEnd(height, s)
               PROVE  FALSE
    BY DEF IInv, ParserAt
  <2>1. CommandBytes(height, pos) = 0 /\ CommandEnd(height, s) <= StreamEnd(height)
        /\ CommandEnd(height, s) \in Nat
    BY StepFacts, Tiling
  <2> QED
    BY <1>1, <2>1, StepFacts DEF Boundary
<1>3. misread' = FALSE
  BY <1>2 DEF NextCommand, IInv, TypeOK, ParserInSync
<1>4. TypeOK'
  BY <1>3 DEF NextCommand, IInv, TypeOK, PC, events
<1>5. HostAt'
  BY DEF NextCommand, IInv, HostAt, Stopped, Padding
<1>6. ParserAt'
  BY DEF NextCommand, IInv, ParserAt
<1> QED
  BY <1>3, <1>4, <1>5, <1>6 DEF IInv, ParserInSync

LEMMA NextInv == IInv /\ [Next]_vars => IInv'
<1> SUFFICES ASSUME IInv, [Next]_vars PROVE IInv'
  OBVIOUS
<1>1. CASE Cancel
  BY <1>1, StopStep DEF Cancel, MustCancel, Padding
<1>2. CASE StopForLid
  BY <1>2, StopStep DEF StopForLid, MustStopForLid, Padding
<1>3. CASE GiveUpSheet
  <2>1. TypeOK'
    BY <1>3 DEF GiveUpSheet, IInv, TypeOK, PC, events, parser
  <2>2. HostAt'
    BY <1>3 DEF GiveUpSheet, IInv, HostAt, Stopped, Padding
  <2> QED
    BY <1>3, <2>1, <2>2, ParserUnmoved DEF GiveUpSheet, IInv
<1>4. CASE WriteChunk
  BY <1>4, WriteStep
<1>5. CASE PadChunk
  BY <1>5, PadStep
<1>6. CASE Raise
  BY <1>6, RaiseStep
<1>7. CASE LoseLink
  <2>1. TypeOK'
    BY <1>7 DEF LoseLink, IInv, TypeOK, PC, events, parser
  <2>2. HostAt'
    BY <1>7 DEF LoseLink, IInv, HostAt, Stopped, Padding
  <2> QED
    BY <1>7, <2>1, <2>2, ParserUnmoved DEF LoseLink, IInv
<1>8. CASE AbortArrives \/ SheetLeaves \/ LidOpens
  <2>1. TypeOK'
    BY <1>8 DEF AbortArrives, SheetLeaves, LidOpens, IInv, TypeOK, host, parser
  <2>2. HostAt'
    BY <1>8 DEF AbortArrives, SheetLeaves, LidOpens, IInv, HostAt, host
  <2> QED
    BY <1>8, <2>1, <2>2, ParserUnmoved DEF AbortArrives, SheetLeaves, LidOpens, IInv
<1>9. CASE PrinterReads
  BY <1>9, ReadStep
<1>10. CASE NextCommand
  BY <1>10, NextCommandStep
<1>11. CASE UNCHANGED vars
  BY <1>11 DEF vars, host, events, parser, IInv, TypeOK, HostAt, ParserAt, ParserInSync
<1> QED
  BY <1>1, <1>2, <1>3, <1>4, <1>5, <1>6, <1>7, <1>8, <1>9, <1>10, <1>11
     DEF Next, Host

LEMMA Inductive == Spec => []IInv
  BY InitInv, NextInv, PTL DEF Spec

\* The type invariant of the transfer, for every page and every connection.
THEOREM TransferTypes == Spec => []TypeOK
<1>1. IInv => TypeOK
  BY DEF IInv
<1> QED
  BY <1>1, Inductive, PTL

\* Printer._pad_band and _transfer keep the printer's parser in step, whatever
\* the page height, the row width, the band height and the negotiated chunk,
\* and wherever an abort or an opened lid stops the transfer.
THEOREM TransferKeepsSync == Spec => []ParserInSync
<1>1. IInv => ParserInSync
  BY DEF IInv
<1> QED
  BY <1>1, Inductive, PTL

\* Printer._rows_sent moves with `offset`, and only with it.
LEMMA CountStep == IInv /\ RowsSentExact /\ [Next]_vars => RowsSentExact'
<1> SUFFICES ASSUME IInv, RowsSentExact, [Next]_vars PROVE RowsSentExact'
  OBVIOUS
<1>1. CASE WriteChunk
  <2>1. PieceEnd \in Nat
    BY <1>1, StepFacts DEF PieceEnd
  <2>2. height' = height /\ offset' = PieceEnd /\ rowsSent' = RowsBefore(height, PieceEnd)
    BY <1>1 DEF WriteChunk
  <2> QED
    BY <2>1, <2>2, StepFacts, RowsBeforeCounts DEF RowsSentExact, CompleteRows
<1>2. CASE UNCHANGED <<height, offset, rowsSent>>
  BY <1>2 DEF RowsSentExact, CompleteRows
<1>3. WriteChunk \/ UNCHANGED <<height, offset, rowsSent>>
  BY DEF Next, Host, vars, host, Cancel, StopForLid, StopFor, GiveUpSheet, PadChunk,
         Raise, LoseLink, AbortArrives, SheetLeaves, LidOpens, PrinterReads, NextCommand
<1> QED
  BY <1>1, <1>2, <1>3

\* rows_sent counts the rows that are out completely, for every page height,
\* row width, band height and chunk: the sum over the bands that _rows_before
\* makes of the offset is the number of rows whose last byte lies before it.
THEOREM RowsAreCounted == Spec => []RowsSentExact
<1>1. Init => RowsSentExact
  <2> SUFFICES ASSUME Init PROVE RowsSentExact
    OBVIOUS
  <2>1. offset = 0 /\ rowsSent = 0 /\ height \in Nat \ {0}
    BY RasterAssumption DEF Init
  <2>2. CompleteRows(0) = {}
    BY <2>1, FirstAndLastRow DEF CompleteRows
  <2> QED
    BY <2>1, <2>2, FS_EmptySet DEF RowsSentExact
<1> QED
  BY <1>1, CountStep, Inductive, PTL DEF Spec

\* A page that an abort or an opened lid stops has rows left to print, so the
\* stop of a page whose last row is out is never reported, whatever the sizes.
THEOREM StopLeavesRows == Spec => []StopMeansUnfinished
<1>1. IInv /\ RowsSentExact => StopMeansUnfinished
  <2> SUFFICES ASSUME IInv, RowsSentExact, pc \in Stopped \cup Padding
               PROVE  rowsSent < height
    BY DEF StopMeansUnfinished
  <2> DEFINE S == 0 .. height - 1
             T == CompleteRows(offset)
  <2>1. height \in Nat \ {0} /\ offset \in Nat /\ TailStart(height) \in Nat
        /\ offset < TailStart(height)
    BY StepFacts DEF IInv, HostAt
  <2>2. height - 1 \in S /\ height - 1 \notin T
    BY <2>1, FirstAndLastRow DEF CompleteRows
  <2>3. IsFiniteSet(S) /\ Cardinality(S) = height
    <3>1. 0 \in Int /\ height - 1 \in Int
          /\ height = IF 0 > height - 1 THEN 0 ELSE height - 1 - 0 + 1
      BY <2>1
    <3> QED
      BY <3>1, FS_Interval
  <2>4. T \in SUBSET S /\ T # S
    BY <2>2 DEF CompleteRows
  <2> HIDE DEF S, T
  <2>5. IsFiniteSet(T) /\ Cardinality(T) <= height /\ Cardinality(T) # height
    BY <2>3, <2>4, FS_Subset
  <2>6. Cardinality(T) \in Nat
    BY <2>5, FS_CardinalityType
  <2>7. rowsSent = Cardinality(T)
    BY DEF RowsSentExact, T
  <2> QED
    BY <2>1, <2>5, <2>6, <2>7
<1> QED
  BY <1>1, Inductive, RowsAreCounted, PTL

\* The rows reported as sent never fall during a page, and a page whose whole
\* stream is out has them all: progress runs up to the height of the page.
THEOREM ProgressIsWhole ==
  Spec => [](pc = "sent" => rowsSent = height) /\ [][rowsSent' >= rowsSent]_vars
<1>1. IInv /\ RowsSentExact => (pc = "sent" => rowsSent = height)
  <2> SUFFICES ASSUME IInv, RowsSentExact, pc = "sent" PROVE rowsSent = height
    OBVIOUS
  <2>1. /\ height \in Nat \ {0} /\ offset \in Nat /\ TailStart(height) <= offset
    BY StepFacts DEF IInv, HostAt
  <2> QED
    BY <2>1, RowsBeforeCounts, RowsBeforeGrows DEF RowsSentExact, CompleteRows
<1>2. IInv /\ RowsSentExact /\ [Next]_vars => [rowsSent' >= rowsSent]_vars
  <2> SUFFICES ASSUME IInv, RowsSentExact, [Next]_vars PROVE rowsSent' >= rowsSent
    OBVIOUS
  <2>1. rowsSent = RowsBefore(height, offset) /\ height \in Nat \ {0} /\ offset \in Nat
    BY StepFacts, RowsBeforeCounts DEF RowsSentExact, CompleteRows
  <2>2. CASE WriteChunk
    <3>1. PieceEnd \in Nat /\ offset <= PieceEnd /\ rowsSent' = RowsBefore(height, PieceEnd)
      BY <2>2, StepFacts DEF WriteChunk, PieceEnd
    <3> QED
      BY <2>1, <3>1, RowsBeforeGrows
  <2>3. CASE rowsSent' = rowsSent
    <3>1. rowsSent \in Nat
      BY <2>1, RowsBeforeGrows
    <3> QED
      BY <2>3, <3>1
  <2>4. WriteChunk \/ rowsSent' = rowsSent
    BY DEF Next, Host, vars, host, Cancel, StopForLid, StopFor, GiveUpSheet, PadChunk,
           Raise, LoseLink, AbortArrives, SheetLeaves, LidOpens, PrinterReads, NextCommand
  <2> QED
    BY <2>2, <2>3, <2>4
<1> QED
  BY <1>1, <1>2, Inductive, RowsAreCounted, PTL DEF Spec

\* An abort or an opened lid costs less than a band of blank paper: what
\* _pad_band adds ends before one more band would, and before the trailing
\* feed, which is never sent after a stop.
THEOREM StopCostsLessThanABand ==
  Spec => [](pc \in Stopped \cup Padding => /\ sent - offset < BandBytes
                                           /\ sent <= TailStart(height))
<1>1. IInv => (pc \in Stopped \cup Padding => /\ sent - offset < BandBytes
                                             /\ sent <= TailStart(height))
  <2> SUFFICES ASSUME IInv, pc \in Stopped \cup Padding
               PROVE  sent - offset < BandBytes /\ sent <= TailStart(height)
    OBVIOUS
  <2>1. /\ offset < TailStart(height) /\ sent <= PadEnd(height, offset)
        /\ offset = 0 \/ offset >= PrefixBytes
    BY DEF IInv, HostAt
  <2>2. height \in Nat \ {0} /\ offset \in Nat /\ sent \in Nat /\ TailStart(height) \in Nat
    BY StepFacts
  <2> QED
    BY <2>1, <2>2, PadIsShort, PadEndIsBoundary, SizeFacts
<1> QED
  BY <1>1, Inductive, PTL

\* The loops of _transfer and _pad_band cannot turn on the spot: every step of
\* the host hands bytes to the link, which ends at the end of the stream, or
\* leaves the page for the padding or either of them for good.
THEOREM HostAdvances ==
  Spec => [][Host => \/ sent < sent' /\ sent' <= StreamEnd(height)
                     \/ sent' = sent /\ pc' # pc /\ pc' # "sending"
                        /\ (pc' \in Padding => pc = "sending")]_vars
<1> DEFINE Advances == \/ sent < sent' /\ sent' <= StreamEnd(height)
                       \/ sent' = sent /\ pc' # pc /\ pc' # "sending"
                          /\ (pc' \in Padding => pc = "sending")
<1>1. IInv /\ [Next]_vars => [Host => Advances]_vars
  <2> SUFFICES ASSUME IInv, Host PROVE Advances
    OBVIOUS
  <2>1. CASE WriteChunk
    <3>1. sent = offset /\ sent' = PieceEnd /\ offset < StreamEnd(height)
      BY <2>1 DEF IInv, HostAt, WriteChunk, Sending
    <3>2. chunk \in Nat /\ chunk > 0 /\ StreamEnd(height) \in Nat /\ offset \in Nat
      BY StepFacts, SizeFacts
    <3> QED
      BY <3>1, <3>2 DEF PieceEnd
  <2>2. CASE PadChunk
    <3>1. sent < PadEnd(height, offset) /\ sent' = IF sent + chunk < PadEnd(height, offset)
                                                 THEN sent + chunk ELSE PadEnd(height, offset)
      BY <2>2 DEF PadChunk
    <3>2. /\ PadEnd(height, offset) \in Nat
          /\ PadEnd(height, offset) <= StreamEnd(height)
      <4>1. /\ PadEnd(height, offset) \in Nat
            /\ PadEnd(height, offset) <= TailStart(height)
        BY <2>2, StepFacts, PadEndIsBoundary DEF IInv, HostAt, PadChunk
      <4> QED
        BY <4>1, StepFacts
    <3>3. chunk \in Nat /\ chunk > 0 /\ StreamEnd(height) \in Nat /\ sent \in Nat
      BY StepFacts, SizeFacts
    <3> QED
      BY <3>1, <3>2, <3>3
  <2>3. CASE Cancel \/ StopForLid \/ GiveUpSheet
    BY <2>3 DEF Cancel, StopForLid, StopFor, GiveUpSheet, Sending, Padding
  <2>4. CASE Raise \/ LoseLink
    BY <2>4 DEF Raise, LoseLink, Sending, Padding
  <2> QED
    BY <2>1, <2>2, <2>3, <2>4 DEF Host
<1> QED
  BY <1>1, Inductive, PTL DEF Spec
=============================================================================
