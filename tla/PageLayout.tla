------------------------------ MODULE PageLayout ------------------------------
(***************************************************************************)
(* From the raster a client sends to the rows that reach the sheet: the    *)
(* geometry of the printer app's driver (driver.c, models.c) and of        *)
(* BridgeClient.print_image and print_test_page (client.py), the page      *)
(* buffer of page_begin, lines and page_end (session.py), prepare_page     *)
(* (imaging.py) with the margins of the profile (registry.py), and         *)
(* Printer.print_image (printer.py) with prepare_image, which users of the *)
(* library call without a bridge.                                          *)
(*                                                                         *)
(* Pixels are counted, not looked at.  Lengths are in 1/100 mm, as PWG     *)
(* sizes are; one dot row is 2540 / dpi of them.                           *)
(***************************************************************************)
EXTENDS Integers

CONSTANTS
  Profiles,  \* of one printer: [width: px, dpi, top, bottom, sheet: 1/100 mm]
  Media,     \* sheets of the manifest: [width, length: 1/100 mm]
  Images,    \* sizes of image files: [width, height: px]
  Counts,    \* rows a lines message may announce
  FeedLines, \* feed_lines of print_bitmap: rows fed behind the page
  None

ASSUME LayoutAssumption ==
  /\ Profiles \subseteq [width : Nat \ {0}, dpi : Nat \ {0}, top : Nat, bottom : Nat,
                          sheet : Nat \cup {None}]
  /\ \A p \in Profiles : /\ p.width % 8 = 0
                         /\ p.sheet # None => p.top + p.bottom < p.sheet
  /\ Media \subseteq [width : Nat \ {0}, length : Nat \ {0}]
  /\ Images \subseteq [width : Nat \ {0}, height : Nat \ {0}]
  /\ Counts \subseteq Nat /\ FeedLines \in Nat /\ None \notin Nat

VARIABLES
  profile,  \* the model of the connected printer
  origin,   \* who sends the page, and what it is a page of
  page,     \* Session._page, or None
  printed,  \* what page_end prepared, or None
  refused   \* the last command was answered with an error

vars == <<profile, origin, page, printed, refused>>

Abs(x) == IF x < 0 THEN -x ELSE x
AtMost(x, y) == IF x > y THEN y ELSE x
-----------------------------------------------------------------------------
(* The profile: rows_for and lead_rows, rounded down and to the nearest.    *)

Rows(length, dpi) == (length * dpi) \div 2540

LeadRows(p) == (2 * p.top * p.dpi + 2540) \div 5080

\* Bug for the mutant runs: the lead counts as printable.
Bug_LeadIsPrintable(p, length) == Rows(length - p.bottom, p.dpi)

RowsFor(p, length) == Rows(length - p.top - p.bottom, p.dpi)
-----------------------------------------------------------------------------
(* The driver: the side of the sheet closest to the head lies across it.    *)

HeadWidth(p) == (p.width * 2540) \div p.dpi

WidthAcross(m, head) == Abs(m.width - head) <= Abs(m.length - head)

\* Bug for the mutant runs: a raster that lies already is turned as well.
Bug_AlwaysTurns(m, head, raster) == ~WidthAcross(m, head)

ShouldRotate(m, head, raster) == ~WidthAcross(m, head) /\ raster.height > raster.width

MediaLength(m, head) == IF WidthAcross(m, head) THEN m.length ELSE m.width

Turned(raster) == [width |-> raster.height, height |-> raster.width]

\* The rasters PAPPL makes of a sheet: upright, or lying for a sheet that is
\* fed by its long edge.
Rasters(p, m) ==
  LET upright == [width |-> Rows(m.width, p.dpi), height |-> Rows(m.length, p.dpi)] IN
  {upright} \cup IF WidthAcross(m, HeadWidth(p)) THEN {} ELSE {Turned(upright)}

\* page_begin of the printer app.
AppPage(m, r) == [raster |-> r, sheet |-> m,
                  length |-> MediaLength(m, HeadWidth(profile)),
                  rotate |-> ShouldRotate(m, HeadWidth(profile), r)]

AppPages == UNION {{AppPage(m, r) : r \in Rasters(profile, m)} : m \in Media}
-----------------------------------------------------------------------------
(* The bridge's own client: MEDIA and print_image, and print_test_page with *)
(* render_test_page.                                                        *)

ClientMedia == {[length |-> 29700, rotate |-> FALSE], [length |-> 14800, rotate |-> TRUE],
                [length |-> None, rotate |-> FALSE]}

ImagePages == {[raster |-> r, sheet |-> None, length |-> m.length, rotate |-> m.rotate] :
                 r \in Images, m \in ClientMedia}

TestPage(p) ==
  LET length == IF p.sheet = None THEN 29700 ELSE p.sheet IN
  [width |-> Rows(21000, p.dpi), height |-> Rows(length - 2 * 1000, p.dpi)]

\* The lead print_test_page puts on top, the M08F's.
TestLead == (2 * 1000 * 203 + 2540) \div 5080

TestPages == {[raster |-> [TestPage(profile) EXCEPT !.height = @ + TestLead],
               sheet |-> None, length |-> 29700, rotate |-> FALSE]}
-----------------------------------------------------------------------------
(* prepare_page.                                                            *)

\* The raster in the direction of the feed.
Fed(pg) == IF pg.rotate THEN Turned(pg.raster) ELSE pg.raster

TooShort(p, pg) == Fed(pg).height <= LeadRows(p)
NothingPrintable(p, pg) == pg.length # None /\ pg.length <= p.top + p.bottom

Bottom(p, pg) ==
  IF pg.length = None THEN Fed(pg).height
  ELSE AtMost(Fed(pg).height, LeadRows(p) + RowsFor(p, pg.length))

\* Centred on the head when narrower, cropped when wider; rows in the lead and
\* behind the last printable one are dropped.
Prepared(p, pg) ==
  [width |-> p.width, rows |-> Bottom(p, pg) - LeadRows(p),
   left |-> IF Fed(pg).width < p.width THEN (p.width - Fed(pg).width) \div 2 ELSE 0,
   columns |-> AtMost(Fed(pg).width, p.width)]
-----------------------------------------------------------------------------
(* Printer.print_image: the image is scaled, and nothing is cut for the     *)
(* margins.                                                                 *)

Fits == {"fit_width", "fit_page", "original", "fit_height", "stretch"}

\* print_image gives prepare_image no target_height, and max_rows of roll media
\* is None.
Unfit(p, fit) == fit \in {"fit_height", "stretch"} \/ (fit = "fit_page" /\ p.sheet = None)

\* int(n * (num / den)): a product that should be whole may come out below it.
Truncated(n, num, den) ==
  LET q == (n * num) \div den IN
  IF num % den # 0 /\ (n * num) % den = 0 THEN {q - 1, q} ELSE {q}

Scaled(image, num, den) ==
  Truncated(image.width, num, den) \X Truncated(image.height, num, den)

\* The scale of fit_page is that of the width unless the rows are fewer.
WidthBounds(image, width, rows) == width * image.height <= rows * image.width

Sizes(p, image, fit) ==
  CASE fit = "fit_width" ->
         {<<p.width, h>> : h \in Truncated(image.height, p.width, image.width)}
    [] fit = "fit_page" ->
         LET rows == RowsFor(p, p.sheet) IN
         {<<IF s[1] < 16 THEN 8 ELSE 8 * (s[1] \div 8), s[2]>> :
            s \in IF WidthBounds(image, p.width, rows)
                  THEN Scaled(image, p.width, image.width)
                  ELSE Scaled(image, rows, image.height)}
    [] fit = "original" -> {<<image.width, image.height>>}

\* Only fit_page is given the length of a sheet; an image scaled to no rows at
\* all is an error.
PrintImage ==
  /\ page = None
  /\ \E image \in Images, fit \in Fits :
       \/ /\ Unfit(profile, fit) /\ refused' = TRUE /\ printed' = None
       \/ /\ ~Unfit(profile, fit)
          /\ \E s \in Sizes(profile, image, fit) :
               /\ refused' = (s[2] = 0)
               /\ printed' =
                    IF refused' THEN None
                    ELSE [page  |-> [raster |-> image, sheet |-> None, rotate |-> FALSE,
                                     length |-> IF fit = "fit_page" THEN profile.sheet ELSE None,
                                     rows |-> image.height],
                          image |-> [width |-> profile.width, rows |-> s[2],
                                     left |-> IF s[1] < profile.width
                                              THEN (profile.width - s[1]) \div 2 ELSE 0,
                                     columns |-> AtMost(s[1], profile.width)]]
  /\ origin' = "library" /\ UNCHANGED <<profile, page>>
-----------------------------------------------------------------------------
(* The page buffer.  A refused command leaves it as it is.                  *)

Init ==
  /\ profile \in Profiles
  /\ origin = "none" /\ page = None /\ printed = None /\ refused = FALSE

PageBegin(who, pg) ==
  /\ page' = [raster |-> pg.raster, sheet |-> pg.sheet, length |-> pg.length,
              rotate |-> pg.rotate, rows |-> 0]
  /\ origin' = who /\ printed' = None /\ refused' = FALSE
  /\ UNCHANGED profile

Begins == \/ \E pg \in AppPages : PageBegin("app", pg)
          \/ \E pg \in ImagePages : PageBegin("image", pg)
          \/ \E pg \in TestPages : PageBegin("test page", pg)

\* Bits, sizes, tone, density: any of the checks of page_begin.
BeginRefused ==
  /\ refused' = TRUE /\ printed' = None /\ UNCHANGED <<profile, origin, page>>

\* The rows are there and whole, and the page has room for them.
Accepts(count) == page # None /\ count > 0 /\ page.rows + count <= page.raster.height

Lines ==
  \E count \in Counts \cup IF page = None THEN {} ELSE {page.raster.height - page.rows} :
    /\ IF Accepts(count)
       THEN page' = [page EXCEPT !.rows = @ + count] /\ refused' = FALSE
       ELSE refused' = TRUE /\ UNCHANGED page
    /\ printed' = None /\ UNCHANGED <<profile, origin>>

\* A payload that is not count rows long.
LinesRefused ==
  /\ page # None
  /\ refused' = TRUE /\ printed' = None /\ UNCHANGED <<profile, origin, page>>

Complete == page # None /\ page.rows = page.raster.height

\* Rows are missing, or no printer is connected.
PageEnd ==
  /\ refused' = TRUE /\ printed' = None /\ UNCHANGED <<profile, origin, page>>

\* page_end of a whole page takes the buffer away, printed or not.
PageEndPrepares ==
  /\ Complete /\ page' = None
  /\ refused' = (TooShort(profile, page) \/ NothingPrintable(profile, page))
  /\ printed' = IF refused' THEN None
                ELSE [page |-> page, image |-> Prepared(profile, page)]
  /\ UNCHANGED <<profile, origin>>

Next == Begins \/ BeginRefused \/ Lines \/ LinesRefused \/ PageEnd \/ PageEndPrepares
        \/ PrintImage

Spec == Init /\ [][Next]_vars
-----------------------------------------------------------------------------
(* Properties.                                                              *)

\* The rows kept free at the end of a sheet: with the lead in front of it and
\* the feed behind it a page, or an image printed with fit_page (docs/library.md),
\* never runs its sheet out of the sensor, which would leave the printer mute,
\* as long as the bottom margin is longer than that feed.
SheetOutlastsPage ==
  printed # None /\ printed.page.length # None
  /\ profile.bottom * profile.dpi >= (FeedLines + 1) * 2540
    => LeadRows(profile) + printed.image.rows + FeedLines
         <= Rows(printed.page.length, profile.dpi)

\* A page of the printer app reaches its sheet whole but for the margins: it
\* is never turned off its sheet or cut across, its last row but for rounding
\* is that of the bottom margin, and rows that were declared were sent.
SheetIsFilled ==
  printed # None /\ origin = "app" =>
    LET pg == printed.page  fed == Fed(pg)  image == printed.image IN
      /\ pg.rows = pg.raster.height
      /\ fed.height = Rows(pg.length, profile.dpi)
      /\ {fed.width, fed.height} =
           {Rows(pg.sheet.width, profile.dpi), Rows(pg.sheet.length, profile.dpi)}
      /\ Abs(2 * image.left + image.columns - image.width) <= 1
      /\ Abs(LeadRows(profile) + image.rows
               - (fed.height - Rows(profile.bottom, profile.dpi))) <= 2
=============================================================================
