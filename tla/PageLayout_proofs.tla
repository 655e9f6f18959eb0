-------------------------- MODULE PageLayout_proofs --------------------------
(***************************************************************************)
(* Pages on their sheets, for every profile, sheet and image size.         *)
(*                                                                         *)
(* No page runs its sheet out: the lead is the top margin rounded to the   *)
(* nearest row, the printable rows are the rest rounded down; together     *)
(* they are at most half a row more than the sheet without its bottom      *)
(* margin (MarginKeepsRows).  prepare_page never goes behind the last      *)
(* printable row, and fit_page scales an image to no more rows than that   *)
(* (FitKeepsRows), whatever the rounding of its floats.                    *)
(*                                                                         *)
(* A page of the app fills its sheet: the driver asks for a turn exactly   *)
(* when the raster does not lie along the feed (AppLies, for sheets that   *)
(* are named upright), and the same three roundings err by two rows at     *)
(* most in the other direction too (BottomIsMargin).                       *)
(***************************************************************************)
EXTENDS PageLayout, TLAPS

LEMMA ProductInNat == \A x, y \in Nat : x * y \in Nat
  BY Z3

LEMMA Floor ==
  ASSUME NEW x \in Int, NEW k \in Nat \ {0}
  PROVE  /\ x \div k \in Int
         /\ (x \div k) * k <= x
         /\ x < (x \div k) * k + k
<1>1. /\ x \div k \in Int
      /\ x = (x \div k) * k + (x % k)
      /\ x % k \in 0 .. k - 1
  OBVIOUS
<1> DEFINE q == x \div k
           s == q * k
<1>2. s \in Int
  BY <1>1, Z3
<1> HIDE DEF s
<1>3. x = s + (x % k) /\ x % k \in 0 .. k - 1
  BY <1>1 DEF s
<1>4. s <= x /\ x < s + k
  BY <1>2, <1>3
<1> QED
  BY <1>1, <1>4 DEF s

LEMMA ProductInInt == \A x, y \in Int : x * y \in Int
  BY Z3

\* Rows of a length are a number of rows.
LEMMA RowsType ==
  ASSUME NEW l, NEW d, l \in Int, d \in Int
  PROVE  Rows(l, d) \in Int
<1>1. l * d \in Int
  BY ProductInInt
<1> QED
  BY <1>1, Floor DEF Rows

LEMMA RowsOfSheet ==
  ASSUME NEW p \in Profiles, NEW l \in Nat
  PROVE  Rows(l, p.dpi) \in Int
<1>1. l \in Int /\ p.dpi \in Int
  BY LayoutAssumption
<1> QED
  BY <1>1, RowsType, Zenon

\* The lead, the printable rows and a feed shorter than the bottom margin.
LEMMA MarginKeepsRows ==
  ASSUME NEW p \in Profiles, NEW l \in Nat,
         p.top + p.bottom < l,
         p.bottom * p.dpi >= (FeedLines + 1) * 2540
  PROVE  /\ LeadRows(p) \in Int /\ RowsFor(p, l) \in Int
         /\ LeadRows(p) + RowsFor(p, l) + FeedLines <= Rows(l, p.dpi)
<1>1. /\ p.top \in Nat /\ p.bottom \in Nat /\ p.dpi \in Nat /\ FeedLines \in Nat
  BY LayoutAssumption
<1> DEFINE a == p.top * p.dpi
           b == p.bottom * p.dpi
           c == l * p.dpi
<1>2. a \in Nat /\ b \in Nat /\ c \in Nat
  BY <1>1, ProductInNat
<1>3. /\ 2 * p.top * p.dpi = 2 * a
      /\ (l - p.top - p.bottom) * p.dpi = c - a - b
  BY <1>1, Z3
<1>4. /\ LeadRows(p) = (2 * a + 2540) \div 5080
      /\ RowsFor(p, l) = (c - a - b) \div 2540
      /\ Rows(l, p.dpi) = c \div 2540
  BY <1>3 DEF LeadRows, RowsFor, Rows
<1>5. b >= (FeedLines + 1) * 2540
  OBVIOUS
<1> HIDE DEF a, b, c
<1> DEFINE lead == (2 * a + 2540) \div 5080
           rows == (c - a - b) \div 2540
           all  == c \div 2540
<1>6. /\ lead \in Int /\ lead * 5080 <= 2 * a + 2540
      /\ rows \in Int /\ rows * 2540 <= c - a - b
      /\ all \in Int /\ c < all * 2540 + 2540
  BY <1>2, Floor
<1> HIDE DEF lead, rows, all
<1>7. lead + rows + FeedLines <= all
  BY <1>1, <1>2, <1>5, <1>6
<1> QED
  BY <1>4, <1>6, <1>7 DEF lead, rows, all

\* n times r / m, rounded down, is at most k when n * r is at most k * m.
LEMMA ScaledAtMost ==
  ASSUME NEW n \in Nat \ {0}, NEW r \in Nat, NEW m \in Nat \ {0}, NEW k \in Nat,
         n * r <= k * m
  PROVE  \A t \in Truncated(n, r, m) : t \in Int /\ t <= k
<1> DEFINE q == (n * r) \div m
<1>1. n * r \in Nat
  BY ProductInNat
<1>2. q \in Int /\ q * m <= n * r
  BY <1>1, Floor
<1>3. q <= k
  <2>1. SUFFICES ASSUME q > k PROVE FALSE
    BY <1>2
  <2> HIDE DEF q
  <2>2. (q - k - 1) * m >= 0
    BY <1>2, <2>1, Z3
  <2>3. (q - k - 1) * m = q * m - k * m - m
    BY <1>2, Z3
  <2>4. q * m \in Int /\ k * m \in Int
    BY <1>2, Z3
  <2> QED
    BY <1>2, <2>2, <2>3, <2>4, <1>1
<1>4. Truncated(n, r, m) \subseteq {q - 1, q}
  BY DEF Truncated
<1> HIDE DEF q
<1> QED
  BY <1>2, <1>3, <1>4

LEMMA RowsForNat ==
  ASSUME NEW p \in Profiles, NEW l \in Nat, p.top + p.bottom < l
  PROVE  RowsFor(p, l) \in Nat
<1>1. l - p.top - p.bottom \in Nat /\ p.dpi \in Nat
  BY LayoutAssumption
<1>2. (l - p.top - p.bottom) * p.dpi \in Nat
  BY <1>1, ProductInNat
<1> QED
  BY <1>2 DEF RowsFor, Rows

\* fit_page scales an image to the printable rows at most.
LEMMA FitKeepsRows ==
  ASSUME NEW p \in Profiles, p.sheet # None, NEW image \in Images,
         NEW s \in Sizes(p, image, "fit_page")
  PROVE  s[2] \in Int /\ s[2] <= RowsFor(p, p.sheet)
<1> DEFINE rows == RowsFor(p, p.sheet)
<1>1. /\ p.width \in Nat /\ p.sheet \in Nat /\ p.top + p.bottom < p.sheet
      /\ image.width \in Nat \ {0} /\ image.height \in Nat \ {0}
  BY LayoutAssumption
<1>2. rows \in Nat
  BY <1>1, RowsForNat
<1>3. PICK z \in (IF WidthBounds(image, p.width, rows)
                  THEN Scaled(image, p.width, image.width)
                  ELSE Scaled(image, rows, image.height)) : s[2] = z[2]
  BY DEF Sizes
<1> HIDE DEF rows
<1>4. CASE WidthBounds(image, p.width, rows)
  <2>1. z[2] \in Truncated(image.height, p.width, image.width)
    BY <1>3, <1>4 DEF Scaled
  <2>2. image.height * p.width <= rows * image.width
    BY <1>1, <1>2, <1>4, Z3 DEF WidthBounds
  <2> QED
    BY <1>1, <1>2, <1>3, <2>1, <2>2, ScaledAtMost DEF rows
<1>5. CASE ~WidthBounds(image, p.width, rows)
  <2>1. z[2] \in Truncated(image.height, rows, image.height)
    BY <1>3, <1>5 DEF Scaled
  <2>2. image.height * rows <= rows * image.height
    BY <1>1, <1>2, Z3
  <2> QED
    BY <1>1, <1>2, <1>3, <2>1, <2>2, ScaledAtMost DEF rows
<1> QED
  BY <1>4, <1>5
-----------------------------------------------------------------------------
(* The invariant.  What page_end prepares depends on the page begun before. *)

PageType ==
  page # None => /\ page.raster.width \in Int /\ page.raster.height \in Int
                 /\ page.length \in Nat \cup {None}
                 /\ page = [raster |-> page.raster, sheet |-> page.sheet,
                            length |-> page.length, rotate |-> page.rotate,
                            rows |-> page.rows]

IInv == profile \in Profiles /\ PageType /\ SheetOutlastsPage

\* What is declared with a page, whoever begins it.
Declared(pg) ==
  /\ pg.raster.width \in Int /\ pg.raster.height \in Int
  /\ pg.length \in Nat \cup {None}

LEMMA AppDeclares ==
  ASSUME profile \in Profiles, NEW pg \in AppPages
  PROVE  Declared(pg)
<1>1. PICK m \in Media : \E r \in Rasters(profile, m) : pg = AppPage(m, r)
  BY DEF AppPages
<1>2. PICK r \in Rasters(profile, m) : pg = AppPage(m, r)
  BY <1>1
<1>3. /\ m.width \in Int /\ m.length \in Int /\ profile.dpi \in Int
      /\ m.width \in Nat /\ m.length \in Nat
  BY LayoutAssumption
<1>4. /\ Rows(m.width, profile.dpi) \in Int /\ Rows(m.length, profile.dpi) \in Int
  BY <1>3, RowsType, Zenon
<1>5. r.width \in Int /\ r.height \in Int
  BY <1>4 DEF Rasters, Turned
<1>6. MediaLength(m, HeadWidth(profile)) \in Nat
  BY <1>3 DEF MediaLength
<1> QED
  BY <1>2, <1>5, <1>6 DEF AppPage, Declared

LEMMA ImageDeclares ==
  ASSUME NEW pg \in ImagePages
  PROVE  Declared(pg)
  BY LayoutAssumption DEF ImagePages, ClientMedia, Declared

LEMMA TestDeclares ==
  ASSUME profile \in Profiles, NEW pg \in TestPages
  PROVE  Declared(pg)
<1>1. profile.dpi \in Nat /\ profile.sheet \in Nat \cup {None}
  BY LayoutAssumption
<1> DEFINE length == IF profile.sheet = None THEN 29700 ELSE profile.sheet
<1> DEFINE high == length - 2 * 1000
           wide == 21000
<1>2. high \in Int /\ wide \in Int /\ profile.dpi \in Int
  BY <1>1
<1> HIDE DEF high, wide
<1>3. /\ Rows(wide, profile.dpi) \in Int
      /\ Rows(high, profile.dpi) \in Int
  BY <1>2, RowsType, Zenon
<1>4. /\ TestPage(profile).width \in Int /\ TestPage(profile).height \in Int
      /\ TestPage(profile) = [width |-> TestPage(profile).width,
                              height |-> TestPage(profile).height]
  BY <1>3 DEF TestPage, high, wide
<1>5. TestLead \in Int
  BY DEF TestLead
<1> QED
  BY <1>4, <1>5 DEF TestPages, Declared

\* page_end takes a page that was declared, and keeps it on its sheet.
LEMMA PreparedKeepsSheet ==
  ASSUME profile \in Profiles, NEW pg, Declared(pg),
         pg.length # None, ~NothingPrintable(profile, pg),
         profile.bottom * profile.dpi >= (FeedLines + 1) * 2540
  PROVE  LeadRows(profile) + Prepared(profile, pg).rows + FeedLines
           <= Rows(pg.length, profile.dpi)
<1>1. /\ pg.length \in Nat /\ profile.top + profile.bottom < pg.length
      /\ profile.dpi \in Nat /\ FeedLines \in Nat
  BY LayoutAssumption DEF NothingPrintable, Declared
<1>2. /\ LeadRows(profile) \in Int /\ RowsFor(profile, pg.length) \in Int
      /\ LeadRows(profile) + RowsFor(profile, pg.length) + FeedLines
           <= Rows(pg.length, profile.dpi)
  BY <1>1, MarginKeepsRows
<1>3. Rows(pg.length, profile.dpi) \in Int
  BY <1>1, RowsOfSheet
<1>4. Fed(pg).height \in Int
  BY DEF Fed, Turned, Declared
<1>5. /\ Bottom(profile, pg) \in Int
      /\ Bottom(profile, pg) <= LeadRows(profile) + RowsFor(profile, pg.length)
  BY <1>2, <1>4 DEF Bottom, AtMost
<1>6. Prepared(profile, pg).rows = Bottom(profile, pg) - LeadRows(profile)
  BY DEF Prepared
<1> QED
  BY <1>1, <1>2, <1>3, <1>5, <1>6
-----------------------------------------------------------------------------
(* Every step keeps the invariant.                                          *)

LEMMA BeginKeeps ==
  ASSUME IInv, Begins
  PROVE  IInv'
<1>1. PICK who, pg : Declared(pg) /\ PageBegin(who, pg)
  BY AppDeclares, ImageDeclares, TestDeclares DEF Begins, IInv
<1>2. PageType'
  BY <1>1 DEF PageBegin, PageType, Declared
<1> QED
  BY <1>1, <1>2 DEF IInv, PageBegin, SheetOutlastsPage

LEMMA LinesKeeps ==
  ASSUME IInv, Lines
  PROVE  IInv'
<1>1. /\ profile' = profile /\ printed' = None
      /\ \/ page' = page
         \/ page # None /\ \E n : page' = [page EXCEPT !.rows = n]
  BY DEF Lines, Accepts
<1>2. PageType'
  BY <1>1 DEF PageType, IInv
<1> QED
  BY <1>1, <1>2 DEF IInv, SheetOutlastsPage

LEMMA PageEndKeeps ==
  ASSUME IInv, PageEndPrepares
  PROVE  IInv'
<1>1. page # None /\ page' = None /\ profile' = profile
  BY DEF PageEndPrepares, Complete
<1>2. SheetOutlastsPage'
  <2>1. SUFFICES ASSUME printed' # None, printed'.page.length # None,
                        profile.bottom * profile.dpi >= (FeedLines + 1) * 2540
                 PROVE  LeadRows(profile) + printed'.image.rows + FeedLines
                          <= Rows(printed'.page.length, profile.dpi)
    BY <1>1 DEF SheetOutlastsPage
  <2>2. /\ printed'.page = page /\ printed'.image = Prepared(profile, page)
        /\ ~NothingPrintable(profile, page)
    <3>1. /\ refused' => printed' = None
          /\ ~refused' => printed' = [page |-> page, image |-> Prepared(profile, page)]
      BY Zenon DEF PageEndPrepares
    <3>2. ~refused' /\ printed' = [page |-> page, image |-> Prepared(profile, page)]
      BY <2>1, <3>1
    <3>3. ~NothingPrintable(profile, page)
      BY <3>2, Zenon DEF PageEndPrepares
    <3> QED
      BY <3>2, <3>3, Zenon
  <2>3. Declared(page) /\ profile \in Profiles
    BY <1>1 DEF IInv, PageType, Declared
  <2> QED
    BY <2>1, <2>2, <2>3, PreparedKeepsSheet
<1> QED
  BY <1>1, <1>2 DEF IInv, PageType

LEMMA PrintImageKeeps ==
  ASSUME IInv, PrintImage
  PROVE  IInv'
<1>1. page' = page /\ profile' = profile /\ profile \in Profiles
  BY DEF PrintImage, IInv
<1>2. SheetOutlastsPage'
  <2>1. SUFFICES ASSUME printed' # None, printed'.page.length # None,
                        profile.bottom * profile.dpi >= (FeedLines + 1) * 2540
                 PROVE  LeadRows(profile) + printed'.image.rows + FeedLines
                          <= Rows(printed'.page.length, profile.dpi)
    BY <1>1 DEF SheetOutlastsPage
  <2>2. PICK image \in Images : \E s \in Sizes(profile, image, "fit_page") :
          /\ profile.sheet # None
          /\ printed'.page.length = profile.sheet /\ printed'.image.rows = s[2]
    BY <2>1 DEF PrintImage, Unfit
  <2>3. PICK s \in Sizes(profile, image, "fit_page") :
          printed'.page.length = profile.sheet /\ printed'.image.rows = s[2]
    BY <2>2
  <2>4. s[2] \in Int /\ s[2] <= RowsFor(profile, profile.sheet)
    BY <1>1, <2>2, FitKeepsRows
  <2>5. /\ profile.sheet \in Nat /\ profile.top + profile.bottom < profile.sheet
        /\ profile.dpi \in Nat /\ FeedLines \in Nat
    BY <1>1, <2>2, LayoutAssumption
  <2>6. /\ LeadRows(profile) \in Int /\ RowsFor(profile, profile.sheet) \in Int
        /\ LeadRows(profile) + RowsFor(profile, profile.sheet) + FeedLines
             <= Rows(profile.sheet, profile.dpi)
    BY <1>1, <2>1, <2>5, MarginKeepsRows
  <2>7. Rows(profile.sheet, profile.dpi) \in Int
    BY <1>1, <2>5, RowsOfSheet
  <2> QED
    BY <2>3, <2>4, <2>5, <2>6, <2>7
<1> QED
  BY <1>1, <1>2 DEF IInv, PageType

\* SheetOutlastsPage: no page of page_end and no image of print_image runs its
\* sheet out of the sensor, whatever the profile, the sheet and the image are.
THEOREM PagesKeepSheet == Spec => []SheetOutlastsPage
<1>1. Init => IInv
  BY DEF Init, IInv, PageType, SheetOutlastsPage
<1>2. IInv /\ [Next]_vars => IInv'
  <2> SUFFICES ASSUME IInv, [Next]_vars PROVE IInv'
    OBVIOUS
  <2>1. CASE Begins
    BY <2>1, BeginKeeps
  <2>2. CASE BeginRefused \/ LinesRefused \/ PageEnd
    BY <2>2 DEF BeginRefused, LinesRefused, PageEnd, IInv, PageType, SheetOutlastsPage
  <2>3. CASE Lines
    BY <2>3, LinesKeeps
  <2>4. CASE PageEndPrepares
    BY <2>4, PageEndKeeps
  <2>5. CASE PrintImage
    BY <2>5, PrintImageKeeps
  <2>6. CASE UNCHANGED vars
    BY <2>6 DEF vars, IInv, PageType, SheetOutlastsPage
  <2> QED
    BY <2>1, <2>2, <2>3, <2>4, <2>5, <2>6 DEF Next
<1>3. IInv => SheetOutlastsPage
  BY DEF IInv
<1> QED
  BY <1>1, <1>2, <1>3, PTL DEF Spec
-----------------------------------------------------------------------------
(* A page of the app fills its sheet.  PWG sizes are written upright.       *)

Upright == \A m \in Media : m.width <= m.length

\* The page in the buffer is one the app declared.
AppInv ==
  page # None /\ origin = "app" =>
    \E m \in Media : \E r \in Rasters(profile, m) :
      page = [raster |-> r, sheet |-> m,
              length |-> MediaLength(m, HeadWidth(profile)),
              rotate |-> ShouldRotate(m, HeadWidth(profile), r),
              rows   |-> page.rows]

FillInv == profile \in Profiles /\ AppInv /\ SheetIsFilled

LEMMA LeadType ==
  ASSUME NEW p \in Profiles, NEW l \in Nat
  PROVE  LeadRows(p) \in Int /\ RowsFor(p, l) \in Int
<1>1. p.top \in Nat /\ p.bottom \in Nat /\ p.dpi \in Nat
  BY LayoutAssumption
<1>2. p.top * p.dpi \in Nat /\ 2 * p.top * p.dpi = 2 * (p.top * p.dpi)
  BY <1>1, Z3
<1>3. l - p.top - p.bottom \in Int /\ p.dpi \in Int
  BY <1>1
<1>4. (l - p.top - p.bottom) * p.dpi \in Int
  BY <1>3, ProductInInt
<1> QED
  BY <1>2, <1>4 DEF LeadRows, RowsFor, Rows

LEMMA RowsGrow ==
  ASSUME NEW p \in Profiles, NEW x \in Nat, NEW y \in Nat, x <= y
  PROVE  /\ Rows(x, p.dpi) \in Nat /\ Rows(y, p.dpi) \in Nat
         /\ Rows(x, p.dpi) <= Rows(y, p.dpi)
<1> DEFINE a == x * p.dpi  b == y * p.dpi
<1>1. p.dpi \in Nat
  BY LayoutAssumption
<1>2. a \in Nat /\ b \in Nat
  BY <1>1, ProductInNat
<1>3. a <= b
  BY <1>1, Z3
<1> HIDE DEF a, b
<1>4. a \div 2540 \in Nat /\ b \div 2540 \in Nat /\ a \div 2540 <= b \div 2540
  BY <1>2, <1>3
<1> QED
  BY <1>4 DEF Rows, a, b

\* Once it lies as it is fed, a raster of the app is as long as its sheet.
LEMMA AppLies ==
  ASSUME Upright, profile \in Profiles, NEW pg, NEW m \in Media,
         NEW r \in Rasters(profile, m),
         pg.raster = r, pg.length = MediaLength(m, HeadWidth(profile)),
         pg.rotate = ShouldRotate(m, HeadWidth(profile), r)
  PROVE  /\ pg.length \in Nat
         /\ Fed(pg).width \in Nat /\ Fed(pg).height = Rows(pg.length, profile.dpi)
         /\ {Fed(pg).width, Fed(pg).height} =
              {Rows(m.width, profile.dpi), Rows(m.length, profile.dpi)}
<1> DEFINE w == Rows(m.width, profile.dpi)
           l == Rows(m.length, profile.dpi)
<1>1. m.width \in Nat /\ m.length \in Nat /\ m.width <= m.length
  BY LayoutAssumption DEF Upright
<1>2. w \in Nat /\ l \in Nat /\ w <= l
  BY <1>1, RowsGrow
<1> HIDE DEF w, l
<1>3. CASE WidthAcross(m, HeadWidth(profile))
  <2>1. r.width = w /\ r.height = l
    BY <1>3 DEF Rasters, w, l
  <2>2. ~pg.rotate /\ pg.length = m.length
    BY <1>3 DEF ShouldRotate, MediaLength
  <2> QED
    BY <1>1, <1>2, <2>1, <2>2 DEF Fed, w, l
<1>4. CASE ~WidthAcross(m, HeadWidth(profile))
  <2>1. pg.length = m.width /\ (pg.rotate <=> r.height > r.width)
    BY <1>4 DEF ShouldRotate, MediaLength
  <2>2. r = [width |-> w, height |-> l] \/ r = [width |-> l, height |-> w]
    BY <1>4 DEF Rasters, Turned, w, l
  <2>3. Fed(pg).width = l /\ Fed(pg).height = w
    BY <1>2, <2>1, <2>2 DEF Fed, Turned
  <2> QED
    BY <1>1, <1>2, <2>1, <2>3 DEF w, l
<1> QED
  BY <1>3, <1>4

\* The last row printed is that of the bottom margin, give or take two.
LEMMA BottomIsMargin ==
  ASSUME NEW p \in Profiles, NEW l \in Nat
  PROVE  LET last == AtMost(Rows(l, p.dpi), LeadRows(p) + RowsFor(p, l)) IN
           Abs(last - (Rows(l, p.dpi) - Rows(p.bottom, p.dpi))) <= 2
<1>1. /\ p.top \in Nat /\ p.bottom \in Nat /\ p.dpi \in Nat
  BY LayoutAssumption
<1> DEFINE a == p.top * p.dpi
           b == p.bottom * p.dpi
           c == l * p.dpi
<1>2. a \in Nat /\ b \in Nat /\ c \in Nat
  BY <1>1, ProductInNat
<1>3. /\ 2 * p.top * p.dpi = 2 * a
      /\ (l - p.top - p.bottom) * p.dpi = c - a - b
  BY <1>1, Z3
<1> DEFINE lead == (2 * a + 2540) \div 5080
           rows == (c - a - b) \div 2540
           all  == c \div 2540
           free == b \div 2540
<1>4. /\ LeadRows(p) = lead /\ RowsFor(p, l) = rows
      /\ Rows(l, p.dpi) = all /\ Rows(p.bottom, p.dpi) = free
  BY <1>3 DEF LeadRows, RowsFor, Rows
<1> HIDE DEF a, b, c
<1>5. /\ lead \in Int /\ lead * 5080 <= 2 * a + 2540 /\ 2 * a + 2540 < lead * 5080 + 5080
      /\ rows \in Int /\ rows * 2540 <= c - a - b /\ c - a - b < rows * 2540 + 2540
      /\ all \in Int /\ all * 2540 <= c /\ c < all * 2540 + 2540
      /\ free \in Int /\ free * 2540 <= b /\ b < free * 2540 + 2540
  BY <1>2, Floor
<1> HIDE DEF lead, rows, all, free
<1>6. /\ lead + rows - (all - free) <= 2 /\ lead + rows - (all - free) >= -2
      /\ free >= 0
  BY <1>2, <1>5
<1>7. /\ AtMost(all, lead + rows) \in Int
      /\ AtMost(all, lead + rows) - (all - free) <= 2
      /\ AtMost(all, lead + rows) - (all - free) >= -2
  BY <1>5, <1>6 DEF AtMost
<1> QED
  BY <1>4, <1>5, <1>7 DEF Abs

LEMMA CentredOnHead ==
  ASSUME NEW p \in Profiles, NEW pg, Fed(pg).width \in Nat
  PROVE  LET image == Prepared(p, pg) IN
           Abs(2 * image.left + image.columns - image.width) <= 1
<1>1. p.width \in Nat
  BY LayoutAssumption
<1> DEFINE f == Fed(pg).width
<1>2. /\ Prepared(p, pg).width = p.width
      /\ Prepared(p, pg).left = IF f < p.width THEN (p.width - f) \div 2 ELSE 0
      /\ Prepared(p, pg).columns = AtMost(f, p.width)
  BY DEF Prepared
<1> HIDE DEF f
<1>3. f \in Nat
  BY DEF f
<1> QED
  BY <1>1, <1>2, <1>3 DEF AtMost, Abs

LEMMA PreparedFills ==
  ASSUME Upright, FillInv, PageEndPrepares
  PROVE  SheetIsFilled'
<1>1. SUFFICES ASSUME printed' # None, origin' = "app"
               PROVE  SheetIsFilled'
  BY DEF SheetIsFilled
<1>2. /\ page # None /\ page.rows = page.raster.height
      /\ profile' = profile /\ origin' = origin
  BY Zenon DEF PageEndPrepares, Complete
<1>3. printed' = [page |-> page, image |-> Prepared(profile, page)]
  BY <1>1, Zenon DEF PageEndPrepares
<1>4. PICK m \in Media : \E r \in Rasters(profile, m) :
        /\ page.raster = r /\ page.sheet = m
        /\ page.length = MediaLength(m, HeadWidth(profile))
        /\ page.rotate = ShouldRotate(m, HeadWidth(profile), r)
  BY <1>1, <1>2 DEF FillInv, AppInv
<1>5. /\ page.sheet = m /\ page.length \in Nat
      /\ Fed(page).width \in Nat /\ Fed(page).height = Rows(page.length, profile.dpi)
      /\ {Fed(page).width, Fed(page).height} =
           {Rows(m.width, profile.dpi), Rows(m.length, profile.dpi)}
  BY <1>4, AppLies DEF FillInv
<1> DEFINE image == Prepared(profile, page)
<1>6. Abs(2 * image.left + image.columns - image.width) <= 1
  BY <1>5, CentredOnHead, Zenon DEF FillInv
<1>7. page.length # None
  BY <1>5, LayoutAssumption
<1>8. /\ LeadRows(profile) \in Int /\ RowsFor(profile, page.length) \in Int
      /\ Rows(page.length, profile.dpi) \in Int
      /\ Rows(profile.bottom, profile.dpi) \in Int
  BY <1>5, LeadType, RowsOfSheet, LayoutAssumption DEF FillInv
<1>9. /\ Bottom(profile, page) =
           AtMost(Rows(page.length, profile.dpi),
                  LeadRows(profile) + RowsFor(profile, page.length))
      /\ image.rows = Bottom(profile, page) - LeadRows(profile)
  BY <1>5, <1>7 DEF Bottom, Prepared
<1>10. Bottom(profile, page) \in Int
  BY <1>8, <1>9 DEF AtMost
<1>11. Abs(Bottom(profile, page)
             - (Rows(page.length, profile.dpi) - Rows(profile.bottom, profile.dpi))) <= 2
  BY <1>5, <1>9, BottomIsMargin, Zenon DEF FillInv
<1> HIDE DEF image
<1>12. image.rows \in Int /\ LeadRows(profile) + image.rows = Bottom(profile, page)
  BY <1>8, <1>9, <1>10
<1>13. printed'.page = page /\ printed'.image = image
  BY <1>3 DEF image
<1>14. Abs(LeadRows(profile) + image.rows
             - (Fed(page).height - Rows(profile.bottom, profile.dpi))) <= 2
  <2>1. LeadRows(profile) + image.rows
              - (Fed(page).height - Rows(profile.bottom, profile.dpi)) =
        Bottom(profile, page)
              - (Rows(page.length, profile.dpi) - Rows(profile.bottom, profile.dpi))
    BY <1>5, <1>8, <1>10, <1>12
  <2> QED
    BY <1>11, <2>1, Zenon
<1>15. {Fed(page).width, Fed(page).height} =
         {Rows(page.sheet.width, profile.dpi), Rows(page.sheet.length, profile.dpi)}
  BY <1>5, Zenon
<1>16. Abs(2 * image.left + image.columns - image.width) <= 1
  BY <1>6 DEF image
<1> QED
  BY <1>2, <1>5, <1>13, <1>14, <1>15, <1>16, Zenon DEF SheetIsFilled

LEMMA FillStep ==
  ASSUME Upright, FillInv, [Next]_vars
  PROVE  FillInv'
<1>1. CASE Begins
  <2>1. \/ \E pg \in AppPages : PageBegin("app", pg)
        \/ \E pg \in ImagePages : PageBegin("image", pg)
        \/ \E pg \in TestPages : PageBegin("test page", pg)
    BY <1>1, Zenon DEF Begins
  <2>2. CASE \E pg \in AppPages : PageBegin("app", pg)
    <3>1. PICK m \in Media : \E r \in Rasters(profile, m) : PageBegin("app", AppPage(m, r))
      BY <2>2 DEF AppPages
    <3>2. PICK r \in Rasters(profile, m) : PageBegin("app", AppPage(m, r))
      BY <3>1
    <3>3. /\ page' = [raster |-> r, sheet |-> m,
                      length |-> MediaLength(m, HeadWidth(profile)),
                      rotate |-> ShouldRotate(m, HeadWidth(profile), r),
                      rows   |-> page'.rows]
          /\ profile' = profile /\ printed' = None
      BY <3>2 DEF PageBegin, AppPage
    <3>4. AppInv'
      BY <3>3 DEF AppInv
    <3> QED
      BY <3>3, <3>4 DEF FillInv, SheetIsFilled
  <2>3. CASE \E who \in {"image", "test page"} : \E pg : PageBegin(who, pg)
    BY <2>3 DEF PageBegin, FillInv, AppInv, SheetIsFilled
  <2> QED
    BY <2>1, <2>2, <2>3
<1>2. CASE BeginRefused \/ LinesRefused \/ PageEnd \/ UNCHANGED vars
  BY <1>2 DEF BeginRefused, LinesRefused, PageEnd, vars, FillInv, AppInv, SheetIsFilled
<1>3. CASE Lines
  <2>1. /\ profile' = profile /\ origin' = origin /\ printed' = None
        /\ \/ page' = page
           \/ page # None /\ \E n : page' = [page EXCEPT !.rows = n]
    BY <1>3 DEF Lines, Accepts
  <2>2. AppInv'
    BY <2>1 DEF FillInv, AppInv
  <2> QED
    BY <2>1, <2>2 DEF FillInv, SheetIsFilled
<1>4. CASE PageEndPrepares
  <2>1. page' = None /\ profile' = profile
    BY <1>4, Zenon DEF PageEndPrepares
  <2> QED
    BY <1>4, <2>1, PreparedFills DEF FillInv, AppInv
<1>5. CASE PrintImage
  BY <1>5 DEF PrintImage, FillInv, AppInv, SheetIsFilled
<1> QED
  BY <1>1, <1>2, <1>3, <1>4, <1>5 DEF Next

\* A page of the app reaches its sheet whole but for the margins, whatever the
\* profile and the sheet: the turn the driver asks for always lays it along the
\* feed, and the roundings of lead, page and margin cost two rows at most.
THEOREM AppFillsSheet ==
  ASSUME Upright
  PROVE  Spec => []SheetIsFilled
<1>1. Init => FillInv
  BY DEF Init, FillInv, AppInv, SheetIsFilled
<1>2. FillInv /\ [Next]_vars => FillInv'
  BY FillStep
<1>3. FillInv => SheetIsFilled
  BY DEF FillInv
<1> QED
  BY <1>1, <1>2, <1>3, PTL DEF Spec
=============================================================================
