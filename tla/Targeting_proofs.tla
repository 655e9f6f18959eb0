--------------------------- MODULE Targeting_proofs ---------------------------
(***************************************************************************)
(* Proofs about Targeting, for any printers, models, names and serials.    *)
(*                                                                         *)
(* IInv adds to the types which awaits of connect hold a printer object    *)
(* and no connection.  On it rest two arguments.                           *)
(*                                                                         *)
(* What is named: an address or a model the session named is its printer   *)
(* object's (NamedAddress, NamedModel).  This needs what connect does not   *)
(* check: that an open which names an address names its model too, and    *)
(* that the model is a registered one.                                     *)
(*                                                                         *)
(* What is found: a printer that nobody chose a model for has one that its *)
(* name admits (Found), has the one of its serial once it was asked        *)
(* (Settled), and a page that waits for this printer object was prepared   *)
(* for that model (PageInv).  This needs printers that give their serial.  *)
(***************************************************************************)
EXTENDS Targeting, FiniteSetTheorems, WellFoundedInduction, TLAPS

\* A set of natural numbers has a least one, and Min finds it.
LEMMA MinIsOne ==
  ASSUME NEW S \in SUBSET Nat, S # {}
  PROVE  Min(S) \in S
<1>1. PICK x \in S : \A y \in S : ~(<<y, x>> \in OpToRel(<, Nat))
  BY WFMin, NatLessThanWellFounded, Zenon
<1>2. \A y \in S : ~(y < x)
  BY <1>1 DEF OpToRel
<1>3. \A y \in S : x <= y
  BY <1>2
<1> QED
  BY <1>3 DEF Min

\* The model a printer is taken for matches its name.
LEMMA NameMatches ==
  ASSUME NEW p \in Printers
  PROVE  /\ Matching[p] \subseteq Models
         /\ ByName(p) \in Matching[p] /\ BySerial(p) \in Matching[p]
<1>1. Matching[p] \in SUBSET Nat /\ Matching[p] # {} /\ Matching[p] \subseteq Models
  BY TargetingAssumption
<1>2. ByName(p) \in Matching[p]
  <2> DEFINE S == IF Matching[p] \ WithCodes # {} THEN Matching[p] \ WithCodes
                                                 ELSE Matching[p]
  <2>1. S \in SUBSET Nat /\ S # {} /\ S \subseteq Matching[p]
    BY <1>1
  <2>2. Min(S) \in S
    BY <2>1, MinIsOne
  <2> QED
    BY <2>1, <2>2 DEF ByName
<1>3. BySerial(p) \in Matching[p]
  <2> DEFINE S == Matching[p] \cap InSerial[p]
  <2>1. S \in SUBSET Nat /\ S \subseteq Matching[p]
    BY <1>1
  <2>2. S # {} => Min(S) \in S
    BY <2>1, MinIsOne
  <2> QED
    BY <1>2, <2>1, <2>2 DEF BySerial
<1> QED
  BY <1>1, <1>2, <1>3

\* Where the name leaves one model, the serial cannot name another.
LEMMA OnlyModel ==
  ASSUME NEW p \in Printers, ~Ambiguous(p), NEW m \in Matching[p]
  PROVE  BySerial(p) = m
<1>1. IsFiniteSet(Matching[p]) /\ BySerial(p) \in Matching[p]
  BY NameMatches, TargetingAssumption, FS_Subset
<1>2. Cardinality(Matching[p]) \in Nat /\ Cardinality(Matching[p]) # 0
  BY <1>1, FS_CardinalityType, FS_EmptySet
<1>3. Cardinality(Matching[p]) = 1
  BY <1>2 DEF Ambiguous
<1>4. PICK x : Matching[p] = {x}
  BY <1>1, <1>3, FS_Singleton
<1> QED
  BY <1>1, <1>4

LEMMA OneIsSome ==
  ASSUME NEW S, Cardinality(S) = 1
  PROVE  (CHOOSE p \in S : TRUE) \in S
BY FS_EmptySet

\* A connection belongs to a printer object whose address is resolved, and is
\* down while connect works on it.
LinkInv ==
  /\ pc \in {"scan", "connect", "reconnect"} => ~linked
  /\ pc \in {"connect", "reconnect"} => printer # None
  /\ pc = "scan" => printer = None

IInv == TypeOK /\ LinkInv

LEMMA NoneIsNothing ==
  /\ None \notin Printers /\ None \notin PrinterObjects
  /\ None \notin Pages /\ None \notin PrintedPages
  /\ Any \notin Printers /\ Any \notin Models /\ Unknown \notin Models /\ Unknown # Any
  /\ Nothing \in Request /\ Requests \subseteq Request
<1>1. Nothing \in Request
  BY DEF Nothing, Request
<1> QED
  BY <1>1, TargetingAssumption

LEMMA InitInv == Init => IInv
BY NoneIsNothing DEF Init, IInv, TypeOK, LinkInv

LEMMA ConnectInv ==
  ASSUME IInv, NEW r \in Request, Idle, Connect(r), page = None \/ r = Nothing,
         UNCHANGED <<near, discovery, page, printed>>, named' \in Request
  PROVE  IInv'
<1> USE NoneIsNothing DEF IInv, LinkInv, Idle, discovery
<1>1. CASE r.model = Unknown
  BY <1>1 DEF Connect, bridge, TypeOK
<1>2. CASE r.model # Unknown
  <2>1. /\ r.address \in Printers \cup {Any}
        /\ r.model # Any => r.model \in Models
    BY <1>2 DEF Request
  <2>2. r.model # Any => [address |-> r.address, model |-> r.model] \in PrinterObjects
    BY <2>1 DEF PrinterObjects
  <2> DEFINE fresh == printer = None \/ Retargets(r)
  <2>3. /\ asked' = r /\ linked' = (linked /\ ~fresh)
        /\ pc' = IF linked' THEN "none"
                 ELSE IF fresh /\ r.model = Any THEN "scan" ELSE "connect"
        /\ IF fresh /\ r.model # Any
           THEN printer' = [address |-> r.address, model |-> r.model] /\ explicit' = TRUE
           ELSE printer' = (IF fresh THEN None ELSE printer) /\ explicit' = explicit
    BY <1>2 DEF Connect
  <2> HIDE DEF fresh
  <2>4. printer = None => fresh
    BY DEF fresh
  <2>5. /\ printer' \in PrinterObjects \cup {None} /\ explicit' \in BOOLEAN
        /\ linked' \in BOOLEAN
        /\ linked' => linked /\ printer' = printer /\ pc' = "none"
        /\ pc' \in {"none", "scan", "connect"}
        /\ LinkInv'
    BY <2>2, <2>3, <2>4 DEF TypeOK
  <2> QED
    BY <2>3, <2>5 DEF TypeOK
<1> QED
  BY <1>1, <1>2

\* Printer.connect keeps the model and a known address.
LEMMA LinkKeeps ==
  ASSUME IInv, pc \in {"connect", "reconnect"}, NEW next \in {"serial", "none"},
         LinkPrinter(next)
  PROVE  /\ printer' \in PrinterObjects /\ printer'.model = printer.model
         /\ printer.address \in Printers => printer'.address = printer.address
         /\ explicit' = explicit /\ asked' = asked /\ linked' \in BOOLEAN
         /\ linked' => pc' = next /\ printer'.address \in near
         /\ ~linked' => pc' = "none"
<1>1. printer \in PrinterObjects /\ near \subseteq Printers /\ linked = FALSE
  BY DEF IInv, TypeOK, LinkInv
<1>2. PICK found \in SUBSET near :
        IF Cardinality(Resolved(found)) = 1
        THEN /\ printer' = [printer EXCEPT !.address = CHOOSE p \in Resolved(found) : TRUE]
             /\ linked' \in BOOLEAN
             /\ Goto(IF linked' THEN next ELSE "none")
             /\ UNCHANGED explicit
        ELSE Fails
  BY DEF LinkPrinter
<1>3. CASE Cardinality(Resolved(found)) = 1
  <2> DEFINE p == CHOOSE p \in Resolved(found) : TRUE
  <2>1. p \in Resolved(found)
    BY <1>3, OneIsSome
  <2> HIDE DEF p
  <2>2. p \in near /\ (printer.address \in Printers => p = printer.address)
    BY <1>1, <1>2, <2>1, NoneIsNothing DEF Resolved
  <2>3. /\ printer' = [printer EXCEPT !.address = p]
        /\ linked' \in BOOLEAN /\ explicit' = explicit /\ asked' = asked
        /\ pc' = IF linked' THEN next ELSE "none"
    BY <1>2, <1>3 DEF p, Goto
  <2> QED
    BY <1>1, <2>2, <2>3 DEF PrinterObjects
<1>4. CASE Cardinality(Resolved(found)) # 1
  BY <1>1, <1>2, <1>4 DEF Fails, Goto, bridge
<1> QED
  BY <1>3, <1>4

\* What _new_printer finds, if anything, is a printer in range by its name.
LEMMA ScanFinds ==
  ASSUME IInv, Scan
  PROVE  /\ ~linked /\ linked' = linked /\ asked' = asked /\ printer = None
         /\ \/ /\ pc' = "none" /\ UNCHANGED <<printer, explicit>>
            \/ /\ pc' = "connect" /\ explicit' = FALSE
               /\ \E p \in Printers :
                    /\ printer' = [address |-> p, model |-> ByName(p)]
                    /\ asked.address = Any \/ p = asked.address
<1>1. near \subseteq Printers /\ ~linked /\ printer = None
  BY DEF IInv, TypeOK, LinkInv, Scan
<1>2. PICK found \in SUBSET near :
        LET candidates == IF asked.address = Any THEN found ELSE found \cap {asked.address}
        IN  IF Cardinality(candidates) = 1
            THEN LET p == CHOOSE p \in candidates : TRUE IN
                 /\ printer' = [address |-> p, model |-> ByName(p)] /\ explicit' = FALSE
                 /\ Goto("connect") /\ UNCHANGED linked
            ELSE Fails
  BY DEF Scan
<1> DEFINE candidates == IF asked.address = Any THEN found ELSE found \cap {asked.address}
<1>3. CASE Cardinality(candidates) = 1
  <2> DEFINE p == CHOOSE p \in candidates : TRUE
  <2>1. p \in candidates
    BY <1>3, OneIsSome
  <2> HIDE DEF p
  <2>2. p \in Printers /\ (asked.address = Any \/ p = asked.address)
    BY <1>1, <2>1
  <2>3. /\ printer' = [address |-> p, model |-> ByName(p)] /\ explicit' = FALSE
        /\ pc' = "connect" /\ asked' = asked /\ linked' = linked
    BY <1>2, <1>3 DEF p, Goto
  <2> QED
    BY <1>1, <2>2, <2>3
<1>4. CASE Cardinality(candidates) # 1
  BY <1>1, <1>2, <1>4 DEF Fails, Goto, bridge
<1> QED
  BY <1>3, <1>4

\* _refine_model leaves the printer or moves it to the model of its serial.
LEMMA RefineSettles ==
  ASSUME IInv, Refine
  PROVE  /\ asked' = asked /\ explicit' = explicit
         /\ \/ /\ linked /\ Switches(printer.address) /\ printer.address \in Printers
               /\ printer \in PrinterObjects
               /\ printer' = [printer EXCEPT !.model = BySerial(printer.address)]
               /\ printer' \in PrinterObjects
               /\ linked' \in BOOLEAN
               /\ pc' = IF linked' THEN "none" ELSE "reconnect"
               /\ page' = IF page = None \/ linked' THEN page
                          ELSE [page EXCEPT !.current = FALSE]
            \/ /\ ~linked \/ ~Switches(printer.address) \/ SerialMayFail
               /\ pc' = "none" /\ UNCHANGED <<printer, linked, page>>
<1>1. CASE linked /\ Switches(printer.address)
  <2>1. printer \in PrinterObjects /\ printer.address \in Printers
    BY <1>1 DEF IInv, TypeOK
  <2>2. BySerial(printer.address) \in Models
    BY <2>1, NameMatches
  <2>3. [printer EXCEPT !.model = BySerial(printer.address)] \in PrinterObjects
    BY <2>1, <2>2 DEF PrinterObjects
  <2>4. \/ /\ printer' = [printer EXCEPT !.model = BySerial(printer.address)]
           /\ linked' = (printer.address \in SharedSettings)
           /\ Goto(IF linked' THEN "none" ELSE "reconnect")
           /\ UNCHANGED explicit
           /\ page' = IF page = None \/ linked' THEN page
                      ELSE [page EXCEPT !.current = FALSE]
        \/ SerialMayFail /\ Fails /\ UNCHANGED page
    BY <1>1 DEF Refine
  <2>5. (printer.address \in SharedSettings) \in BOOLEAN
    OBVIOUS
  <2>6. CASE SerialMayFail /\ Fails /\ UNCHANGED page
    BY <2>6 DEF Fails, Goto, bridge
  <2>7. CASE ~(SerialMayFail /\ Fails /\ UNCHANGED page)
    BY <1>1, <2>1, <2>3, <2>4, <2>5, <2>7, Zenon DEF Goto
  <2> QED
    BY <2>6, <2>7
<1>2. CASE ~(linked /\ Switches(printer.address))
  BY <1>2 DEF Refine, Goto, Fails, bridge
<1> QED
  BY <1>1, <1>2

LEMMA NextInv == IInv /\ [Next]_vars => IInv'
<1> SUFFICES ASSUME IInv, [Next]_vars PROVE IInv'
  OBVIOUS
<1> USE NoneIsNothing
<1>1. ASSUME NEW r \in Requests, Open(r) PROVE IInv'
  BY <1>1, ConnectInv DEF Open, Names, IInv, TypeOK, history, discovery
<1>2. CASE Retry
  BY <1>2, ConnectInv DEF Retry, history, discovery, IInv, TypeOK
<1>3. CASE BeginPage
  BY <1>3 DEF BeginPage, IInv, TypeOK, LinkInv, Idle, Pages, PrinterObjects, bridge, discovery
<1>4. CASE Prints
  <2>1. printed' \in PrintedPages
    BY <1>4 DEF Prints, PrintedPages, IInv, TypeOK, Pages, PrinterObjects
  <2> QED
    BY <1>4, <2>1 DEF Prints, IInv, TypeOK, LinkInv, bridge, discovery
<1>5. CASE PageFails \/ NextSession
  BY <1>5 DEF PageFails, NextSession, IInv, TypeOK, LinkInv, bridge, discovery
<1>6. CASE Scan
  <2>1. \A p \in Printers : [address |-> p, model |-> ByName(p)] \in PrinterObjects
    BY NameMatches DEF PrinterObjects
  <2>2. printer' \in PrinterObjects \cup {None}
    BY <1>6, <2>1, ScanFinds DEF IInv, TypeOK
  <2>3. UNCHANGED <<near, discovery, history>> /\ pc = "scan"
    BY <1>6, Zenon DEF Scan
  <2>4. /\ linked' = FALSE /\ asked' = asked /\ explicit' \in BOOLEAN
        /\ \/ pc' = "none"
           \/ pc' = "connect" /\ printer' # None
    BY <1>6, <2>1, ScanFinds DEF IInv, TypeOK
  <2>5. TypeOK'
    BY <2>2, <2>3, <2>4 DEF IInv, TypeOK, discovery, history
  <2> QED
    BY <2>4, <2>5 DEF IInv, LinkInv
<1>7. CASE ConnectPrinter
  BY <1>7, LinkKeeps DEF ConnectPrinter, IInv, TypeOK, LinkInv, discovery, history
<1>8. CASE ReconnectPrinter
  BY <1>8, LinkKeeps DEF ReconnectPrinter, IInv, TypeOK, LinkInv, discovery, history
<1>9. CASE Refine
  <2>1. page' \in Pages \cup {None}
    BY <1>9, RefineSettles DEF IInv, TypeOK, Pages
  <2>2. pc = "serial" /\ UNCHANGED <<near, discovery, named, printed>>
    BY <1>9 DEF Refine
  <2>3. \/ UNCHANGED <<printer, linked>> /\ pc' = "none"
        \/ /\ printer' \in PrinterObjects /\ printer'.address = printer.address /\ linked
           /\ linked' \in BOOLEAN /\ pc' = IF linked' THEN "none" ELSE "reconnect"
    BY <1>9, RefineSettles DEF PrinterObjects
  <2> QED
    BY <1>9, <2>1, <2>2, <2>3, RefineSettles DEF IInv, TypeOK, LinkInv, discovery
<1>10. CASE Discovering
  BY <1>10 DEF Discovering, Discover, ReadSerial, ProbeEnds, DiscoverEnds, HeldIs, Goto,
     Idle, IInv, TypeOK, LinkInv, bridge, discovery, history
<1>11. CASE Drops
  BY <1>11 DEF Drops, IInv, TypeOK, LinkInv, discovery, history
<1>12. ASSUME NEW p \in Printers, Moves(p) PROVE IInv'
  BY <1>12 DEF Moves, IInv, TypeOK, LinkInv, discovery, history
<1>13. CASE UNCHANGED vars
  BY <1>13 DEF vars, IInv, TypeOK, LinkInv, bridge, discovery, history
<1> QED
  BY <1>1, <1>2, <1>3, <1>4, <1>5, <1>6, <1>7, <1>8, <1>9, <1>10, <1>11, <1>12, <1>13
     DEF Next, Command, Connecting, World

LEMMA Inductive == Spec => []IInv
BY InitInv, NextInv, PTL DEF Spec

\* TypeOK: types; a connection belongs to a printer object whose address is
\* known, and a discover never probes the printer the bridge holds.
THEOREM TargetingTypes == Spec => []TypeOK
<1>1. IInv => TypeOK
  BY DEF IInv
<1> QED
  BY <1>1, Inductive, PTL
-----------------------------------------------------------------------------
(* Named printers and models.                                               *)

\* Bridge.connect refuses, keeps the printer, makes one, or looks for one.
LEMMA ConnectCases ==
  ASSUME IInv, NEW r \in Request, Connect(r)
  PROVE  \/ r.model = Unknown /\ UNCHANGED <<pc, bridge>>
         \/ /\ printer # None /\ r.model # Unknown /\ UNCHANGED bridge
            /\ r.address # Any => r.address = printer.address
            /\ r.model # Any => r.model = printer.model
            /\ pc' = IF linked' THEN "none" ELSE "connect"
         \/ /\ r.model \in Models /\ ~linked' /\ explicit' = TRUE /\ pc' = "connect"
            /\ printer' = [address |-> r.address, model |-> r.model] /\ printer' # None
         \/ /\ printer = None \/ r.address # Any
            /\ r.model = Any /\ ~linked' /\ pc' = "scan"
            /\ printer' = None /\ explicit' = explicit
<1> USE NoneIsNothing DEF Connect
<1>1. CASE r.model = Unknown
  BY <1>1
<1>2. CASE r.model # Unknown /\ ~(printer = None \/ Retargets(r))
  BY <1>2 DEF Retargets, bridge, IInv, TypeOK
<1>3. CASE r.model # Unknown /\ (printer = None \/ Retargets(r)) /\ r.model = Any
  BY <1>3 DEF Retargets
<1>4. CASE r.model # Unknown /\ (printer = None \/ Retargets(r)) /\ r.model # Any
  <2>1. [address |-> r.address, model |-> r.model] \in PrinterObjects /\ r.model \in Models
    BY <1>4 DEF Request, PrinterObjects
  <2> QED
    BY <1>4, <2>1
<1> QED
  BY <1>1, <1>2, <1>3, <1>4

\* Only page_end prints.
LEMMA PrintedStep == [Next]_vars => Prints \/ printed' = printed \/ printed' = None
BY DEF Next, Command, Connecting, Discovering, World, Open, Retry, BeginPage, PageFails,
   NextSession, Scan, ConnectPrinter, Refine, ReconnectPrinter, Discover, ReadSerial,
   ProbeEnds, DiscoverEnds, Drops, Moves, history, vars

LEMMA ConnectToNamed ==
  ASSUME IInv, NEW r \in Request, Connect(r), r.model \in Models
  PROVE  /\ printer' # None /\ printer'.model = r.model
         /\ r.address # Any => printer'.address = r.address
<1>1. r.model # Unknown /\ r.model # Any
  BY NoneIsNothing
<1>2. CASE printer # None /\ ~Retargets(r)
  BY <1>1, <1>2, NoneIsNothing DEF Connect, Retargets
<1>3. CASE printer = None \/ Retargets(r)
  <2>1. printer' = [address |-> r.address, model |-> r.model]
    BY <1>1, <1>3 DEF Connect
  <2>2. printer' \in PrinterObjects
    BY <2>1 DEF Request, PrinterObjects
  <2> QED
    BY <2>1, <2>2, NoneIsNothing
<1> QED
  BY <1>2, <1>3

\* A model the session named is that of a printer object, unless the object's
\* own model was not named by anyone.
NamedModel == named.model # Any => printer # None /\ (explicit => printer.model = named.model)

\* An open without a registered model changes what is named, not the printer.
KnownModels == \A r \in Requests : r.model # Unknown

LEMMA NamedModelStep ==
  ASSUME KnownModels, IInv, NamedModel, [Next]_vars
  PROVE  NamedModel'
<1> USE NoneIsNothing DEF NamedModel
<1>1. ASSUME NEW r \in Requests, Open(r) PROVE NamedModel'
  <2>1. Connect(r) /\ r \in Request /\ r.model # Unknown
        /\ named' = IF r = Nothing THEN named ELSE r
    BY <1>1 DEF Open, KnownModels, Names
  <2>2. CASE r = Nothing
    BY <2>1, <2>2, ConnectCases DEF Nothing, bridge
  <2>3. CASE r # Nothing
    <3>1. named' = r
      BY <2>1, <2>3
    <3>2. r.model # Any => printer' # None /\ printer'.model = r.model
      BY <2>1, ConnectToNamed DEF Request
    <3> QED
      BY <3>1, <3>2
  <2> QED
    BY <2>2, <2>3
<1>2. CASE Retry
  <2>1. Connect(Nothing) /\ named' = named
    BY <1>2 DEF Retry, history
  <2> QED
    BY <2>1, ConnectCases DEF Nothing, bridge
<1>3. CASE BeginPage \/ Prints \/ PageFails \/ NextSession
  BY <1>3 DEF BeginPage, Prints, PageFails, NextSession, Nothing, bridge
<1>4. CASE Scan
  <2>1. named' = named /\ printer = None
    BY <1>4, ScanFinds, Zenon DEF Scan, history
  <2> QED
    BY <2>1
<1>5. CASE ConnectPrinter \/ ReconnectPrinter
  BY <1>5, LinkKeeps DEF ConnectPrinter, ReconnectPrinter, history
<1>6. CASE Refine
  <2>1. named' = named
    BY <1>6 DEF Refine
  <2> QED
    BY <1>6, <2>1, RefineSettles DEF Switches
<1>7. CASE Discovering
  BY <1>7 DEF Discovering, Discover, ReadSerial, ProbeEnds, DiscoverEnds, bridge, history
<1>8. CASE World
  BY <1>8 DEF World, Drops, Moves, history
<1>9. CASE UNCHANGED vars
  BY <1>9 DEF vars, bridge, history
<1> QED
  BY <1>1, <1>2, <1>3, <1>4, <1>5, <1>6, <1>7, <1>8, <1>9 DEF Next, Command, Connecting

\* ModelKept: a page printed as a named model is printed as the model its
\* session named, also when the connection was made anew.
THEOREM NamedModelIsKept ==
  ASSUME KnownModels
  PROVE  Spec => []ModelKept
<1> DEFINE Inv == IInv /\ NamedModel /\ ModelKept
<1>1. Init => Inv
  BY InitInv, NoneIsNothing DEF Init, NamedModel, ModelKept, Nothing
<1>2. Inv /\ [Next]_vars => Inv'
  <2> SUFFICES ASSUME Inv, [Next]_vars PROVE Inv'
    OBVIOUS
  <2>1. IInv' /\ NamedModel'
    BY NextInv, NamedModelStep
  <2>2. CASE Prints
    <3>1. /\ printed'.as = printer.model /\ printed'.named = named
          /\ printed'.kept = explicit
      BY <2>2 DEF Prints
    <3> QED
      BY <2>1, <3>1, Zenon DEF ModelKept, NamedModel
  <2>3. CASE printed' = printed \/ printed' = None
    BY <2>1, <2>3, Zenon DEF ModelKept
  <2> QED
    BY <2>2, <2>3, PrintedStep
<1>3. Inv => ModelKept
  OBVIOUS
<1> QED
  BY <1>1, <1>2, <1>3, PTL DEF Spec

\* An address the session named is the printer's.
NamedAddress == named.address # Any => printer # None /\ printer.address = named.address

\* The printer application names an address together with a model it knows.
NamesBoth == \A r \in Requests : r.address # Any => r.model \in Models

LEMMA NamedAddressStep ==
  ASSUME NamesBoth, IInv, NamedAddress, [Next]_vars
  PROVE  NamedAddress'
<1> USE NoneIsNothing DEF NamedAddress
<1>1. ASSUME NEW r \in Requests, Open(r) PROVE NamedAddress'
  <2>1. /\ Connect(r) /\ r \in Request /\ (r.address # Any => r.model \in Models)
        /\ named' = IF r = Nothing THEN named ELSE r
    BY <1>1 DEF Open, NamesBoth, Names
  <2>2. CASE r = Nothing
    BY <2>1, <2>2, ConnectCases DEF Nothing, bridge
  <2>3. CASE r # Nothing
    <3>1. named' = r
      BY <2>1, <2>3
    <3>2. r.address # Any => printer' # None /\ printer'.address = r.address
      BY <2>1, ConnectToNamed
    <3> QED
      BY <3>1, <3>2
  <2> QED
    BY <2>2, <2>3
<1>2. CASE Retry
  <2>1. Connect(Nothing) /\ named' = named
    BY <1>2 DEF Retry, history
  <2> QED
    BY <2>1, ConnectCases DEF Nothing, bridge
<1>3. CASE BeginPage \/ Prints \/ PageFails \/ NextSession
  BY <1>3 DEF BeginPage, Prints, PageFails, NextSession, Nothing, bridge
<1>4. CASE Scan
  <2>1. named' = named /\ printer = None
    BY <1>4, ScanFinds, Zenon DEF Scan, history
  <2> QED
    BY <2>1
<1>5. CASE ConnectPrinter \/ ReconnectPrinter
  <2>1. named' = named /\ printer' \in PrinterObjects
        /\ (printer.address \in Printers => printer'.address = printer.address)
    BY <1>5, LinkKeeps DEF ConnectPrinter, ReconnectPrinter, history
  <2>2. printer \in PrinterObjects \cup {None}
    BY DEF IInv, TypeOK
  <2> QED
    BY <2>1, <2>2 DEF PrinterObjects
<1>6. CASE Refine
  <2>1. named' = named
    BY <1>6 DEF Refine
  <2> QED
    BY <1>6, <2>1, RefineSettles DEF PrinterObjects
<1>7. CASE Discovering
  BY <1>7 DEF Discovering, Discover, ReadSerial, ProbeEnds, DiscoverEnds, bridge, history
<1>8. CASE World
  BY <1>8 DEF World, Drops, Moves, history
<1>9. CASE UNCHANGED vars
  BY <1>9 DEF vars, bridge, history
<1> QED
  BY <1>1, <1>2, <1>3, <1>4, <1>5, <1>6, <1>7, <1>8, <1>9 DEF Next, Command, Connecting

\* PrintsWhereNamed: a session that named an address prints on that printer and
\* on no other, whatever was found, missed, connected before or lost.
THEOREM NamedPrinterPrints ==
  ASSUME NamesBoth
  PROVE  Spec => []PrintsWhereNamed
<1> DEFINE Inv == IInv /\ NamedAddress /\ PrintsWhereNamed
<1>1. Init => Inv
  BY InitInv, NoneIsNothing DEF Init, NamedAddress, PrintsWhereNamed, Nothing
<1>2. Inv /\ [Next]_vars => Inv'
  <2> SUFFICES ASSUME Inv, [Next]_vars PROVE Inv'
    OBVIOUS
  <2>1. IInv' /\ NamedAddress'
    BY NextInv, NamedAddressStep
  <2>2. CASE Prints
    <3>1. printed'.on = printer.address /\ printed'.named = named
      BY <2>2 DEF Prints
    <3> QED
      BY <2>1, <3>1, Zenon DEF PrintsWhereNamed, NamedAddress
  <2>3. CASE printed' = printed \/ printed' = None
    BY <2>1, <2>3, Zenon DEF PrintsWhereNamed
  <2> QED
    BY <2>2, <2>3, PrintedStep
<1>3. Inv => PrintsWhereNamed
  OBVIOUS
<1> QED
  BY <1>1, <1>2, <1>3, PTL DEF Spec
-----------------------------------------------------------------------------
(* The model that the serial settles, and the page prepared for it.         *)

\* A model nobody named came from the name or the serial of this printer.
Found == printer # None /\ ~explicit =>
           printer.address \in Printers /\ printer.model \in Matching[printer.address]

\* The serial has been asked and leaves the printer as it is.
IsSettled == explicit \/ (printer.address \in Printers
                             /\ printer.model = BySerial(printer.address))

Settled == (linked /\ pc # "serial") \/ pc = "reconnect" => IsSettled

\* A page whose printer object is still the bridge's fits its model.
PageInv == page # None /\ page.current =>
             printer # None /\ page.model = printer.model /\ IsSettled

LEMMA FoundStep ==
  ASSUME IInv, Found, [Next]_vars
  PROVE  Found'
<1> USE NoneIsNothing DEF Found
<1>1. ASSUME NEW r \in Request, Connect(r) PROVE Found'
  <2>1. \/ printer' = printer /\ explicit' = explicit
        \/ explicit' = TRUE
        \/ printer' = None
    BY <1>1, ConnectCases, Zenon DEF bridge
  <2> QED
    BY <2>1, Zenon
<1>2. CASE Scan
  <2>1. CASE UNCHANGED <<printer, explicit>>
    BY <2>1
  <2>2. CASE \E p \in Printers : printer' = [address |-> p, model |-> ByName(p)]
    BY <2>2, NameMatches
  <2> QED
    BY <1>2, <2>1, <2>2, ScanFinds, Zenon
<1>3. CASE ConnectPrinter \/ ReconnectPrinter
  BY <1>3, LinkKeeps DEF ConnectPrinter, ReconnectPrinter, IInv, LinkInv
<1>4. CASE Refine
  BY <1>4, RefineSettles, NameMatches DEF PrinterObjects
<1>5. CASE UNCHANGED <<printer, explicit>>
  BY <1>5
<1>6. \/ \E r \in Request : Connect(r)
      \/ Scan \/ ConnectPrinter \/ ReconnectPrinter \/ Refine \/ UNCHANGED <<printer, explicit>>
  BY DEF Next, Command, Connecting, Discovering, World, Open, Retry, BeginPage, Prints,
     PageFails, NextSession, Discover, ReadSerial, ProbeEnds, DiscoverEnds, Drops, Moves,
     bridge, vars
<1> QED
  BY <1>1, <1>2, <1>3, <1>4, <1>5, <1>6

LEMMA SettledStep ==
  ASSUME ~SerialMayFail, IInv, Found, Settled, PageInv, [Next]_vars
  PROVE  Settled'
<1> USE NoneIsNothing DEF Settled
<1>1. ASSUME NEW r \in Request, Idle, Connect(r) PROVE Settled'
  <2>1. \/ UNCHANGED <<bridge, pc>>
        \/ UNCHANGED bridge /\ pc' = IF linked' THEN "none" ELSE "connect"
        \/ ~linked' /\ pc' \in {"connect", "scan"}
    BY <1>1, ConnectCases, Zenon
  <2> QED
    BY <1>1, <2>1 DEF Idle, bridge, IsSettled
<1>2. CASE Scan
  BY <1>2, ScanFinds
<1>3. CASE ConnectPrinter
  BY <1>3, LinkKeeps DEF ConnectPrinter
<1>4. CASE ReconnectPrinter
  <2>1. IsSettled
    BY <1>4 DEF ReconnectPrinter
  <2>2. /\ explicit' = explicit /\ printer'.model = printer.model
        /\ printer.address \in Printers => printer'.address = printer.address
    BY <1>4, LinkKeeps DEF ReconnectPrinter
  <2>3. IsSettled'
    BY <2>1, <2>2 DEF IsSettled
  <2> QED
    BY <2>3
<1>5. CASE Refine
  <2>1. CASE linked /\ Switches(printer.address)
    <3>1. /\ printer.address \in Printers /\ printer \in PrinterObjects
          /\ printer' = [printer EXCEPT !.model = BySerial(printer.address)]
      BY <1>5, <2>1, RefineSettles, Zenon
    <3> QED
      BY <3>1 DEF IsSettled, PrinterObjects
  <2>2. CASE ~(linked /\ Switches(printer.address))
    <3>1. UNCHANGED <<printer, linked, explicit>> /\ pc' = "none"
      BY <1>5, <2>2, RefineSettles, Zenon
    <3>2. linked /\ ~explicit => IsSettled
      BY <2>2, OnlyModel DEF Switches, Found, IsSettled, IInv, TypeOK
    <3> QED
      BY <3>1, <3>2 DEF IsSettled
  <2> QED
    BY <2>1, <2>2
<1>6. CASE UNCHANGED <<printer, explicit>> /\ (linked' => linked)
           /\ (pc' = "reconnect" => pc = "reconnect") /\ pc # "serial"
  BY <1>6 DEF IsSettled
<1>7. CASE World
  <2>1. UNCHANGED <<printer, explicit, pc>> /\ (linked' => linked)
    BY <1>7 DEF World, Drops, Moves
  <2> QED
    BY <2>1 DEF IsSettled
<1>8. CASE UNCHANGED vars
  BY <1>8 DEF vars, bridge, IsSettled
<1>9. Command => (\E r \in Request : Idle /\ Connect(r))
                 \/ (UNCHANGED <<bridge, pc>> /\ Idle)
  BY DEF Command, Open, Retry, BeginPage, Prints, PageFails, NextSession
<1>10. CASE Command
  BY <1>1, <1>6, <1>9, <1>10 DEF bridge, Idle
<1>11. CASE Discovering
  <2>1. UNCHANGED bridge /\ pc' \in {"none", "discover", "probing"} /\ pc # "serial"
    BY <1>11 DEF Discovering, Discover, ReadSerial, ProbeEnds, DiscoverEnds, Goto, Idle
  <2> QED
    BY <1>6, <2>1 DEF bridge
<1> QED
  BY <1>2, <1>3, <1>4, <1>5, <1>7, <1>8, <1>10, <1>11 DEF Next, Connecting

LEMMA PageStep ==
  ASSUME IInv, Settled, PageInv, [Next]_vars
  PROVE  PageInv'
<1> USE NoneIsNothing DEF PageInv
<1> DEFINE Kept == printer # None /\ IsSettled =>
                     printer' # None /\ printer'.model = printer.model /\ IsSettled'
<1>1. CASE page' = None
  BY <1>1
<1>2. CASE page' = page /\ Kept
  BY <1>2
<1>3. CASE BeginPage
  <2>1. printer # None /\ IsSettled /\ UNCHANGED bridge
    BY <1>3 DEF BeginPage, Settled, Idle, IInv, TypeOK
  <2>2. IsSettled'
    BY <2>1 DEF IsSettled, bridge
  <2> QED
    BY <1>3, <2>1, <2>2 DEF BeginPage, bridge
<1>4. CASE UNCHANGED <<printer, explicit>> /\ page' = page
  BY <1>2, <1>4 DEF IsSettled
<1>5. ASSUME NEW r \in Requests, Open(r) PROVE PageInv'
  BY <1>5 DEF Open
<1>6. CASE Retry
  <2>1. page' = page /\ (printer # None => UNCHANGED bridge)
    BY <1>6, ConnectCases DEF Retry, history, Nothing, bridge
  <2> QED
    BY <1>2, <2>1 DEF bridge, IsSettled
<1>7. CASE Prints \/ PageFails \/ NextSession
  BY <1>1, <1>4, <1>7 DEF Prints, PageFails, NextSession, bridge
<1>8. CASE Scan
  <2>1. printer = None /\ page' = page
    BY <1>8, ScanFinds, Zenon DEF Scan, history
  <2> QED
    BY <1>2, <2>1
<1>9. CASE ConnectPrinter \/ ReconnectPrinter
  <2>1. /\ page' = page /\ explicit' = explicit
        /\ printer' # None /\ printer'.model = printer.model
        /\ printer.address \in Printers => printer'.address = printer.address
    BY <1>9, LinkKeeps DEF ConnectPrinter, ReconnectPrinter, history
  <2> QED
    BY <1>2, <2>1 DEF IsSettled
<1>10. CASE Refine
  <2>1. CASE UNCHANGED <<printer, explicit, page>>
    BY <1>4, <2>1
  <2>2. CASE ~UNCHANGED <<printer, explicit, page>>
    <3>1. linked /\ Switches(printer.address)
          /\ page' = IF page = None \/ linked' THEN page ELSE [page EXCEPT !.current = FALSE]
      BY <1>10, <2>2, RefineSettles, Zenon
    <3>2. ~IsSettled
      BY <3>1 DEF Switches, IsSettled
    <3>3. page = None \/ (page \in Pages /\ page.current = FALSE)
      BY <3>2 DEF IInv, TypeOK, Pages
    <3> QED
      BY <3>1, <3>3 DEF Pages
  <2> QED
    BY <2>1, <2>2
<1>11. CASE Discovering \/ World \/ UNCHANGED vars
  BY <1>4, <1>11 DEF Discovering, Discover, ReadSerial, ProbeEnds, DiscoverEnds, World,
     Drops, Moves, bridge, history, vars
<1> QED
  BY <1>3, <1>5, <1>6, <1>7, <1>8, <1>9, <1>10, <1>11 DEF Next, Command, Connecting

SettledInv == IInv /\ Found /\ Settled /\ PageInv

LEMMA SettledAlways ==
  ASSUME ~SerialMayFail
  PROVE  Spec => []SettledInv
<1>1. Init => SettledInv
  BY InitInv, NoneIsNothing DEF Init, SettledInv, Found, Settled, PageInv
<1>2. SettledInv /\ [Next]_vars => SettledInv'
  BY NextInv, FoundStep, SettledStep, PageStep DEF SettledInv
<1> QED
  BY <1>1, <1>2, PTL DEF Spec

\* ModelSettled: a connected printer is used as the model its serial names,
\* unless a client named the model, provided that it gives its serial.
THEOREM ModelIsSettled ==
  ASSUME ~SerialMayFail
  PROVE  Spec => []ModelSettled
<1>1. SettledInv => ModelSettled
  BY DEF SettledInv, Settled, IsSettled, ModelSettled, Idle
<1> QED
  BY <1>1, SettledAlways, PTL

\* PageFitsModel: a page that waited for its printer is printed as the model it
\* was prepared for, provided that the printer gives its serial.
THEOREM PageKeepsModel ==
  ASSUME ~SerialMayFail
  PROVE  Spec => []PageFitsModel
<1>1. Init => PageFitsModel
  BY DEF Init, PageFitsModel
<1>2. SettledInv /\ PageFitsModel /\ [Next]_vars => PageFitsModel'
  <2> SUFFICES ASSUME SettledInv, PageFitsModel, [Next]_vars PROVE PageFitsModel'
    OBVIOUS
  <2>1. CASE Prints
    <3>1. printed'.as = printer.model /\ printed'.prepared = page.model
      BY <2>1 DEF Prints
    <3> QED
      BY <2>1, <3>1 DEF Prints, SettledInv, PageInv, PageFitsModel
  <2>2. CASE printed' = printed \/ printed' = None
    BY <2>2 DEF PageFitsModel
  <2> QED
    BY <2>1, <2>2, PrintedStep
<1> QED
  BY <1>1, <1>2, SettledAlways, PTL DEF Spec
=============================================================================
