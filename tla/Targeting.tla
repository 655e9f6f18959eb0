------------------------------ MODULE Targeting ------------------------------
(***************************************************************************)
(* Which printer the bridge uses, and as which model: Bridge.connect,      *)
(* _new_printer and _refine_model (bridge/server.py) over Printer.connect  *)
(* (printer.py) and the name and serial match of registry.py, driven by    *)
(* the commands of a session that name a printer (open), look for printers *)
(* (discover), wait for one (wait_ready) or print on it (page_end).        *)
(*                                                                         *)
(* Sessions come one after the other and their commands run one at a time  *)
(* (BridgeSession), so connect never runs twice at once; beside it the     *)
(* printers come and go.  The idle timer is BridgeLink's.  What the bridge *)
(* remembers of a printer for status decides nothing here and is left out. *)
(***************************************************************************)
EXTENDS Naturals, FiniteSets, FiniteSetsExt

CONSTANTS
  Printers,       \* Bluetooth addresses
  Models,         \* the registered profiles, in the order of their identifiers
  Unknown,        \* a model that is not registered
  Any,            \* no address, no model named
  None,           \* no printer object
  Matching,       \* printer: models whose pattern matches its advertised name
  InSerial,       \* printer: models one of whose codes occurs in its serial
  WithCodes,      \* models that carry serial codes
  SharedSettings, \* printers whose matching models have equal ble_settings
  Requests,       \* what clients name in open: [address, model]
  SerialMayFail   \* a connected printer may not give its serial

PrinterObjects == [address : Printers \cup {Any}, model : Models]
Pages == [model : Models, current : BOOLEAN]
Request == [address : Printers \cup {Any}, model : Models \cup {Unknown, Any}]
PrintedPages == [on : Printers, as : Models, prepared : Models, named : Request, kept : BOOLEAN]

ASSUME TargetingAssumption ==
  /\ Models \subseteq Nat /\ IsFiniteSet(Models) /\ Unknown \notin Models
  /\ Any \notin Printers \cup Models \cup {Unknown}
  /\ None \notin Printers \cup PrinterObjects \cup Pages \cup PrintedPages
  /\ Matching \in [Printers -> (SUBSET Models) \ {{}}]
  /\ InSerial \in [Printers -> SUBSET WithCodes] /\ WithCodes \subseteq Models
  /\ SharedSettings \subseteq Printers
  /\ Requests \subseteq Request
  /\ SerialMayFail \in BOOLEAN

VARIABLES
  near,     \* printers switched on and in range
  pc,       \* the running command: "none" or the await of connect it is at
  asked,    \* the arguments of that connect
  printer,  \* Bridge.printer: [address, model]
  explicit, \* Bridge._model_explicit
  linked,   \* its connection is up
  unread,   \* printers a discover has yet to tell the models of
  probe,    \* the printer it is connected to for that, or None
  named,    \* what the session's opens named last
  page,     \* the running page_end: [model it was prepared for, its printer
            \* object is still the bridge's]
  printed   \* the last printed page: [on, as, prepared, named, kept: _model_explicit]

bridge == <<printer, explicit, linked>>
history == <<named, page, printed>>
discovery == <<unread, probe>>
vars == <<near, pc, asked, bridge, discovery, history>>

Nothing == [address |-> Any, model |-> Any]

Init ==
  /\ near \in SUBSET Printers
  /\ pc = "none" /\ asked = Nothing
  /\ printer = None /\ explicit = FALSE /\ linked = FALSE
  /\ unread = {} /\ probe = None
  /\ named = Nothing /\ page = None /\ printed = None

\* profile_for_name, without a serial and with the printer's: a model whose
\* code is in the serial, else one without codes, else the first that matches.
Ambiguous(p) == Cardinality(Matching[p]) > 1

ByName(p) == LET plain == Matching[p] \ WithCodes
             IN  Min(IF plain # {} THEN plain ELSE Matching[p])
BySerial(p) == LET coded == Matching[p] \cap InSerial[p]
               IN  IF coded # {} THEN Min(coded) ELSE ByName(p)
-----------------------------------------------------------------------------
(* Bridge.connect.                                                          *)

Goto(w) == pc' = w /\ UNCHANGED asked
Fails == Goto("none") /\ UNCHANGED bridge

\* Bug for the mutant runs: the current printer is kept whatever is named.
Bug_NeverRetargets(r) == FALSE

\* Another address or another model than the current printer's is named.
Retargets(r) ==
  /\ printer # None
  /\ \/ r.address # Any /\ r.address # printer.address
     \/ r.model # Any /\ r.model # printer.model

\* Up to the first await: refuse an unknown model, drop a connection to
\* another printer, keep one that is up, and make a printer of a named model
\* at once or have a scan find it.
Connect(r) ==
  IF r.model = Unknown THEN UNCHANGED <<pc, asked, bridge>>
  ELSE LET fresh == printer = None \/ Retargets(r) IN
       /\ asked' = r
       /\ linked' = (linked /\ ~fresh)
       /\ pc' = IF linked' THEN "none"
                ELSE IF fresh /\ r.model = Any THEN "scan" ELSE "connect"
       /\ IF fresh /\ r.model # Any
          THEN printer' = [address |-> r.address, model |-> r.model] /\ explicit' = TRUE
          ELSE printer' = (IF fresh THEN None ELSE printer) /\ UNCHANGED explicit

\* _new_printer without a model: of what the scan finds, the named address or
\* the only one.  A scan may miss a printer.
Scan ==
  /\ pc = "scan"
  /\ \E found \in SUBSET near :
       LET candidates == IF asked.address = Any THEN found ELSE found \cap {asked.address}
       IN  IF Cardinality(candidates) = 1
           THEN LET p == CHOOSE p \in candidates : TRUE IN
                /\ printer' = [address |-> p, model |-> ByName(p)] /\ explicit' = FALSE
                /\ Goto("connect") /\ UNCHANGED linked
           ELSE Fails
  /\ UNCHANGED <<near, discovery, history>>

\* Printer.connect: without an address the only printer of its model's name is
\* taken and kept; the attempt may fail.
Resolved(found) ==
  IF printer.address # Any THEN {printer.address} \cap near
  ELSE {p \in found : printer.model \in Matching[p]}

LinkPrinter(next) ==
  \E found \in SUBSET near :
    IF Cardinality(Resolved(found)) = 1
    THEN /\ printer' = [printer EXCEPT !.address = CHOOSE p \in Resolved(found) : TRUE]
         /\ linked' \in BOOLEAN
         /\ Goto(IF linked' THEN next ELSE "none")
         /\ UNCHANGED explicit
    ELSE Fails

\* Bug for the mutant runs: only a connect that names something is refined.
Bug_RetryIsNotRefined ==
  /\ pc = "connect" /\ LinkPrinter(IF asked = Nothing THEN "none" ELSE "serial")
  /\ UNCHANGED <<near, discovery, history>>

ConnectPrinter ==
  /\ pc = "connect" /\ LinkPrinter("serial")
  /\ UNCHANGED <<near, discovery, history>>

\* Bug for the mutant runs: the serial overrules the client.
Bug_SerialWins(p) == Ambiguous(p) /\ BySerial(p) # printer.model

\* _refine_model: the serial settles a model that the name leaves open, unless
\* the client named it.  One with other settings needs a new printer object and
\* a new connection, which is not refined again.
Switches(p) == /\ Ambiguous(p)
               /\ BySerial(p) # printer.model /\ ~explicit

Refine ==
  /\ pc = "serial"
  /\ IF linked /\ Switches(printer.address)
     THEN \/ /\ printer' = [printer EXCEPT !.model = BySerial(printer.address)]
             /\ linked' = (printer.address \in SharedSettings)
             /\ Goto(IF linked' THEN "none" ELSE "reconnect")
             /\ UNCHANGED explicit
             /\ page' = IF page = None \/ linked' THEN page
                        ELSE [page EXCEPT !.current = FALSE]
          \/ SerialMayFail /\ Fails /\ UNCHANGED page
     ELSE Fails /\ UNCHANGED page
  /\ UNCHANGED <<near, discovery, named, printed>>

ReconnectPrinter ==
  /\ pc = "reconnect" /\ LinkPrinter("none")
  /\ UNCHANGED <<near, discovery, history>>
-----------------------------------------------------------------------------
(* The session's commands.                                                  *)

Idle == pc = "none"

\* An address named earlier holds until an open names something else.
Names(r) == IF r = Nothing THEN named ELSE r

Open(r) ==
  /\ Idle /\ page = None /\ r \in Requests
  /\ Connect(r) /\ named' = Names(r)
  /\ UNCHANGED <<near, discovery, page, printed>>

\* Bug for the mutant runs: every connect says anew whether a model was named.
Bug_Forgets ==
  /\ Idle /\ ~linked
  /\ printer # None /\ pc' = "connect" /\ asked' = Nothing /\ explicit' = FALSE
  /\ UNCHANGED <<near, printer, linked, discovery, history>>

\* _connect_once, in wait_ready and inside a page_end that lost the printer.
Retry ==
  /\ Idle /\ ~linked /\ Connect(Nothing)
  /\ UNCHANGED <<near, discovery, history>>

\* page_end takes the bridge's printer and prepares the page for its model.
BeginPage ==
  /\ Idle /\ page = None /\ linked
  /\ page' = [model |-> printer.model, current |-> TRUE]
  /\ UNCHANGED <<near, pc, asked, bridge, discovery, named, printed>>

Prints ==
  /\ Idle /\ page # None /\ page.current /\ linked
  /\ printed' = [on |-> printer.address, as |-> printer.model,
                 prepared |-> page.model, named |-> named, kept |-> explicit]
  /\ page' = None
  /\ UNCHANGED <<near, pc, asked, bridge, discovery, named>>

\* A cancel, or the printer object of the page is not connected any more.
PageFails ==
  /\ Idle /\ page # None /\ page' = None
  /\ UNCHANGED <<near, pc, asked, bridge, discovery, named, printed>>

NextSession ==
  /\ Idle /\ page = None /\ named' = Nothing /\ printed' = None
  /\ UNCHANGED <<near, pc, asked, bridge, discovery, page>>

-----------------------------------------------------------------------------
(* Bridge.discover.                                                         *)

Discover ==
  /\ Idle /\ page = None
  /\ \E found \in SUBSET near : unread' = {p \in found : Ambiguous(p)}
  /\ Goto("discover")
  /\ UNCHANGED <<near, bridge, probe, history>>

\* Bug for the mutant runs: the held connection is not looked for.
Bug_AlwaysProbes(p) == FALSE

\* _read_serial asks over the held connection when it is that printer's.
HeldIs(p) == linked /\ printer.address = p

ReadSerial ==
  /\ pc = "discover"
  /\ \E p \in unread :
       \/ unread' = unread \ {p} /\ UNCHANGED <<pc, probe>>
       \/ ~HeldIs(p) /\ p \in near /\ probe' = p /\ pc' = "probing" /\ UNCHANGED unread
  /\ UNCHANGED <<near, asked, bridge, history>>

\* The probe is disconnected, whatever its printer answered.
ProbeEnds ==
  /\ pc = "probing" /\ pc' = "discover" /\ unread' = unread \ {probe} /\ probe' = None
  /\ UNCHANGED <<near, asked, bridge, history>>

DiscoverEnds ==
  /\ pc = "discover" /\ unread = {} /\ Goto("none")
  /\ UNCHANGED <<near, bridge, discovery, history>>

Discovering == Discover \/ ReadSerial \/ ProbeEnds \/ DiscoverEnds
-----------------------------------------------------------------------------
Command == \/ (\E r \in Requests : Open(r)) \/ Retry \/ BeginPage \/ Prints
           \/ PageFails \/ NextSession

Connecting == Scan \/ ConnectPrinter \/ Refine \/ ReconnectPrinter
-----------------------------------------------------------------------------
(* The printers.                                                            *)

\* A printer comes or goes; one that goes takes its connection with it.
Moves(p) ==
  /\ near' = (IF p \in near THEN near \ {p} ELSE near \cup {p})
  /\ linked' = (linked /\ printer.address \in near')
  /\ UNCHANGED <<pc, asked, printer, explicit, discovery, history>>

\* The connection drops.
Drops ==
  /\ linked /\ linked' = FALSE
  /\ UNCHANGED <<near, pc, asked, printer, explicit, discovery, history>>

World == Drops \/ (\E p \in Printers : Moves(p))

Next == Command \/ Connecting \/ Discovering \/ World

Spec == Init /\ [][Next]_vars
-----------------------------------------------------------------------------
(* Properties.                                                              *)

\* Types; a connection belongs to a printer whose address is known, and a
\* printer has one: a discover never probes the printer the bridge holds.
TypeOK ==
  /\ near \subseteq Printers
  /\ pc \in {"none", "scan", "connect", "serial", "reconnect", "discover", "probing"}
  /\ asked \in Request /\ named \in Request
  /\ printer \in PrinterObjects \cup {None}
  /\ explicit \in BOOLEAN /\ linked \in BOOLEAN
  /\ linked => printer # None /\ printer.address \in near
  /\ unread \subseteq Printers /\ probe \in Printers \cup {None}
  /\ (probe # None) <=> (pc = "probing")
  /\ unread # {} => pc \in {"discover", "probing"}
  /\ linked /\ probe # None => printer.address # probe
  /\ page \in Pages \cup {None} /\ printed \in PrintedPages \cup {None}

\* A session that named an address prints on that printer and on no other,
\* whatever was found, missed, connected before or lost on the way.
PrintsWhereNamed ==
  printed # None /\ printed.named.address # Any => printed.on = printed.named.address

\* A model that was noted as named by the client is the one its session named,
\* also when the connection is made anew and the serial points elsewhere.
ModelKept ==
  printed # None /\ printed.kept /\ printed.named.model # Any =>
    printed.as = printed.named.model

\* A connected printer is used as the model its serial names, unless a client
\* named the model of this very printer.
ModelSettled ==
  Idle /\ linked => explicit \/ printer.model = BySerial(printer.address)

\* A page is printed as the model it was prepared for: the profile is not
\* changed under a page that waits for its printer.
PageFitsModel == printed # None => printed.as = printed.prepared
=============================================================================
