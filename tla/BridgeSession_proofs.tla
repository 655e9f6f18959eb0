------------------------ MODULE BridgeSession_proofs ------------------------
(***************************************************************************)
(* Proofs about BridgeSession, for every set of clients and every number   *)
(* of commands: its types, that at most one client is served, that the     *)
(* sessions implement BridgeService, whose the replies are, and what a     *)
(* call and the end of a session wait for.                                 *)
(*                                                                         *)
(* The inductive invariant IInv adds to the types and to OneServed that a  *)
(* client without a connection has no session: connecting must not cut off *)
(* a session that is served.  What a session reads is a command because of *)
(* the types of the queues.  For the replies, PoliteInv follows the one     *)
(* command of a client that waits through the queue to the bridge, the     *)
(* session and the queue back, and the aborts around it; OpenInv says that  *)
(* neither the command nor an abort sent for it is lost on that way.       *)
(***************************************************************************)
EXTENDS BridgeSession, TLAPS

\* What a message is: a command has a number, an abort none.
LEMMA Messages ==
  /\ NoCommand \notin Commands
  /\ \A m \in Commands \cup {ABORT} : m # ABORT => m \in Commands
  /\ \A m \in Commands : m.n \in 1 .. MaxCalls
  /\ MaxCalls \in Nat
BY SessionAssumption DEF NoCommand, Commands

\* The head of a queue is one of its messages, and the rest is a queue.
LEMMA Queue ==
  ASSUME NEW S, NEW q \in Seq(S), q # <<>>
  PROVE  Head(q) \in S /\ Tail(q) \in Seq(S)
OBVIOUS

LEMMA InitInv == Init => IInv
<1> SUFFICES ASSUME Init PROVE IInv
  OBVIOUS
<1>1. TypeOK
  <2>1. /\ at \in [Clients -> {"out", "in", "calling", "aborting", "gone"}]
        /\ session \in [Clients -> {"none", "starting", "serving", "draining", "done"}]
        /\ pending \in [Clients -> Commands \cup {NoCommand}]
        /\ flag \in [Clients -> BOOLEAN] /\ active \in BOOLEAN
        /\ \A c \in Clients : pending[c] # NoCommand => Served(c)
    BY DEF Init
  <2>2. call \in [Clients -> 0 .. MaxCalls] /\ last \in [Clients -> Replies]
    BY SessionAssumption DEF Init, Replies, Results
  <2>3. asked \in [Clients -> SUBSET (0 .. MaxCalls)]
    BY DEF Init
  <2>4. /\ up \in [Clients -> Seq(Commands \cup {ABORT})]
        /\ down \in [Clients -> Seq(Replies \cup {ACK})]
    BY DEF Init
  <2> QED
    BY <2>1, <2>2, <2>3, <2>4 DEF TypeOK
<1>2. OneServed /\ OutIsNone
  BY DEF Init, OneServed, OutIsNone, Served
<1> QED
  BY <1>1, <1>2 DEF IInv
-----------------------------------------------------------------------------
(* Steps of the client: nothing the bridge holds changes but, when it       *)
(* connects or is forgotten, a session that is not served.                  *)

\* Who is served depends on the sessions and on session_active alone.
LEMMA SameServed ==
  ASSUME IInv, active' = active, \A c \in Clients : Served(c)' = Served(c)
  PROVE  OneServed'
BY DEF IInv, OneServed

LEMMA UserStep ==
  ASSUME IInv, NEW c \in Clients, User(c) \/ Read(c) \/ Closed(c)
  PROVE  IInv' /\ pending' = pending /\ \A d \in Clients : Served(d)' = Served(d)
<1> USE Messages DEF IInv, TypeOK, Set, bridge, Served, OutIsNone
<1>1. CASE Connect(c)
  <2>1. TypeOK'
    BY <1>1 DEF Connect
  <2>2. \A d \in Clients : Served(d)' = Served(d)
    BY <1>1 DEF Connect
  <2> QED
    BY <1>1, <2>1, <2>2, SameServed DEF Connect
<1>2. CASE Send(c)
  <2>1. PICK k \in Kinds : up' = [up EXCEPT ![c] = Append(@, [n |-> call'[c], kind |-> k])]
    BY <1>2 DEF Send
  <2>2. call[c] + 1 \in 1 .. MaxCalls /\ call'[c] = call[c] + 1
    BY <1>2 DEF Send
  <2>3. [n |-> call'[c], kind |-> k] \in Commands
    BY <2>1, <2>2 DEF Commands
  <2>4. up' \in [Clients -> Seq(Commands \cup {ABORT})]
    BY <2>1, <2>3
  <2>5. TypeOK'
    BY <1>2, <2>2, <2>4 DEF Send
  <2> QED
    BY <1>2, <2>5, SameServed DEF Send
<1>3. CASE SendAbort(c)
  <2>1. up' \in [Clients -> Seq(Commands \cup {ABORT})]
    BY <1>3 DEF SendAbort
  <2>2. asked' \in [Clients -> SUBSET (0 .. MaxCalls)]
    BY <1>3 DEF SendAbort
  <2>3. TypeOK'
    BY <1>3, <2>1, <2>2 DEF SendAbort
  <2> QED
    BY <1>3, <2>3, SameServed DEF SendAbort
<1>4. CASE CallAbort(c)
  <2>1. up' \in [Clients -> Seq(Commands \cup {ABORT})]
    BY <1>4 DEF CallAbort
  <2>2. TypeOK'
    BY <1>4, <2>1 DEF CallAbort
  <2> QED
    BY <1>4, <2>2, SameServed DEF CallAbort
<1>5. CASE Leave(c) \/ Closed(c)
  BY <1>5, SameServed DEF Leave, Closed
<1>6. CASE Forget(c)
  <2>1. TypeOK'
    BY <1>6 DEF Forget, Replies, Results
  <2>2. \A d \in Clients : Served(d)' = Served(d)
    BY <1>6 DEF Forget
  <2> QED
    BY <1>6, <2>1, <2>2, SameServed DEF Forget
<1>7. CASE Read(c)
  <2>1. Head(down[c]) \in Replies \cup {ACK} /\ Tail(down[c]) \in Seq(Replies \cup {ACK})
    BY <1>7, Queue DEF Read
  <2>2. ReplyTo(Head(down[c])) \in Replies
    BY <2>1 DEF ReplyTo, Replies, Results
  <2>3. down' \in [Clients -> Seq(Replies \cup {ACK})]
    BY <1>7, <2>1 DEF Read
  <2>4. last' \in [Clients -> Replies] /\ at' \in [Clients -> {"out", "in", "calling", "aborting", "gone"}]
    BY <1>7, <2>2 DEF Read
  <2>5. TypeOK'
    BY <1>7, <2>3, <2>4 DEF Read
  <2> QED
    BY <1>7, <2>5, SameServed DEF Read
<1> QED
  BY <1>1, <1>2, <1>3, <1>4, <1>5, <1>6, <1>7 DEF User
-----------------------------------------------------------------------------
(* Steps of the bridge.                                                     *)

LEMMA RefuseStep ==
  ASSUME IInv, NEW c \in Clients, Refuse(c)
  PROVE  IInv' /\ pending' = pending /\ \A d \in Clients : Served(d)' = Served(d)
<1> USE Messages DEF IInv, TypeOK, Set, Tell, client, Served, OutIsNone, Refuse
<1>1. [n |-> 0, result |-> "refused"] \in Replies
  BY DEF Replies, Results
<1>2. down' \in [Clients -> Seq(Replies \cup {ACK})]
  BY <1>1
<1>3. TypeOK' /\ OutIsNone'
  BY <1>2
<1>4. \A d \in Clients : Served(d)' = Served(d)
  OBVIOUS
<1> QED
  BY <1>3, <1>4, SameServed

\* The session that enters finds nobody served.
LEMMA AdmitStep ==
  ASSUME IInv, NEW c \in Clients, Admit(c)
  PROVE  /\ IInv' /\ pending' = pending
         /\ \A d \in Clients : ~Served(d)
         /\ \A d \in Clients : Served(d)' <=> d = c
<1> USE DEF IInv, TypeOK, Set, client, Served, OutIsNone, Admit
<1>1. \A d \in Clients : ~Served(d)
  BY DEF OneServed
<1>2. \A d \in Clients : Served(d)' <=> d = c
  BY <1>1
<1>3. OneServed'
  BY <1>2 DEF OneServed
<1>4. TypeOK' /\ OutIsNone'
  OBVIOUS
<1> QED
  BY <1>1, <1>2, <1>3, <1>4

LEMMA AbortStep ==
  ASSUME IInv, NEW c \in Clients, TakeAbort(c)
  PROVE  IInv' /\ pending' = pending /\ \A d \in Clients : Served(d)' = Served(d)
<1> USE DEF IInv, TypeOK, Set, Tell, Drop, Reading, client, Served, OutIsNone, TakeAbort
<1>1. Tail(up[c]) \in Seq(Commands \cup {ABORT})
  BY Queue
<1>2. up' \in [Clients -> Seq(Commands \cup {ABORT})]
  BY <1>1
<1>3. down' \in [Clients -> Seq(Replies \cup {ACK})]
  OBVIOUS
<1>4. TypeOK' /\ OutIsNone'
  BY <1>2, <1>3
<1> QED
  BY <1>4, SameServed

\* The command that starts is one, and none was running.
LEMMA CommandStep ==
  ASSUME IInv, NEW c \in Clients, TakeCommand(c)
  PROVE  /\ IInv' /\ Served(c) /\ pending[c] = NoCommand
         /\ pending'[c] # NoCommand
         /\ \A d \in Clients \ {c} : pending'[d] = pending[d]
         /\ \A d \in Clients : Served(d)' = Served(d)
<1> USE DEF IInv, TypeOK, Set, Drop, Reading, client, Served, OutIsNone, TakeCommand
<1>1. Head(up[c]) \in Commands \cup {ABORT} /\ Tail(up[c]) \in Seq(Commands \cup {ABORT})
  BY Queue
<1>2. Head(up[c]) \in Commands /\ Head(up[c]) # NoCommand
  BY <1>1, Messages
<1>3. up' \in [Clients -> Seq(Commands \cup {ABORT})]
  BY <1>1
<1>4. TypeOK' /\ OutIsNone'
  BY <1>2, <1>3
<1> QED
  BY <1>2, <1>4, SameServed

LEMMA RejectStep ==
  ASSUME IInv, NEW c \in Clients, RejectCommand(c) \/ UnknownCommand(c)
  PROVE  IInv' /\ pending' = pending /\ \A d \in Clients : Served(d)' = Served(d)
<1> USE DEF IInv, TypeOK, Set, Tell, Drop, Reading, Quick, client, bridge, Served,
            OutIsNone, RejectCommand, UnknownCommand
<1>1. Head(up[c]) \in Commands \cup {ABORT} /\ Tail(up[c]) \in Seq(Commands \cup {ABORT})
  BY Queue
<1>2. Head(up[c]).n \in 0 .. MaxCalls
  BY <1>1, Messages
<1>3. [n |-> Head(up[c]).n, result |-> "refused"] \in Replies
  BY <1>2 DEF Replies, Results
<1>4. up' \in [Clients -> Seq(Commands \cup {ABORT})]
  BY <1>1
<1>5. down' \in [Clients -> Seq(Replies \cup {ACK})]
  <2>1. down' = [down EXCEPT ![c] = Append(@, [n |-> Head(up[c]).n, result |-> "refused"])]
    OBVIOUS
  <2> QED
    BY <1>3, <2>1
<1>6. TypeOK' /\ OutIsNone'
  BY <1>4, <1>5
<1> QED
  BY <1>6, SameServed

LEMMA FinishStep ==
  ASSUME IInv, NEW c \in Clients, NEW r \in {"ok", "cancelled"}, Finish(c, r)
  PROVE  /\ IInv' /\ pending[c] # NoCommand /\ pending'[c] = NoCommand
         /\ \A d \in Clients \ {c} : pending'[d] = pending[d]
         /\ \A d \in Clients : Served(d)' = Served(d)
<1> USE DEF IInv, TypeOK, Set, Tell, client, Served, OutIsNone, Finish
<1>1. pending[c].n \in 0 .. MaxCalls
  BY Messages
<1>2. [n |-> pending[c].n, result |-> r] \in Replies
  BY <1>1 DEF Replies, Results
<1>3. down' \in [Clients -> Seq(Replies \cup {ACK})]
  BY <1>2
<1>4. TypeOK' /\ OutIsNone'
  BY <1>3
<1> QED
  BY <1>4, SameServed

LEMMA ProtocolErrorStep ==
  ASSUME IInv, NEW c \in Clients, ProtocolError(c)
  PROVE  IInv' /\ pending' = pending /\ \A d \in Clients : Served(d)' = Served(d)
<1> USE DEF IInv, TypeOK, Set, Tell, Drop, Reading, client, Served, OutIsNone, ProtocolError
<1>1. Tail(up[c]) \in Seq(Commands \cup {ABORT})
  BY Queue
<1>2. [n |-> 0, result |-> "refused"] \in Replies
  BY SessionAssumption DEF Replies, Results
<1>3. up' \in [Clients -> Seq(Commands \cup {ABORT})]
  BY <1>1
<1>4. down' \in [Clients -> Seq(Replies \cup {ACK})]
  BY <1>2
<1>5. TypeOK' /\ OutIsNone'
  BY <1>3, <1>4
<1>6. \A d \in Clients : Served(d)' = Served(d)
  OBVIOUS
<1> QED
  BY <1>5, <1>6, SameServed

LEMMA EofStep ==
  ASSUME IInv, NEW c \in Clients, Eof(c)
  PROVE  IInv' /\ pending' = pending /\ \A d \in Clients : Served(d)' = Served(d)
<1> USE DEF IInv, TypeOK, Set, client, Served, OutIsNone, Eof
<1>1. TypeOK' /\ OutIsNone' /\ \A d \in Clients : Served(d)' = Served(d)
  OBVIOUS
<1> QED
  BY <1>1, SameServed

\* The session that leaves was the one served, and nothing runs.
LEMMA EndStep ==
  ASSUME IInv, NEW c \in Clients, End(c)
  PROVE  /\ IInv' /\ pending' = pending
         /\ \A d \in Clients : pending[d] = NoCommand
         /\ \A d \in Clients : Served(d) <=> d = c
         /\ \A d \in Clients : ~Served(d)'
<1> USE DEF IInv, TypeOK, Set, client, Served, OutIsNone, End
<1>1. \A d \in Clients : Served(d) <=> d = c
  BY DEF OneServed
<1>2. \A d \in Clients : pending[d] = NoCommand
  BY <1>1
<1>3. \A d \in Clients : ~Served(d)'
  BY <1>1
<1>4. OneServed'
  BY <1>3 DEF OneServed
<1>5. TypeOK' /\ OutIsNone'
  BY <1>2
<1> QED
  BY <1>1, <1>2, <1>3, <1>4, <1>5
-----------------------------------------------------------------------------
LEMMA NextInv == IInv /\ [Next]_vars => IInv'
<1> SUFFICES ASSUME IInv, [Next]_vars PROVE IInv'
  OBVIOUS
<1>1. CASE UNCHANGED vars
  BY <1>1 DEF IInv, TypeOK, OneServed, OutIsNone, Served, vars, client, bridge
<1>2. ASSUME NEW c \in Clients,
             \/ User(c) \/ Read(c) \/ Closed(c)
             \/ Refuse(c) \/ Admit(c) \/ Loop(c) \/ Finishes(c) \/ End(c)
      PROVE  IInv'
  BY <1>2, UserStep, RefuseStep, AdmitStep, AbortStep, CommandStep, RejectStep,
     FinishStep, ProtocolErrorStep, EofStep, EndStep DEF Loop, Finishes
<1> QED
  BY <1>1, <1>2 DEF Next

LEMMA Inductive == Spec => []IInv
BY InitInv, NextInv, PTL DEF Spec

\* Every message and every piece of session state has its type, and no command
\* runs in a session that is over.
THEOREM SessionTypes == Spec => []TypeOK
<1>1. IInv => TypeOK
  BY DEF IInv
<1> QED
  BY <1>1, Inductive, PTL

\* For every set of clients, whatever they send and whenever they go away: at
\* most one is served, and session_active tells whether one is.
THEOREM OneClientServed == Spec => []OneServed
<1>1. IInv => OneServed
  BY DEF IInv
<1> QED
  BY <1>1, Inductive, PTL
-----------------------------------------------------------------------------
(* The sessions implement the service.                                      *)

Holders == {c \in Clients : Served(c)}
Running == {c \in Clients : pending[c] # NoCommand}

LEMMA ServiceInit == Init => Service!Init
BY DEF Init, Service!Init, Served

\* A step that serves and runs what was served and ran is a stutter.
LEMMA Stutter ==
  ASSUME pending' = pending, \A d \in Clients : Served(d)' = Served(d)
  PROVE  Holders' = Holders /\ Running' = Running
BY DEF Holders, Running

LEMMA ServiceNext ==
  ASSUME IInv, Next
  PROVE  Service!Next \/ (Holders' = Holders /\ Running' = Running)
<1>1. PICK c \in Clients :
        \/ User(c) \/ Read(c) \/ Closed(c)
        \/ Refuse(c) \/ Admit(c) \/ Loop(c) \/ Finishes(c) \/ End(c)
  BY DEF Next
<1>2. CASE \/ User(c) \/ Read(c) \/ Closed(c) \/ Refuse(c)
           \/ TakeAbort(c) \/ UnknownCommand(c) \/ RejectCommand(c)
           \/ ProtocolError(c) \/ Eof(c)
  BY <1>2, UserStep, RefuseStep, AbortStep, RejectStep, ProtocolErrorStep, EofStep, Stutter
<1>3. CASE Admit(c)
  <2>1. Holders = {} /\ Holders' = {c} /\ Running' = Running
    BY <1>3, AdmitStep DEF Holders, Running
  <2>2. Service!Enter(c)
    BY <2>1 DEF Service!Enter, Holders, Running
  <2> QED
    BY <2>2 DEF Service!Next
<1>4. CASE TakeCommand(c)
  <2>1. Holders = {c} /\ Holders' = Holders
    BY <1>4, CommandStep DEF Holders, IInv, OneServed
  <2>2. \A d \in Clients \ {c} : pending[d] = NoCommand
    BY <2>1 DEF IInv, TypeOK, Holders
  <2>3. Running = {} /\ Running' = {c}
    BY <2>2, <1>4, CommandStep DEF Running
  <2>4. Service!Begin(c)
    BY <2>1, <2>3 DEF Service!Begin, Holders, Running
  <2> QED
    BY <2>4 DEF Service!Next
<1>5. CASE Finishes(c)
  <2>1. PICK r \in {"ok", "cancelled"} : Finish(c, r)
    BY <1>5 DEF Finishes
  <2>2. Holders = {c} /\ Holders' = Holders
    <3>1. pending[c] # NoCommand /\ \A d \in Clients : Served(d)' = Served(d)
      BY <2>1, FinishStep
    <3>2. Served(c)
      BY <3>1 DEF IInv, TypeOK
    <3> QED
      BY <3>1, <3>2 DEF Holders, IInv, OneServed
  <2>3. \A d \in Clients \ {c} : pending[d] = NoCommand
    BY <2>2 DEF IInv, TypeOK, Holders
  <2>4. Running = {c} /\ Running' = {}
    BY <2>1, <2>3, FinishStep DEF Running
  <2>5. Service!End(c)
    BY <2>2, <2>4 DEF Service!End, Holders, Running
  <2> QED
    BY <2>5 DEF Service!Next
<1>6. CASE End(c)
  <2>1. Holders = {c} /\ Holders' = {} /\ Running = {} /\ Running' = Running
    BY <1>6, EndStep DEF Holders, Running
  <2>2. Service!Leave(c)
    BY <2>1 DEF Service!Leave, Holders, Running
  <2> QED
    BY <2>2 DEF Service!Next
<1> QED
  BY <1>1, <1>2, <1>3, <1>4, <1>5, <1>6 DEF Loop

\* Session.run and _loop implement BridgeService for every set of clients: one
\* client at a time, one command at a time, no hand-over while one runs.
THEOREM SessionsImplementService == Spec => ImplementsService
<1>1. Init => Service!Init
  BY ServiceInit
<1>2. IInv /\ [Next]_vars => [Service!Next]_<<Holders, Running>>
  <2>1. UNCHANGED vars => Holders' = Holders /\ Running' = Running
    BY DEF vars, client, bridge, Holders, Running, Served
  <2> QED
    BY <2>1, ServiceNext
<1> QED
  BY <1>1, <1>2, Inductive, PTL DEF Spec, ImplementsService, Service!Spec, Holders, Running
-----------------------------------------------------------------------------
(* The replies.  A client that waits for its replies has at most one        *)
(* command on the way, running, or answered: its last.                      *)

\* Where the commands it sent and the answers to them lie.
Sent(c) == {i \in 1 .. Len(up[c]) : up[c][i] # ABORT /\ session[c] # "done"}
Answers(c) == {i \in 1 .. Len(down[c]) : down[c][i] # ACK /\ down[c][i].n # 0}

\* A client that awaits nothing has nothing on the way but aborts.
FreeInv(c) ==
  at[c] \in {"out", "in", "aborting"} =>
    pending[c] = NoCommand /\ Sent(c) = {} /\ Answers(c) = {}

\* A client that awaits a reply: an abort behind its command or beside it was
\* sent for this command.
WaitInv(c) ==
  at[c] = "calling" =>
    /\ pending[c] # NoCommand =>
         /\ pending[c].n = call[c] /\ Sent(c) = {} /\ Answers(c) = {}
         /\ flag[c] \/ up[c] # <<>> => call[c] \in asked[c]
    /\ \A i \in Sent(c) :
         /\ up[c][i].n = call[c] /\ Sent(c) = {i} /\ Answers(c) = {}
         /\ i < Len(up[c]) => call[c] \in asked[c]
    /\ \A i \in Answers(c) : down[c][i].n = call[c] /\ Answers(c) = {i}

\* A command answered cancelled was cancelled by its client.
LastInv(c) ==
  /\ at[c] = "in" /\ last[c].n # 0 => last[c].n = call[c]
  /\ last[c].result = "cancelled" => last[c].n \in asked[c]
  /\ at[c] # "gone" => \A i \in 1 .. Len(down[c]) :
       down[c][i] # ACK /\ down[c][i].result = "cancelled" => down[c][i].n \in asked[c]

\* Without a connection nothing is on the way; only a refused client is told
\* so without a number, and it is told nothing else.
EndsInv(c) ==
  /\ at[c] = "out" => up[c] = <<>> /\ down[c] = <<>> /\ last[c].n = 0
  /\ session[c] = "draining" => at[c] = "gone"
  /\ \A i \in 1 .. Len(down[c]) :
       down[c][i] # ACK /\ down[c][i].n = 0 => session[c] = "done"
  /\ session[c] \in {"starting", "done"} /\ at[c] # "gone" => Answers(c) = {}

PoliteInv(c) == EndsInv(c) /\ FreeInv(c) /\ WaitInv(c) /\ LastInv(c)

LEMMA Distinct ==
  /\ ABORT \notin Commands /\ ACK \notin Replies
  /\ \A m \in Commands : m.n # 0
BY SessionAssumption DEF ABORT, ACK, Commands, Replies

LEMMA PoliteInit == ASSUME Init, NEW c \in Clients PROVE PoliteInv(c)
<1>1. /\ at[c] = "out" /\ call[c] = 0 /\ last[c] = [n |-> 0, result |-> "ok"]
      /\ up[c] = <<>> /\ down[c] = <<>> /\ session[c] = "none" /\ pending[c] = NoCommand
  BY DEF Init
<1>2. Sent(c) = {} /\ Answers(c) = {}
  BY <1>1 DEF Sent, Answers
<1> QED
  BY <1>1, <1>2 DEF PoliteInv, EndsInv, FreeInv, WaitInv, LastInv

\* What another client's step leaves alone.
LEMMA PoliteSame ==
  ASSUME NEW c \in Clients, PoliteInv(c),
         at'[c] = at[c], call'[c] = call[c], asked'[c] = asked[c], last'[c] = last[c],
         up'[c] = up[c], down'[c] = down[c], session'[c] = session[c],
         pending'[c] = pending[c], flag'[c] = flag[c]
  PROVE  PoliteInv(c)'
BY DEF PoliteInv, EndsInv, FreeInv, WaitInv, LastInv, Sent, Answers

\* The types of what belongs to one client.
LEMMA OwnTypes ==
  ASSUME IInv, NEW c \in Clients
  PROVE  /\ up[c] \in Seq(Commands \cup {ABORT}) /\ down[c] \in Seq(Replies \cup {ACK})
         /\ call[c] \in 0 .. MaxCalls /\ asked[c] \subseteq 0 .. MaxCalls
         /\ pending[c] \in Commands \cup {NoCommand}
         /\ pending[c] # NoCommand => session[c] \in {"serving", "draining"}
         /\ last[c] \in Replies /\ flag[c] \in BOOLEAN
BY DEF IInv, TypeOK, Served

LEMMA PoliteSend ==
  ASSUME IInv, NEW c \in Clients \ Rude, PoliteInv(c), Send(c)
  PROVE  PoliteInv(c)'
<1>1. /\ at[c] = "in" /\ at'[c] = "calling" /\ call'[c] = call[c] + 1
      /\ UNCHANGED <<asked, last, down, session, pending, flag>>
      /\ \E k \in Kinds : up'[c] = Append(up[c], [n |-> call'[c], kind |-> k])
  BY DEF Send, IInv, TypeOK, Set, bridge
<1>2. PICK k \in Kinds : up'[c] = Append(up[c], [n |-> call'[c], kind |-> k])
  BY <1>1
<1>3. pending[c] = NoCommand /\ Sent(c) = {} /\ Answers(c) = {}
  BY <1>1 DEF PoliteInv, FreeInv
<1>4. Answers(c)' = {}
  BY <1>1, <1>3 DEF Answers
<1>5. up'[c][Len(up[c]) + 1].n = call'[c] /\ Len(up'[c]) = Len(up[c]) + 1
  BY <1>2, OwnTypes
<1>6. \A i \in Sent(c)' : i = Len(up[c]) + 1
  BY <1>1, <1>2, <1>3, OwnTypes DEF Sent
<1>7. WaitInv(c)'
  BY <1>1, <1>3, <1>4, <1>5, <1>6 DEF WaitInv
<1> QED
  BY <1>1, <1>4, <1>7 DEF PoliteInv, EndsInv, FreeInv, LastInv

\* An abort is not a command, and while a command is on the way it is for it.
LEMMA PoliteAbort ==
  ASSUME IInv, NEW c \in Clients \ Rude, PoliteInv(c), SendAbort(c) \/ CallAbort(c)
  PROVE  PoliteInv(c)'
<1>1. /\ up'[c] = Append(up[c], ABORT) /\ asked[c] \subseteq asked'[c]
      /\ UNCHANGED <<call, last, down, session, pending, flag>>
      /\ \/ at[c] = "calling" /\ at' = at /\ call[c] \in asked'[c]
         \/ at[c] = "in" /\ at'[c] = "aborting"
  BY DEF SendAbort, CallAbort, IInv, TypeOK, Set, bridge
<1>2. Answers(c)' = Answers(c)
  BY <1>1 DEF Answers
<1>3. Sent(c)' = Sent(c) /\ \A i \in Sent(c) : up'[c][i] = up[c][i]
  BY <1>1, OwnTypes DEF Sent
<1>4. FreeInv(c)' /\ WaitInv(c)'
  BY <1>1, <1>2, <1>3 DEF PoliteInv, FreeInv, WaitInv
<1> QED
  BY <1>1, <1>2, <1>4 DEF PoliteInv, EndsInv, LastInv

LEMMA PoliteRead ==
  ASSUME IInv, NEW c \in Clients \ Rude, PoliteInv(c), Read(c)
  PROVE  PoliteInv(c)'
<1> DEFINE m == Head(down[c])
<1>1. /\ at[c] \in {"calling", "aborting"} /\ down[c] # <<>>
      /\ down'[c] = Tail(down[c])
      /\ UNCHANGED <<call, asked, up, session, pending, flag>>
      /\ \/ m = ACK /\ at' = at /\ last' = last
         \/ m # ACK /\ at'[c] = "in" /\ last'[c] = m
  BY DEF Read, IInv, TypeOK, Set, bridge, Skips, ReplyTo
<1>2. /\ m = down[c][1] /\ Len(down'[c]) = Len(down[c]) - 1
      /\ Len(down[c]) \in Nat \ {0}
      /\ \A i \in 1 .. Len(down'[c]) : down'[c][i] = down[c][i + 1]
  BY <1>1, OwnTypes
<1>3. \A i \in Answers(c)' : i + 1 \in Answers(c) /\ down'[c][i] = down[c][i + 1]
  BY <1>2 DEF Answers
<1>4. Sent(c)' = Sent(c)
  BY <1>1 DEF Sent
<1>5. EndsInv(c)'
  BY <1>1, <1>2, <1>3 DEF PoliteInv, EndsInv
<1>6. LastInv(c)'
  <2>1. at'[c] = "in" /\ last'[c].n # 0 => last'[c].n = call[c]
    BY <1>1, <1>2 DEF PoliteInv, FreeInv, WaitInv, Answers
  <2> QED
    BY <1>1, <1>2, <2>1 DEF PoliteInv, LastInv
<1>7. CASE m = ACK
  <2>1. Answers(c) = {} => Answers(c)' = {}
    BY <1>3
  <2>2. \A i, j \in Nat : i + 1 = j + 1 => i = j
    OBVIOUS
  <2>3. \A i \in Answers(c)' : \A j \in Answers(c)' : Answers(c) = {i + 1} => j = i
    BY <1>3, <2>2, SMTT(30) DEF Answers
  <2>4. at'[c] = at[c] /\ UNCHANGED <<call, asked, up, session, pending, flag>>
    BY <1>1, <1>7
  <2>5. FreeInv(c)'
    BY <1>4, <2>1, <2>4 DEF PoliteInv, FreeInv
  <2>6. ASSUME at[c] = "calling", NEW i \in Answers(c)'
        PROVE  down'[c][i].n = call[c] /\ Answers(c)' = {i}
    BY <1>3, <2>3, <2>6 DEF PoliteInv, WaitInv
  <2>7. WaitInv(c)'
    BY <1>4, <2>1, <2>4, <2>6 DEF PoliteInv, WaitInv
  <2> QED
    BY <1>5, <1>6, <2>5, <2>7 DEF PoliteInv
<1>8. CASE m # ACK
  <2>1. at'[c] = "in"
    BY <1>1, <1>8
  <2>2. CASE m.n = 0
    <3>1. session[c] = "done"
      BY <1>2, <1>8, <2>2 DEF PoliteInv, EndsInv
    <3>2. pending[c] = NoCommand /\ Answers(c) = {} /\ Sent(c) = {}
      BY <1>1, <3>1, OwnTypes DEF PoliteInv, EndsInv, Sent
    <3> QED
      BY <1>1, <1>3, <1>4, <1>5, <1>6, <2>1, <3>2 DEF PoliteInv, FreeInv, WaitInv
  <2>3. CASE m.n # 0
    <3>1. 1 \in Answers(c)
      BY <1>2, <1>8, <2>3 DEF Answers
    <3>2. at[c] = "calling"
      BY <1>1, <3>1 DEF PoliteInv, FreeInv
    <3>3. Answers(c) = {1} /\ pending[c] = NoCommand /\ Sent(c) = {}
      BY <3>1, <3>2 DEF PoliteInv, WaitInv
    <3>4. Answers(c)' = {}
      BY <1>3, <3>3, SMTT(30) DEF Answers
    <3> QED
      BY <1>1, <1>4, <1>5, <1>6, <2>1, <3>3, <3>4 DEF PoliteInv, FreeInv, WaitInv
  <2> QED
    BY <2>2, <2>3
<1> QED
  BY <1>7, <1>8

\* Connecting, leaving and being forgotten.
LEMMA PoliteMoves ==
  ASSUME IInv, NEW c \in Clients, PoliteInv(c), Connect(c) \/ Leave(c) \/ Closed(c) \/ Forget(c)
  PROVE  PoliteInv(c)'
<1>1. CASE Connect(c)
  <2>1. /\ at[c] = "out" /\ at'[c] = "in" /\ session'[c] = "starting"
        /\ UNCHANGED <<call, asked, last, up, down, pending, flag>>
    BY <1>1 DEF Connect, IInv, TypeOK, Set
  <2>2. up[c] = <<>> /\ down[c] = <<>> /\ last[c].n = 0 /\ pending[c] = NoCommand
    BY <2>1 DEF PoliteInv, EndsInv, FreeInv
  <2>3. Sent(c)' = {} /\ Answers(c)' = {}
    BY <2>1, <2>2 DEF Sent, Answers
  <2> QED
    BY <2>1, <2>2, <2>3 DEF PoliteInv, EndsInv, FreeInv, WaitInv, LastInv
<1>2. CASE Leave(c) \/ Closed(c)
  <2>1. at'[c] = "gone" /\ UNCHANGED <<call, asked, last, up, down, session, pending, flag>>
    BY <1>2 DEF Leave, Closed, IInv, TypeOK, Set, bridge
  <2> QED
    BY <2>1 DEF PoliteInv, EndsInv, FreeInv, WaitInv, LastInv
<1>3. CASE Forget(c)
  <2>1. /\ at'[c] = "out" /\ session[c] = "done" /\ session'[c] = "none"
        /\ up'[c] = <<>> /\ down'[c] = <<>> /\ last'[c] = [n |-> 0, result |-> "ok"]
        /\ UNCHANGED <<call, asked, pending>>
    BY <1>3 DEF Forget, IInv, TypeOK, Set
  <2>2. Sent(c)' = {} /\ Answers(c)' = {} /\ pending[c] = NoCommand
    BY <2>1, OwnTypes DEF Sent, Answers
  <2> QED
    BY <2>1, <2>2 DEF PoliteInv, EndsInv, FreeInv, WaitInv, LastInv
<1> QED
  BY <1>1, <1>2, <1>3

LEMMA PoliteRefuse ==
  ASSUME IInv, NEW c \in Clients, PoliteInv(c), Refuse(c)
  PROVE  PoliteInv(c)'
<1> DEFINE refusal == [n |-> 0, result |-> "refused"]
<1>1. /\ session[c] = "starting" /\ session'[c] = "done"
      /\ down'[c] = Append(down[c], refusal)
      /\ UNCHANGED <<at, call, asked, last, up, pending, flag>>
  BY DEF Refuse, IInv, TypeOK, Set, Tell, client
<1>2. \A i \in 1 .. Len(down'[c]) :
        down'[c][i] = IF i = Len(down[c]) + 1 THEN refusal ELSE down[c][i]
  BY <1>1, OwnTypes
<1>3. Answers(c)' = Answers(c)
  BY <1>1, <1>2, OwnTypes DEF Answers
<1>4. Sent(c)' = {} /\ pending[c] = NoCommand
  BY <1>1, OwnTypes DEF Sent
<1> HIDE DEF refusal
<1>5. at[c] # "out"
  BY <1>1 DEF IInv, OutIsNone
<1>6. EndsInv(c)' /\ FreeInv(c)'
  BY <1>1, <1>3, <1>4, <1>5 DEF PoliteInv, EndsInv, FreeInv
<1>7. CASE at[c] = "gone"
  BY <1>1, <1>6, <1>7 DEF PoliteInv, WaitInv, LastInv
<1>8. CASE at[c] # "gone"
  <2>1. Answers(c) = {}
    BY <1>1, <1>8 DEF PoliteInv, EndsInv
  <2>2. WaitInv(c)'
    BY <1>1, <1>3, <1>4, <2>1 DEF WaitInv
  <2>3. LastInv(c)'
    <3>1. refusal.result # "cancelled"
      BY DEF refusal
    <3>2. \A i \in 1 .. Len(down'[c]) : i = Len(down[c]) + 1 \/ i \in 1 .. Len(down[c])
      BY <1>1, OwnTypes
    <3> QED
      BY <1>1, <1>2, <3>1, <3>2 DEF PoliteInv, LastInv
  <2> QED
    BY <1>6, <2>2, <2>3 DEF PoliteInv
<1> QED
  BY <1>7, <1>8

LEMMA PoliteAdmit ==
  ASSUME IInv, NEW c \in Clients, PoliteInv(c), Admit(c)
  PROVE  PoliteInv(c)'
<1>1. /\ session[c] = "starting" /\ session'[c] = "serving"
      /\ UNCHANGED <<at, call, asked, last, up, down, pending, flag>>
  BY DEF Admit, IInv, TypeOK, Set, client
<1>2. Sent(c)' = Sent(c) /\ Answers(c)' = Answers(c)
  BY <1>1 DEF Sent, Answers
<1> QED
  BY <1>1, <1>2 DEF PoliteInv, EndsInv, FreeInv, WaitInv, LastInv

\* What a session has read is off the queue.
LEMMA DropHead ==
  ASSUME IInv, NEW c \in Clients, Reading(c), Drop(c), session' = session
  PROVE  /\ Head(up[c]) = up[c][1] /\ Len(up[c]) \in Nat \ {0}
         /\ Len(up'[c]) = Len(up[c]) - 1
         /\ \A i \in Sent(c)' : i + 1 \in Sent(c) /\ up'[c][i] = up[c][i + 1]
         /\ up'[c] # <<>> => 1 < Len(up[c])
         /\ Head(up[c]) # ABORT => 1 \in Sent(c)
<1>1. up[c] \in Seq(Commands \cup {ABORT}) /\ up[c] # <<>> /\ up'[c] = Tail(up[c])
      /\ session[c] = "serving"
  BY DEF Reading, Drop, Set, IInv, TypeOK
<1> QED
  BY <1>1 DEF Sent

LEMMA PoliteTakeAbort ==
  ASSUME IInv, NEW c \in Clients, PoliteInv(c), TakeAbort(c)
  PROVE  PoliteInv(c)'
<1>1. /\ up[c] # <<>> /\ flag'[c] = TRUE /\ down'[c] = Append(down[c], ACK)
      /\ UNCHANGED <<at, call, asked, last, session, pending>>
  BY DEF TakeAbort, Reading, IInv, TypeOK, Set, Tell, client
<1>2. \A i \in 1 .. Len(down'[c]) :
        (i \in 1 .. Len(down[c]) /\ down'[c][i] = down[c][i]) \/ down'[c][i] = ACK
  BY <1>1, OwnTypes
<1>3. Answers(c)' = Answers(c) /\ \A i \in Answers(c) : down'[c][i] = down[c][i]
  BY <1>1, OwnTypes DEF Answers
<1>4. /\ Len(up[c]) \in Nat \ {0} /\ Len(up'[c]) = Len(up[c]) - 1
      /\ \A i \in Sent(c)' : i + 1 \in Sent(c) /\ up'[c][i] = up[c][i + 1]
  BY <1>1, DropHead DEF TakeAbort
<1>5. /\ Sent(c) = {} => Sent(c)' = {}
      /\ \A i \in Sent(c)' : Sent(c) = {i + 1} => Sent(c)' = {i}
  <2>1. \A i \in Sent(c)' : i \in Nat
    BY DEF Sent
  <2>2. \A i, j \in Sent(c)' : i + 1 = j + 1 => i = j
    BY <2>1
  <2>3. ASSUME NEW i \in Sent(c)', Sent(c) = {i + 1} PROVE Sent(c)' = {i}
    BY <1>4, <2>2, <2>3
  <2> QED
    BY <1>4, <2>3
<1>6. EndsInv(c)' /\ LastInv(c)'
  BY <1>1, <1>2, <1>3 DEF PoliteInv, EndsInv, LastInv, TakeAbort, Reading
<1>7. FreeInv(c)'
  BY <1>1, <1>3, <1>5 DEF PoliteInv, FreeInv
<1>8. ASSUME at[c] = "calling" PROVE WaitInv(c)'
  <2>1. \A i \in Sent(c)' : /\ up'[c][i].n = call[c] /\ Sent(c)' = {i} /\ Answers(c) = {}
                            /\ i < Len(up'[c]) => call[c] \in asked[c]
    BY <1>4, <1>5, <1>8, SMTT(30) DEF PoliteInv, WaitInv, Sent
  <2> QED
    BY <1>1, <1>3, <1>5, <1>8, <2>1 DEF PoliteInv, WaitInv
<1>9. WaitInv(c)'
  BY <1>1, <1>8 DEF WaitInv
<1> QED
  BY <1>6, <1>7, <1>9 DEF PoliteInv

LEMMA PoliteTakeCommand ==
  ASSUME IInv, NEW c \in Clients, PoliteInv(c), TakeCommand(c)
  PROVE  PoliteInv(c)'
<1>1. /\ Head(up[c]) # ABORT /\ pending'[c] = Head(up[c]) /\ flag'[c] = FALSE
      /\ session[c] = "serving"
      /\ UNCHANGED <<at, call, asked, last, session, down>>
  BY DEF TakeCommand, Reading, IInv, TypeOK, Set, client
<1>2. /\ Head(up[c]) = up[c][1] /\ 1 \in Sent(c)
      /\ \A i \in Sent(c)' : i + 1 \in Sent(c)
      /\ up'[c] # <<>> => 1 < Len(up[c])
  BY <1>1, DropHead DEF TakeCommand
<1>3. Answers(c)' = Answers(c)
  BY <1>1 DEF Answers
<1>4. EndsInv(c)' /\ LastInv(c)'
  BY <1>1, <1>3, <1>2 DEF PoliteInv, EndsInv, LastInv
<1>5. FreeInv(c)'
  BY <1>1, <1>2 DEF PoliteInv, FreeInv
<1>6. ASSUME at[c] = "calling" PROVE WaitInv(c)'
  <2>1. up[c][1].n = call[c] /\ Sent(c) = {1} /\ Answers(c) = {}
        /\ (1 < Len(up[c]) => call[c] \in asked[c])
    BY <1>2, <1>6 DEF PoliteInv, WaitInv
  <2>2. Sent(c)' = {}
    BY <1>2, <2>1, SMTT(30) DEF Sent
  <2> QED
    BY <1>1, <1>2, <1>3, <2>1, <2>2 DEF WaitInv
<1>7. WaitInv(c)'
  BY <1>1, <1>6 DEF WaitInv
<1> QED
  BY <1>4, <1>5, <1>7 DEF PoliteInv

\* A client that waits for its replies is never rejected; one that is gone
\* does not read it.
LEMMA PoliteReject ==
  ASSUME IInv, NEW c \in Clients, PoliteInv(c), RejectCommand(c)
  PROVE  PoliteInv(c)'
<1>1. /\ pending[c] # NoCommand /\ session[c] = "serving"
      /\ Head(up[c]) # ABORT /\ up[c] # <<>>
      /\ down'[c] = Append(down[c], [n |-> Head(up[c]).n, result |-> "refused"])
      /\ UNCHANGED <<at, call, asked, last, session, pending, flag>>
  BY DEF RejectCommand, Reading, IInv, TypeOK, Set, Tell, client, bridge
<1>2. 1 \in Sent(c) /\ Head(up[c]) = up[c][1]
  BY <1>1, DropHead DEF RejectCommand, bridge
<1>3. at[c] = "gone"
  BY <1>1, <1>2 DEF PoliteInv, FreeInv, WaitInv, IInv, TypeOK
<1>4. Head(up[c]).n # 0
  <2>1. Head(up[c]) \in Commands
    BY <1>1, OwnTypes, Messages, Queue
  <2> QED
    BY <2>1, Distinct
<1>5. \A i \in 1 .. Len(down'[c]) :
        down'[c][i] = IF i = Len(down[c]) + 1
                      THEN [n |-> Head(up[c]).n, result |-> "refused"] ELSE down[c][i]
  BY <1>1, OwnTypes
<1>6. \A i \in 1 .. Len(down'[c]) : i \in 1 .. Len(down[c]) \/ i = Len(down[c]) + 1
  BY <1>1, OwnTypes
<1>7. EndsInv(c)'
  BY <1>1, <1>3, <1>4, <1>5, <1>6 DEF PoliteInv, EndsInv
<1> QED
  BY <1>1, <1>3, <1>7 DEF PoliteInv, FreeInv, WaitInv, LastInv

\* A command nobody knows is answered as one that ends at once.
LEMMA PoliteUnknown ==
  ASSUME IInv, NEW c \in Clients, PoliteInv(c), UnknownCommand(c)
  PROVE  PoliteInv(c)'
<1> DEFINE m == [n |-> Head(up[c]).n, result |-> "refused"]
<1>1. /\ pending[c] = NoCommand /\ session[c] = "serving" /\ Reading(c) /\ Drop(c)
      /\ Head(up[c]) # ABORT /\ up[c] # <<>>
      /\ down'[c] = Append(down[c], m)
      /\ UNCHANGED <<at, call, asked, last, session, pending, flag>>
  BY DEF UnknownCommand, Reading, Quick, IInv, TypeOK, Set, Tell, client, bridge
<1>2. /\ Head(up[c]) = up[c][1] /\ 1 \in Sent(c)
      /\ \A i \in Sent(c)' : i + 1 \in Sent(c)
  BY <1>1, DropHead
<1>3. m # ACK /\ m.n = Head(up[c]).n /\ m.n # 0 /\ m.result = "refused"
  <2>1. Head(up[c]) \in Commands
    BY <1>1, OwnTypes, Messages, Queue
  <2> QED
    BY <2>1, Distinct DEF ACK
<1>4. /\ Len(down'[c]) = Len(down[c]) + 1 /\ Len(down[c]) \in Nat
      /\ \A i \in 1 .. Len(down'[c]) :
           \/ i \in 1 .. Len(down[c]) /\ down'[c][i] = down[c][i]
           \/ i = Len(down[c]) + 1 /\ down'[c][i] = m
  <2> HIDE DEF m
  <2> QED
    BY <1>1, <1>3, OwnTypes
<1> HIDE DEF m
<1>5. at[c] \in {"calling", "gone"}
  BY <1>2 DEF PoliteInv, FreeInv, IInv, TypeOK
<1>6. EndsInv(c)'
  BY <1>1, <1>3, <1>4, <1>5 DEF PoliteInv, EndsInv
<1>7. CASE at[c] = "gone"
  BY <1>1, <1>6, <1>7 DEF PoliteInv, FreeInv, WaitInv, LastInv
<1>8. CASE at[c] = "calling"
  <2>1. up[c][1].n = call[c] /\ Sent(c) = {1} /\ Answers(c) = {}
    BY <1>2, <1>8 DEF PoliteInv, WaitInv
  <2>2. Sent(c)' = {}
    BY <1>2, <2>1, SMTT(30) DEF Sent
  <2>3. \A i \in Answers(c)' : i = Len(down[c]) + 1 /\ down'[c][i] = m
    BY <1>4, <2>1 DEF Answers
  <2>4. WaitInv(c)'
    BY <1>1, <1>2, <1>3, <1>8, <2>1, <2>2, <2>3 DEF WaitInv
  <2>5. LastInv(c)'
    BY <1>1, <1>3, <1>4, <1>8 DEF PoliteInv, LastInv
  <2> QED
    BY <1>1, <1>6, <1>8, <2>4, <2>5 DEF PoliteInv, FreeInv
<1> QED
  BY <1>5, <1>7, <1>8

LEMMA PoliteFinish ==
  ASSUME IInv, NEW c \in Clients, PoliteInv(c), NEW r \in {"ok", "cancelled"}, Finish(c, r)
  PROVE  PoliteInv(c)'
<1> DEFINE m == [n |-> pending[c].n, result |-> r]
<1>1. /\ pending[c] # NoCommand /\ pending'[c] = NoCommand /\ (r = "cancelled" => flag[c])
      /\ down'[c] = Append(down[c], m)
      /\ UNCHANGED <<at, call, asked, last, up, session, flag>>
  BY DEF Finish, IInv, TypeOK, Set, Tell, client
<1>2. m # ACK /\ m.n = pending[c].n /\ m.n # 0 /\ m.result = r
      /\ session[c] \in {"serving", "draining"}
  BY <1>1, OwnTypes, Distinct DEF ACK
<1>3. /\ Len(down'[c]) = Len(down[c]) + 1 /\ Len(down[c]) \in Nat
      /\ \A i \in 1 .. Len(down'[c]) :
           \/ i \in 1 .. Len(down[c]) /\ down'[c][i] = down[c][i]
           \/ i = Len(down[c]) + 1 /\ down'[c][i] = m
  <2> HIDE DEF m
  <2> QED
    BY <1>1, <1>2, OwnTypes
<1> HIDE DEF m
<1>4. at[c] \in {"calling", "gone"}
  BY <1>1 DEF PoliteInv, FreeInv, IInv, TypeOK
<1>5. EndsInv(c)'
  BY <1>1, <1>2, <1>3, <1>4 DEF PoliteInv, EndsInv
<1>6. CASE at[c] = "gone"
  BY <1>1, <1>5, <1>6 DEF PoliteInv, FreeInv, WaitInv, LastInv
<1>7. CASE at[c] = "calling"
  <2>1. pending[c].n = call[c] /\ Sent(c) = {} /\ Answers(c) = {}
        /\ (flag[c] => call[c] \in asked[c])
    BY <1>1, <1>7 DEF PoliteInv, WaitInv
  <2>2. Sent(c)' = {}
    BY <1>1, <2>1 DEF Sent
  <2>3. \A i \in Answers(c)' : i = Len(down[c]) + 1 /\ down'[c][i] = m
    BY <1>3, <2>1 DEF Answers
  <2>4. WaitInv(c)'
    BY <1>1, <1>2, <1>7, <2>1, <2>2, <2>3 DEF WaitInv
  <2>5. LastInv(c)'
    BY <1>1, <1>2, <1>3, <1>7, <2>1 DEF PoliteInv, LastInv
  <2> QED
    BY <1>1, <1>5, <1>7, <2>4, <2>5 DEF PoliteInv, FreeInv
<1> QED
  BY <1>4, <1>6, <1>7

\* The end of a session is met when its client is gone.
LEMMA PoliteOver ==
  ASSUME IInv, NEW c \in Clients, PoliteInv(c), Eof(c) \/ End(c)
  PROVE  PoliteInv(c)'
<1>1. /\ at[c] = "gone" /\ session'[c] \in {"draining", "done"}
      /\ session[c] \notin {"starting", "done"}
      /\ UNCHANGED <<at, call, asked, last, up, down>>
  BY DEF Eof, End, PoliteInv, EndsInv, IInv, TypeOK, Set, client
<1> QED
  BY <1>1 DEF PoliteInv, EndsInv, FreeInv, WaitInv, LastInv
-----------------------------------------------------------------------------
\* A step of a client or its session leaves the others alone.
LEMMA OthersKept ==
  ASSUME IInv, NEW c \in Clients, NEW d \in Clients, c # d,
         \/ User(c) \/ Read(c) \/ Closed(c)
         \/ Refuse(c) \/ Admit(c) \/ Loop(c) \/ Finishes(c) \/ End(c)
  PROVE  /\ at'[d] = at[d] /\ call'[d] = call[d] /\ asked'[d] = asked[d]
         /\ last'[d] = last[d] /\ up'[d] = up[d] /\ down'[d] = down[d]
         /\ session'[d] = session[d] /\ pending'[d] = pending[d] /\ flag'[d] = flag[d]
<1> USE DEF IInv, TypeOK, Set, Tell, Drop, client, bridge
<1>1. CASE User(c) \/ Closed(c)
  BY <1>1 DEF User, Connect, Send, SendAbort, CallAbort, Leave, Forget, Closed
<1>2. CASE Read(c)
  BY <1>2 DEF Read
<1>3. CASE Refuse(c) \/ Admit(c) \/ End(c)
  BY <1>3 DEF Refuse, Admit, End
<1>4. CASE Loop(c)
  BY <1>4 DEF Loop, TakeAbort, TakeCommand, UnknownCommand, RejectCommand, ProtocolError, Eof
<1>5. CASE Finishes(c)
  BY <1>5 DEF Finishes, Finish
<1> QED
  BY <1>1, <1>2, <1>3, <1>4, <1>5

AllPolite == \A c \in Clients \ Rude : PoliteInv(c)

LEMMA PoliteNext == IInv /\ AllPolite /\ [Next]_vars => AllPolite'
<1> SUFFICES ASSUME IInv, AllPolite, [Next]_vars, NEW d \in Clients \ Rude
             PROVE  PoliteInv(d)'
  BY DEF AllPolite
<1>1. PoliteInv(d)
  BY DEF AllPolite
<1>2. CASE UNCHANGED vars
  BY <1>1, <1>2, PoliteSame DEF vars, client, bridge
<1>3. ASSUME NEW c \in Clients,
             \/ User(c) \/ Read(c) \/ Closed(c)
             \/ Refuse(c) \/ Admit(c) \/ Loop(c) \/ Finishes(c) \/ End(c)
      PROVE  PoliteInv(d)'
  <2>1. CASE c # d
    BY <1>1, <1>3, <2>1, OthersKept, PoliteSame
  <2>2. CASE c = d
    <3>1. \/ User(d) \/ Read(d) \/ Closed(d) \/ Refuse(d) \/ Admit(d) \/ Loop(d)
          \/ Finishes(d) \/ End(d)
      BY <1>3, <2>2
    <3>2. CASE User(d) \/ Read(d) \/ Closed(d)
      BY <1>1, <3>2, PoliteSend, PoliteAbort, PoliteMoves, PoliteRead DEF User
    <3>3. CASE Refuse(d) \/ Admit(d) \/ End(d)
      BY <1>1, <3>3, PoliteRefuse, PoliteAdmit, PoliteOver
    <3>4. CASE Loop(d)
      BY <1>1, <3>4, PoliteTakeAbort, PoliteTakeCommand, PoliteUnknown, PoliteReject,
         PoliteOver DEF Loop, ProtocolError
    <3>5. CASE Finishes(d)
      BY <1>1, <3>5, PoliteFinish DEF Finishes
    <3> QED
      BY <3>1, <3>2, <3>3, <3>4, <3>5
  <2> QED
    BY <2>1, <2>2
<1> QED
  BY <1>2, <1>3 DEF Next

LEMMA AlwaysPolite == Spec => []AllPolite
<1>1. Init => AllPolite
  BY PoliteInit DEF AllPolite
<1> QED
  BY <1>1, PoliteNext, Inductive, PTL DEF Spec

\* RepliesMatch: a client that waits for its replies gets the reply of the
\* command it sent, whatever aborts, acknowledgements and other clients do.
THEOREM RepliesAreMatched == Spec => []RepliesMatch
<1>1. AllPolite => RepliesMatch
  BY DEF AllPolite, PoliteInv, LastInv, RepliesMatch
<1> QED
  BY <1>1, AlwaysPolite, PTL

\* CancelIsMine: a command that reports cancelled was cancelled by its own
\* client; an abort that came too late never hits the next command.
THEOREM OwnCancelOnly == Spec => []CancelIsMine
<1>1. AllPolite => CancelIsMine
  BY DEF AllPolite, PoliteInv, LastInv, CancelIsMine
<1> QED
  BY <1>1, AlwaysPolite, PTL
-----------------------------------------------------------------------------
(* What a call waits for: the command or its reply has not been lost, and   *)
(* neither has an abort that was sent for it.                               *)

AbortAfter(c, i) == \E j \in 1 .. Len(up[c]) : i < j /\ up[c][j] = ABORT

Awaits(c) == at[c] = "calling" /\ session[c] \in {"starting", "serving"}

\* The command is on the way, runs, or is answered, and an abort for it is
\* behind it or has met it.
WayInv(c) ==
  Awaits(c) =>
    /\ pending[c] # NoCommand \/ Sent(c) # {} \/ Answers(c) # {}
    /\ call[c] \in asked[c] =>
         /\ pending[c] # NoCommand => flag[c] \/ AbortAfter(c, 0)
         /\ \A i \in Sent(c) : AbortAfter(c, i)

\* A command is asked to stop only after it was sent.
OpenInv(c) == (\A n \in asked[c] : n <= call[c]) /\ WayInv(c)

LEMMA OpenSame ==
  ASSUME NEW c \in Clients, OpenInv(c),
         at'[c] = at[c], call'[c] = call[c], asked'[c] = asked[c],
         up'[c] = up[c], down'[c] = down[c], session'[c] = session[c],
         pending'[c] = pending[c], flag'[c] = flag[c]
  PROVE  OpenInv(c)'
BY DEF OpenInv, WayInv, Awaits, AbortAfter, Sent, Answers

\* A client that awaits nothing, or has no session that reads, is owed nothing.
LEMMA OpenLeft ==
  ASSUME NEW c \in Clients, OpenInv(c), call'[c] = call[c], asked'[c] = asked[c], ~Awaits(c)'
  PROVE  OpenInv(c)'
BY DEF OpenInv, WayInv

LEMMA OpenSend ==
  ASSUME IInv, NEW c \in Clients \ Rude, OpenInv(c), Send(c)
  PROVE  OpenInv(c)'
<1>1. /\ call'[c] = call[c] + 1 /\ asked' = asked /\ session' = session
      /\ \E k \in Kinds : up'[c] = Append(up[c], [n |-> call'[c], kind |-> k])
  BY DEF Send, IInv, TypeOK, Set, bridge
<1>2. PICK k \in Kinds : up'[c] = Append(up[c], [n |-> call'[c], kind |-> k])
  BY <1>1
<1>3. call[c] \in Nat /\ \A n \in asked[c] : n \in Nat
  BY OwnTypes, SessionAssumption
<1>4. (\A n \in asked'[c] : n <= call'[c]) /\ call'[c] \notin asked'[c]
  BY <1>1, <1>3 DEF OpenInv
<1>5. Awaits(c)' => Sent(c)' # {}
  <2>1. Len(up'[c]) = Len(up[c]) + 1 /\ Len(up[c]) \in Nat
        /\ up'[c][Len(up[c]) + 1] = [n |-> call'[c], kind |-> k]
    BY <1>2, OwnTypes
  <2>2. up'[c][Len(up[c]) + 1] # ABORT
    BY <2>1 DEF ABORT
  <2>3. Awaits(c)' => Len(up[c]) + 1 \in Sent(c)'
    BY <2>1, <2>2 DEF Sent, Awaits
  <2> QED
    BY <2>3
<1> QED
  BY <1>4, <1>5 DEF OpenInv, WayInv

LEMMA OpenAbort ==
  ASSUME IInv, NEW c \in Clients \ Rude, OpenInv(c), SendAbort(c)
  PROVE  OpenInv(c)'
<1>1. /\ at[c] = "calling" /\ asked'[c] = asked[c] \cup {call[c]}
      /\ up'[c] = Append(up[c], ABORT)
      /\ UNCHANGED <<at, call, last, down, session, pending, flag>>
  BY DEF SendAbort, IInv, TypeOK, Set, bridge
<1>2. /\ Len(up'[c]) = Len(up[c]) + 1 /\ Len(up[c]) \in Nat /\ up'[c][Len(up'[c])] = ABORT
      /\ \A i \in 1 .. Len(up[c]) : up'[c][i] = up[c][i]
  BY <1>1, OwnTypes
<1>3. Sent(c)' = Sent(c) /\ Answers(c)' = Answers(c)
  BY <1>1, <1>2 DEF Sent, Answers
<1>4. AbortAfter(c, 0)' /\ \A i \in Sent(c)' : AbortAfter(c, i)'
  BY <1>2, <1>3 DEF AbortAfter, Sent
<1>5. \A n \in asked'[c] : n <= call'[c]
  BY <1>1, OwnTypes, SessionAssumption DEF OpenInv
<1> QED
  BY <1>1, <1>3, <1>4, <1>5 DEF OpenInv, WayInv, Awaits

LEMMA OpenRead ==
  ASSUME IInv, NEW c \in Clients \ Rude, OpenInv(c), Read(c)
  PROVE  OpenInv(c)'
<1> DEFINE m == Head(down[c])
<1>1. /\ down[c] # <<>> /\ down'[c] = Tail(down[c])
      /\ UNCHANGED <<call, asked, up, session, pending, flag>>
      /\ (m = ACK /\ at' = at) \/ at'[c] = "in"
  BY DEF Read, IInv, TypeOK, Set, bridge, Skips
<1>2. CASE at'[c] = "in"
  BY <1>1, <1>2, OpenLeft DEF Awaits
<1>3. CASE m = ACK /\ at' = at
  <2>1. Sent(c)' = Sent(c)
    BY <1>1 DEF Sent
  <2>2. /\ down[c][1] = ACK /\ Len(down'[c]) = Len(down[c]) - 1 /\ Len(down[c]) \in Nat
        /\ \A i \in 1 .. Len(down'[c]) : down'[c][i] = down[c][i + 1]
    BY <1>1, <1>3, OwnTypes
  <2>3. \A i \in Answers(c) : i - 1 \in Answers(c)'
    BY <2>2 DEF Answers
  <2>4. Answers(c) # {} => Answers(c)' # {}
    BY <2>3
  <2> QED
    BY <1>1, <1>3, <2>1, <2>4 DEF OpenInv, WayInv, Awaits, AbortAfter
<1> QED
  BY <1>1, <1>2, <1>3

LEMMA OpenMoves ==
  ASSUME IInv, NEW c \in Clients \ Rude, OpenInv(c), PoliteInv(c),
         \/ Connect(c) \/ CallAbort(c) \/ Leave(c) \/ Closed(c) \/ Forget(c)
         \/ Refuse(c) \/ Eof(c) \/ End(c)
  PROVE  OpenInv(c)'
<1>1. call' = call /\ asked' = asked
  BY DEF Connect, CallAbort, Leave, Closed, Forget, Refuse, Eof, End, client
<1>2. ~Awaits(c)'
  BY DEF Connect, CallAbort, Leave, Closed, Forget, Refuse, Eof, End, client, bridge,
         Awaits, Set, IInv, TypeOK
<1> QED
  BY <1>1, <1>2, OpenLeft

LEMMA OpenAdmit ==
  ASSUME IInv, NEW c \in Clients, OpenInv(c), Admit(c)
  PROVE  OpenInv(c)'
<1>1. /\ session[c] = "starting" /\ session'[c] = "serving"
      /\ UNCHANGED <<at, call, asked, up, down, pending, flag>>
  BY DEF Admit, IInv, TypeOK, Set, client
<1>2. Sent(c)' = Sent(c) /\ Answers(c)' = Answers(c)
  BY <1>1 DEF Sent, Answers
<1> QED
  BY <1>1, <1>2 DEF OpenInv, WayInv, Awaits, AbortAfter

\* What was read was the first: what is behind it stays behind it.
LEMMA DropKeeps ==
  ASSUME IInv, NEW c \in Clients, Reading(c), Drop(c), session' = session
  PROVE  /\ \A i \in Nat : i > 0 /\ AbortAfter(c, i) => AbortAfter(c, i - 1)'
         /\ \A i \in Sent(c) : i # 1 => i - 1 \in Sent(c)'
<1>1. /\ Len(up[c]) \in Nat /\ Len(up'[c]) = Len(up[c]) - 1
      /\ \A i \in 1 .. Len(up'[c]) : up'[c][i] = up[c][i + 1]
      /\ session[c] = "serving"
  <2>1. up[c] \in Seq(Commands \cup {ABORT}) /\ up[c] # <<>> /\ up'[c] = Tail(up[c])
        /\ session[c] = "serving"
    BY DEF Reading, Drop, Set, IInv, TypeOK
  <2> QED
    BY <2>1
<1>2. \A j \in 2 .. Len(up[c]) : j - 1 \in 1 .. Len(up'[c]) /\ up'[c][j - 1] = up[c][j]
  BY <1>1
<1>3. ASSUME NEW i \in Nat, i > 0, AbortAfter(c, i) PROVE AbortAfter(c, i - 1)'
  <2>1. PICK j \in 1 .. Len(up[c]) : i < j /\ up[c][j] = ABORT
    BY <1>3 DEF AbortAfter
  <2>2. j - 1 \in 1 .. Len(up'[c]) /\ i - 1 < j - 1 /\ up'[c][j - 1] = ABORT
    BY <1>1, <1>2, <1>3, <2>1
  <2> QED
    BY <2>2 DEF AbortAfter
<1>4. ASSUME NEW i \in Sent(c), i # 1 PROVE i - 1 \in Sent(c)'
  <2>1. i \in 2 .. Len(up[c]) /\ up[c][i] # ABORT
    BY <1>4 DEF Sent
  <2> QED
    BY <1>1, <1>2, <2>1 DEF Sent
<1> QED
  BY <1>3, <1>4

LEMMA OpenTakeAbort ==
  ASSUME IInv, NEW c \in Clients \ Rude, OpenInv(c), TakeAbort(c)
  PROVE  OpenInv(c)'
<1>1. /\ Reading(c) /\ Drop(c) /\ Head(up[c]) = ABORT /\ flag'[c] = TRUE
      /\ down'[c] = Append(down[c], ACK)
      /\ UNCHANGED <<at, call, asked, last, session, pending>>
  BY DEF TakeAbort, IInv, TypeOK, Set, Tell, client
<1>2. Answers(c) \subseteq Answers(c)'
  <2>1. /\ Len(down'[c]) = Len(down[c]) + 1 /\ Len(down[c]) \in Nat
        /\ \A i \in 1 .. Len(down[c]) : down'[c][i] = down[c][i]
    BY <1>1, OwnTypes
  <2> QED
    BY <2>1 DEF Answers
<1>3. 1 \notin Sent(c)
  BY <1>1, DropHead DEF Sent
<1>4. Sent(c) # {} => Sent(c)' # {}
  BY <1>1, <1>3, DropKeeps
<1>5. \A i \in Sent(c)' : AbortAfter(c, i + 1) => AbortAfter(c, i)'
  <2>1. ASSUME NEW i \in Sent(c)', AbortAfter(c, i + 1) PROVE AbortAfter(c, i)'
    <3>1. i \in Nat /\ i + 1 \in Nat /\ i + 1 > 0 /\ (i + 1) - 1 = i
      BY DEF Sent
    <3>2. AbortAfter(c, (i + 1) - 1)'
      BY <1>1, <2>1, <3>1, DropKeeps
    <3> QED
      BY <3>1, <3>2
  <2> QED
    BY <2>1
<1>6. \A i \in Sent(c)' : i + 1 \in Sent(c)
  BY <1>1, DropHead
<1> QED
  BY <1>1, <1>2, <1>4, <1>5, <1>6 DEF OpenInv, WayInv, Awaits

LEMMA OpenTakeCommand ==
  ASSUME IInv, NEW c \in Clients \ Rude, PoliteInv(c), OpenInv(c), TakeCommand(c)
  PROVE  OpenInv(c)'
<1>1. /\ Reading(c) /\ Drop(c) /\ Head(up[c]) # ABORT /\ pending'[c] = Head(up[c])
      /\ UNCHANGED <<at, call, asked, last, session, down>>
  BY DEF TakeCommand, IInv, TypeOK, Set, client
<1>2. 1 \in Sent(c) /\ \A i \in Sent(c)' : i + 1 \in Sent(c)
  BY <1>1, DropHead
<1>3. pending'[c] # NoCommand
  <2>1. Head(up[c]) \in Commands
    BY <1>1, OwnTypes, Messages, Queue DEF Reading
  <2> QED
    BY <1>1, <2>1, Distinct DEF NoCommand
<1>4. AbortAfter(c, 1) => AbortAfter(c, 0)'
  <2>1. AbortAfter(c, 1) => AbortAfter(c, 1 - 1)'
    BY <1>1, DropKeeps
  <2> QED
    BY <2>1
<1>5. ASSUME Awaits(c) PROVE Sent(c)' = {}
  <2>1. Sent(c) = {1}
    BY <1>2, <1>5 DEF PoliteInv, WaitInv, Awaits
  <2>2. \A i \in Sent(c)' : i \in Nat \ {0}
    BY DEF Sent
  <2>3. \A i \in Sent(c)' : i + 1 = 1
    BY <1>2, <2>1
  <2> QED
    BY <2>2, <2>3
<1> QED
  BY <1>1, <1>2, <1>3, <1>4, <1>5 DEF OpenInv, WayInv, Awaits

LEMMA OpenReject ==
  ASSUME IInv, NEW c \in Clients \ Rude, PoliteInv(c), OpenInv(c), RejectCommand(c)
  PROVE  OpenInv(c)'
<1>1. /\ pending[c] # NoCommand /\ Reading(c) /\ Head(up[c]) # ABORT /\ Drop(c)
      /\ UNCHANGED <<at, call, asked, session>>
  BY DEF RejectCommand, client, bridge
<1>2. 1 \in Sent(c)
  BY <1>1, DropHead
<1>3. ~Awaits(c)
  BY <1>1, <1>2 DEF PoliteInv, WaitInv, Awaits
<1> QED
  BY <1>1, <1>3, OpenLeft DEF Awaits

LEMMA OpenUnknown ==
  ASSUME IInv, NEW c \in Clients \ Rude, PoliteInv(c), OpenInv(c), UnknownCommand(c)
  PROVE  OpenInv(c)'
<1> DEFINE m == [n |-> Head(up[c]).n, result |-> "refused"]
<1>1. /\ pending[c] = NoCommand /\ Reading(c) /\ Drop(c) /\ Head(up[c]) # ABORT
      /\ down'[c] = Append(down[c], m)
      /\ UNCHANGED <<at, call, asked, last, session, pending, flag>>
  BY DEF UnknownCommand, Quick, IInv, TypeOK, Set, Tell, client, bridge
<1>2. m # ACK /\ m.n # 0
  <2>1. Head(up[c]) \in Commands
    BY <1>1, OwnTypes, Messages, Queue DEF Reading
  <2> QED
    BY <2>1, Distinct DEF ACK
<1>3. Answers(c)' # {}
  <2> HIDE DEF m
  <2>1. Len(down[c]) + 1 \in 1 .. Len(down'[c]) /\ down'[c][Len(down[c]) + 1] = m
    BY <1>1, OwnTypes
  <2>2. Len(down[c]) + 1 \in Answers(c)'
    BY <1>2, <2>1 DEF Answers
  <2> QED
    BY <2>2
<1>4. 1 \in Sent(c) /\ \A i \in Sent(c)' : i + 1 \in Sent(c)
  BY <1>1, DropHead
<1>5. ASSUME Awaits(c) PROVE Sent(c)' = {}
  <2>1. Sent(c) = {1}
    BY <1>4, <1>5 DEF PoliteInv, WaitInv, Awaits
  <2>2. \A i \in Sent(c)' : i \in Nat \ {0} /\ i + 1 = 1
    BY <1>4, <2>1 DEF Sent
  <2> QED
    BY <2>2
<1> QED
  BY <1>1, <1>3, <1>5 DEF OpenInv, WayInv, Awaits

LEMMA OpenFinish ==
  ASSUME IInv, NEW c \in Clients \ Rude, PoliteInv(c), OpenInv(c),
         NEW r \in {"ok", "cancelled"}, Finish(c, r)
  PROVE  OpenInv(c)'
<1> DEFINE m == [n |-> pending[c].n, result |-> r]
<1>1. /\ pending[c] # NoCommand /\ pending'[c] = NoCommand
      /\ down'[c] = Append(down[c], m)
      /\ UNCHANGED <<at, call, asked, last, up, session, flag>>
  BY DEF Finish, IInv, TypeOK, Set, Tell, client
<1>2. m # ACK /\ m.n # 0
  BY <1>1, OwnTypes, Distinct DEF ACK
<1>3. Answers(c)' # {}
  <2> HIDE DEF m
  <2>1. Len(down[c]) + 1 \in 1 .. Len(down'[c]) /\ down'[c][Len(down[c]) + 1] = m
    BY <1>1, OwnTypes
  <2>2. Len(down[c]) + 1 \in Answers(c)'
    BY <1>2, <2>1 DEF Answers
  <2> QED
    BY <2>2
<1>4. Awaits(c) => Sent(c)' = {}
  BY <1>1 DEF PoliteInv, WaitInv, Awaits, Sent
<1> QED
  BY <1>1, <1>3, <1>4 DEF OpenInv, WayInv, Awaits

AllOpen == \A c \in Clients \ Rude : OpenInv(c)

LEMMA OpenNext == IInv /\ AllPolite /\ AllOpen /\ [Next]_vars => AllOpen'
<1> SUFFICES ASSUME IInv, AllPolite, AllOpen, [Next]_vars, NEW d \in Clients \ Rude
             PROVE  OpenInv(d)'
  BY DEF AllOpen
<1>1. OpenInv(d) /\ PoliteInv(d)
  BY DEF AllOpen, AllPolite
<1>2. CASE UNCHANGED vars
  BY <1>1, <1>2, OpenSame DEF vars, client, bridge
<1>3. ASSUME NEW c \in Clients,
             \/ User(c) \/ Read(c) \/ Closed(c)
             \/ Refuse(c) \/ Admit(c) \/ Loop(c) \/ Finishes(c) \/ End(c)
      PROVE  OpenInv(d)'
  <2>1. CASE c # d
    BY <1>1, <1>3, <2>1, OthersKept, OpenSame
  <2>2. CASE c = d
    <3>1. \/ User(d) \/ Read(d) \/ Closed(d) \/ Refuse(d) \/ Admit(d) \/ Loop(d)
          \/ Finishes(d) \/ End(d)
      BY <1>3, <2>2
    <3>2. CASE User(d) \/ Read(d) \/ Closed(d)
      BY <1>1, <3>2, OpenSend, OpenAbort, OpenMoves, OpenRead DEF User
    <3>3. CASE Refuse(d) \/ Admit(d) \/ End(d)
      BY <1>1, <3>3, OpenMoves, OpenAdmit
    <3>4. CASE Loop(d)
      BY <1>1, <3>4, OpenTakeAbort, OpenTakeCommand, OpenUnknown, OpenReject, OpenMoves
         DEF Loop, ProtocolError
    <3>5. CASE Finishes(d)
      BY <1>1, <3>5, OpenFinish DEF Finishes
    <3> QED
      BY <3>1, <3>2, <3>3, <3>4, <3>5
  <2> QED
    BY <2>1, <2>2
<1> QED
  BY <1>2, <1>3 DEF Next

\* A client that waits for its replies is never left waiting for nothing: while
\* its session reads (Session.run), the command it sent is on the way, or runs,
\* or its reply is there; and when the user canceled it, the command is answered,
\* or runs with its Event set, or an abort is still on the way behind it.  No
\* abort is spent on another command or cleared with an old Event.
THEOREM CancelsReach ==
  Spec => []\A c \in Clients \ Rude : Awaits(c) =>
              \/ Answers(c) # {}
              \/ pending[c] # NoCommand
                 /\ (call[c] \in asked[c] => flag[c] \/ AbortAfter(c, 0))
              \/ \E i \in Sent(c) : call[c] \in asked[c] => AbortAfter(c, i)
<1> DEFINE P == \A c \in Clients \ Rude : Awaits(c) =>
              \/ Answers(c) # {}
              \/ pending[c] # NoCommand
                 /\ (call[c] \in asked[c] => flag[c] \/ AbortAfter(c, 0))
              \/ \E i \in Sent(c) : call[c] \in asked[c] => AbortAfter(c, i)
<1>1. Init => AllOpen
  BY DEF Init, AllOpen, OpenInv, WayInv, Awaits
<1>2. Spec => []AllOpen
  BY <1>1, OpenNext, Inductive, AlwaysPolite, PTL DEF Spec
<1>3. AllOpen => P
  BY DEF AllOpen, OpenInv, WayInv
<1> HIDE DEF P
<1>4. Spec => []P
  BY <1>2, <1>3, PTL
<1> QED
  BY <1>4 DEF P
-----------------------------------------------------------------------------
(* The end of a connection.                                                 *)

DrainInv == \A c \in Clients : session[c] = "draining" /\ pending[c] # NoCommand => flag[c]

LEMMA DrainStep == IInv /\ DrainInv /\ [Next]_vars => DrainInv'
<1> SUFFICES ASSUME IInv, DrainInv, [Next]_vars, NEW d \in Clients,
                    session'[d] = "draining", pending'[d] # NoCommand
             PROVE  flag'[d]
  BY DEF DrainInv
<1>1. session[d] = "draining" /\ pending[d] # NoCommand => flag[d]
  BY DEF DrainInv
<1>2. CASE UNCHANGED vars
  BY <1>1, <1>2 DEF vars, bridge
<1>3. ASSUME NEW c \in Clients,
             \/ User(c) \/ Read(c) \/ Closed(c)
             \/ Refuse(c) \/ Admit(c) \/ Loop(c) \/ Finishes(c) \/ End(c)
      PROVE  flag'[d]
  <2> USE DEF IInv, TypeOK, Set, bridge
  <2>1. CASE c # d
    BY <1>1, <1>3, <2>1, OthersKept
  <2>2. CASE c = d /\ (User(c) \/ Read(c) \/ Closed(c))
    BY <1>1, <2>2 DEF User, Connect, Send, SendAbort, CallAbort, Leave, Forget, Read, Closed
  <2>3. CASE c = d /\ (Refuse(c) \/ Admit(c) \/ End(c))
    BY <1>1, <2>3 DEF Refuse, Admit, End
  <2>4. CASE c = d /\ Loop(c)
    BY <1>1, <2>4 DEF Loop, TakeAbort, TakeCommand, UnknownCommand, RejectCommand, ProtocolError,
       Eof, Reading
  <2>5. CASE c = d /\ Finishes(c)
    BY <1>1, <2>5 DEF Finishes, Finish
  <2> QED
    BY <1>3, <2>1, <2>2, <2>3, <2>4, <2>5
<1> QED
  BY <1>2, <1>3 DEF Next

\* The finally of Session.run waits only for a command whose Event is set, which
\* a handler that waits for the printer or its user looks at: a client that went
\* away does not keep the printer by a command that would wait for ever.
THEOREM GoneIsAborted ==
  Spec => []\A c \in Clients : session[c] = "draining" /\ pending[c] # NoCommand => flag[c]
<1>1. Init => DrainInv
  BY DEF Init, DrainInv
<1>2. Spec => []DrainInv
  BY <1>1, DrainStep, Inductive, PTL DEF Spec
<1> QED
  BY <1>2 DEF DrainInv
=============================================================================
