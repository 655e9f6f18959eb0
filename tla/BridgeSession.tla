---------------------------- MODULE BridgeSession ----------------------------
(***************************************************************************)
(* The bridge's sessions (bridge/session.py) and the clients that talk to  *)
(* them (bridge/client.py; printer-app/bridge.c follows the same rules):   *)
(* one client is served at a time, its commands run one after the other as *)
(* tasks, an abort may overtake a running command, and the end of the      *)
(* connection aborts what still runs before the next client is let in.     *)
(*                                                                         *)
(* A command is its number: a client's n-th command.  A "quick" command    *)
(* ends by itself, a "wait" command (wait_ready, a page_end waiting for    *)
(* the user) may never end unless it is aborted.  What is not a command    *)
(* the bridge knows is "quick", too: it is refused at once.                *)
(*                                                                         *)
(* The reply and the end of its task are one step: asyncio runs the done   *)
(* callback that clears `_pending` before it looks at the socket again, so *)
(* no command that answers the reply can meet the old `_pending`.          *)
(***************************************************************************)
EXTENDS Naturals, Sequences, FiniteSetsExt

CONSTANTS
  Clients,
  Rude,       \* clients that send a command before the last one is answered, or garbage
  IdleAborts, \* clients that call BridgeClient.abort() with nothing pending
  MaxCalls,   \* bound on the commands of a client
  MaxInAll    \* bound on the commands of all clients

ASSUME SessionAssumption ==
  Rude \subseteq Clients /\ IdleAborts \subseteq Clients /\ MaxCalls \in Nat /\ MaxInAll \in Nat

VARIABLES
  at,       \* client: "out", "in" (connected), "calling", "aborting", "gone"
  call,     \* client: number of its last command
  asked,    \* client: its commands it sent an abort for
  last,     \* client: the last reply it took: [n, result]
  up,       \* messages to the bridge
  down,     \* messages to the client
  session,  \* bridge: "none", "starting", "serving", "draining", "done"
  pending,  \* bridge: [n, kind] of the running command, NoCommand when none
  flag,     \* bridge: Session._abort is set
  active    \* bridge: Bridge.session_active

client == <<at, call, asked, last>>
bridge == <<session, pending, flag, active>>
vars == <<client, up, down, bridge>>

Kinds == {"quick", "wait"}
NoCommand == [n |-> 0, kind |-> "quick"]
Commands == [n : 1 .. MaxCalls, kind : Kinds]
ABORT == [abort |-> TRUE]

\* Refused: busy, an unknown command, or no message at all.
Results == {"ok", "cancelled", "refused"}
Replies == [n : 0 .. MaxCalls, result : Results]
ACK == [ack |-> TRUE]

Init ==
  /\ at = [c \in Clients |-> "out"] /\ call = [c \in Clients |-> 0]
  /\ asked = [c \in Clients |-> {}]
  /\ last = [c \in Clients |-> [n |-> 0, result |-> "ok"]]
  /\ up = [c \in Clients |-> <<>>] /\ down = [c \in Clients |-> <<>>]
  /\ session = [c \in Clients |-> "none"]
  /\ pending = [c \in Clients |-> NoCommand]
  /\ flag = [c \in Clients |-> FALSE] /\ active = FALSE

Set(f, c, v) == f' = [f EXCEPT ![c] = v]
Tell(c, m) == down' = [down EXCEPT ![c] = Append(@, m)]
-----------------------------------------------------------------------------
(* The client.                                                              *)

Connect(c) ==
  /\ at[c] = "out" /\ Set(at, c, "in")
  /\ Set(session, c, "starting")
  /\ UNCHANGED <<call, asked, last, up, down, pending, flag, active>>

CallsLeft == LET Calls(c) == call[c]
             IN  MapThenSumSet(Calls, Clients) < MaxInAll

\* A write on a connection the bridge has closed fails: the client leaves.
Open(c) == session[c] # "done"

Send(c) ==
  /\ Open(c)
  /\ at[c] = "in" \/ (c \in Rude /\ at[c] = "calling")
  /\ call[c] < MaxCalls /\ CallsLeft
  /\ Set(call, c, call[c] + 1) /\ Set(at, c, "calling")
  /\ \E k \in Kinds : up' = [up EXCEPT ![c] = Append(@, [n |-> call'[c], kind |-> k])]
  /\ UNCHANGED <<asked, last, down, bridge>>

\* The user cancels: send(abort) while a reply is awaited.
SendAbort(c) ==
  /\ Open(c) /\ at[c] = "calling" /\ call[c] \notin asked[c]
  /\ Set(asked, c, asked[c] \cup {call[c]})
  /\ up' = [up EXCEPT ![c] = Append(@, ABORT)]
  /\ UNCHANGED <<at, call, last, down, bridge>>

\* BridgeClient.abort(): call(abort) with nothing pending.
CallAbort(c) ==
  /\ Open(c) /\ c \in IdleAborts /\ at[c] = "in" /\ Set(at, c, "aborting")
  /\ up' = [up EXCEPT ![c] = Append(@, ABORT)]
  /\ UNCHANGED <<call, asked, last, down, bridge>>

\* Bug for the mutant runs: the acknowledgement passes for the reply.
Bug_SkipsNothing(m) == FALSE

\* send() never records an abort as pending, so reply() skips every
\* acknowledgement.
Skips(m) == m = ACK

ReplyTo(m) == IF m = ACK THEN [n |-> 0, result |-> "ok"] ELSE m

Read(c) ==
  /\ at[c] \in {"calling", "aborting"} /\ down[c] # <<>>
  /\ Set(down, c, Tail(down[c]))
  /\ IF Skips(Head(down[c])) THEN UNCHANGED <<at, last>>
     ELSE Set(at, c, "in") /\ Set(last, c, ReplyTo(Head(down[c])))
  /\ UNCHANGED <<call, asked, up, bridge>>

\* The bridge closed the connection, or the client leaves at any moment.
Leave(c) ==
  /\ at[c] \in {"in", "calling", "aborting"}
  /\ Set(at, c, "gone")
  /\ UNCHANGED <<call, asked, last, up, down, bridge>>

Closed(c) ==
  /\ session[c] = "done" /\ down[c] = <<>> /\ Leave(c)

\* A connection that is over at both ends makes room for a new one.
Forget(c) ==
  /\ at[c] = "gone" /\ session[c] = "done"
  /\ Set(at, c, "out") /\ Set(session, c, "none")
  /\ Set(up, c, <<>>) /\ Set(down, c, <<>>) /\ Set(flag, c, FALSE)
  /\ Set(last, c, [n |-> 0, result |-> "ok"])
  /\ UNCHANGED <<call, asked, pending, active>>
-----------------------------------------------------------------------------
(* The bridge.                                                              *)

\* The first lines of run: from the test to the assignment nothing awaits.
Refuse(c) ==
  /\ session[c] = "starting" /\ active
  /\ Tell(c, [n |-> 0, result |-> "refused"]) /\ Set(session, c, "done")
  /\ UNCHANGED <<client, up, pending, flag, active>>

Admit(c) ==
  /\ session[c] = "starting" /\ ~active
  /\ active' = TRUE /\ Set(session, c, "serving")
  /\ UNCHANGED <<client, up, down, pending, flag>>

Reading(c) == session[c] = "serving" /\ up[c] # <<>>
Drop(c) == Set(up, c, Tail(up[c]))
Quick(c) == Head(up[c]) # ABORT /\ Head(up[c]).kind = "quick"

\* Bug for the mutant runs: an abort is a command like any other.
Bug_AbortWaits(c) ==
  /\ Reading(c) /\ Head(up[c]) = ABORT /\ pending[c] = NoCommand
  /\ Set(flag, c, TRUE) /\ Tell(c, ACK) /\ Drop(c)
  /\ UNCHANGED <<client, session, pending, active>>

TakeAbort(c) ==
  /\ Reading(c) /\ Head(up[c]) = ABORT
  /\ Set(flag, c, TRUE) /\ Tell(c, ACK) /\ Drop(c)
  /\ UNCHANGED <<client, session, pending, active>>

\* Bug for the mutant runs: one Event for the whole session.
Bug_EventReused(c) ==
  /\ Reading(c) /\ Head(up[c]) # ABORT /\ pending[c] = NoCommand
  /\ Set(pending, c, Head(up[c])) /\ Drop(c)
  /\ UNCHANGED <<client, down, session, flag, active>>

\* Each command has a fresh Event: an abort that came too late for the last
\* one is forgotten.
TakeCommand(c) ==
  /\ Reading(c) /\ Head(up[c]) # ABORT /\ pending[c] = NoCommand
  /\ Set(pending, c, Head(up[c])) /\ Set(flag, c, FALSE) /\ Drop(c)
  /\ UNCHANGED <<client, down, session, active>>

RejectCommand(c) ==
  /\ Reading(c) /\ Head(up[c]) # ABORT /\ pending[c] # NoCommand
  /\ Tell(c, [n |-> Head(up[c]).n, result |-> "refused"]) /\ Drop(c)
  /\ UNCHANGED <<client, bridge>>

\* No handler has the name of the command.
UnknownCommand(c) ==
  /\ Reading(c) /\ Quick(c) /\ pending[c] = NoCommand
  /\ Tell(c, [n |-> Head(up[c]).n, result |-> "refused"]) /\ Drop(c)
  /\ UNCHANGED <<client, bridge>>

\* _run_command: the handler returns or raises, one reply is sent and the done
\* callback clears `_pending`.  An abort may come too late to change the result.
Finish(c, r) ==
  /\ pending[c] # NoCommand
  /\ r = "cancelled" => flag[c]
  /\ Tell(c, [n |-> pending[c].n, result |-> r])
  /\ Set(pending, c, NoCommand)
  /\ UNCHANGED <<client, up, session, flag, active>>

\* Bugs for the mutant runs: the session is over at once, and the running
\* command is left alone.
Bug_ReleaseAtEof(c) ==
  /\ session[c] = "serving" /\ at[c] = "gone"
  /\ Set(session, c, "draining") /\ active' = FALSE
  /\ flag' = [flag EXCEPT ![c] = @ \/ pending[c] # NoCommand]
  /\ UNCHANGED <<client, up, down, pending>>

Bug_EofNoAbort(c) ==
  /\ session[c] = "serving" /\ at[c] = "gone"
  /\ Set(session, c, "draining")
  /\ UNCHANGED <<client, up, down, pending, flag, active>>

\* The read fails: EOF after the last message, or a reset before it.  The
\* finally of run aborts what runs and waits for it.
Eof(c) ==
  /\ session[c] = "serving" /\ at[c] = "gone"
  /\ Set(session, c, "draining")
  /\ flag' = [flag EXCEPT ![c] = @ \/ pending[c] # NoCommand]
  /\ UNCHANGED <<client, up, down, pending, active>>

\* read_message finds no message in what came: the client is told, and the
\* session ends as if the client had left.
ProtocolError(c) ==
  /\ c \in Rude /\ Reading(c) /\ Quick(c) /\ Drop(c)
  /\ Tell(c, [n |-> 0, result |-> "refused"]) /\ Set(session, c, "draining")
  /\ flag' = [flag EXCEPT ![c] = @ \/ pending[c] # NoCommand]
  /\ UNCHANGED <<client, pending, active>>

\* Bug for the mutant runs: the running command is not waited for.
Bug_EndAtOnce(c) ==
  /\ session[c] = "draining"
  /\ active' = FALSE /\ Set(session, c, "done")
  /\ UNCHANGED <<client, up, down, pending, flag>>

End(c) ==
  /\ session[c] = "draining" /\ pending[c] = NoCommand
  /\ active' = FALSE /\ Set(session, c, "done")
  /\ UNCHANGED <<client, up, down, pending, flag>>
-----------------------------------------------------------------------------
User(c) == Connect(c) \/ Send(c) \/ SendAbort(c) \/ CallAbort(c) \/ Leave(c) \/ Forget(c)

Loop(c) == \/ TakeAbort(c) \/ TakeCommand(c) \/ UnknownCommand(c) \/ RejectCommand(c)
           \/ ProtocolError(c) \/ Eof(c)

Finishes(c) == \E r \in {"ok", "cancelled"} : Finish(c, r)

Next == \E c \in Clients :
  \/ User(c) \/ Read(c) \/ Closed(c)
  \/ Refuse(c) \/ Admit(c) \/ Loop(c) \/ Finishes(c) \/ End(c)

\* The event loop runs what can run, a client that awaits a reply reads it.  A
\* quick command and an aborted one end by themselves; users owe nothing.
Fairness == \A c \in Clients :
  /\ WF_vars(Read(c) \/ Closed(c))
  /\ WF_vars(Refuse(c) \/ Admit(c)) /\ WF_vars(Loop(c)) /\ WF_vars(End(c))
  /\ WF_vars((pending[c].kind = "quick" \/ flag[c]) /\ Finishes(c))

Spec == Init /\ [][Next]_vars /\ Fairness
-----------------------------------------------------------------------------
(* Properties.                                                              *)

Served(c) == session[c] \in {"serving", "draining"}

\* Types, and that a command runs only in a session that is not over: run
\* waits for it before the session counts as done.
TypeOK ==
  /\ at \in [Clients -> {"out", "in", "calling", "aborting", "gone"}]
  /\ call \in [Clients -> 0 .. MaxCalls]
  /\ asked \in [Clients -> SUBSET (0 .. MaxCalls)]
  /\ last \in [Clients -> Replies]
  /\ up \in [Clients -> Seq(Commands \cup {ABORT})]
  /\ down \in [Clients -> Seq(Replies \cup {ACK})]
  /\ session \in [Clients -> {"none", "starting", "serving", "draining", "done"}]
  /\ pending \in [Clients -> Commands \cup {NoCommand}]
  /\ flag \in [Clients -> BOOLEAN] /\ active \in BOOLEAN
  /\ \A c \in Clients : pending[c] # NoCommand => Served(c)

\* session_active is exactly "someone is served", and never two at a time: two
\* connections cannot both pass the test in run, and a client that went away
\* counts as served until its last command is over.
OneServed ==
  /\ active = \E c \in Clients : Served(c)
  /\ \A c, d \in Clients : Served(c) /\ Served(d) => c = d

\* A client that is not connected has no session.
OutIsNone == \A c \in Clients : at[c] = "out" => session[c] = "none"

\* The strengthening that is inductive, see BridgeSession_proofs.
IInv == TypeOK /\ OneServed /\ OutIsNone

\* A client that waits for its replies gets the reply of the command it sent:
\* never an acknowledgement, a late reply of an earlier command, or another
\* client's; a refused connection answers without a number.
RepliesMatch ==
  \A c \in Clients \ Rude :
    at[c] = "in" /\ last[c].n # 0 => last[c].n = call[c]

\* A command that reports cancelled was cancelled by its own client while that
\* client waited for it: an abort that comes after its command is over never
\* hits the next command.
CancelIsMine ==
  \A c \in Clients \ Rude : last[c].result = "cancelled" => last[c].n \in asked[c]

\* A cancelled command is answered, also one that would wait for ever.
CancelIsAnswered ==
  \A c \in Clients :
    at[c] = "calling" /\ call[c] \in asked[c] ~> at[c] # "calling"

\* A client that goes away frees the printer, whatever it was waiting for.
GoneIsReleased ==
  \A c \in Clients : Served(c) /\ at[c] = "gone" ~> ~Served(c)

\* abort is answered ok even when idle (docs/print-flow.md).
AbortReturns ==
  \A c \in Clients : at[c] = "aborting" ~> at[c] # "aborting"

\* The sessions implement the service.
Service == INSTANCE BridgeService WITH
  holders <- {c \in Clients : Served(c)},
  running <- {c \in Clients : pending[c] # NoCommand}

\* One client at a time, one command at a time, and no hand-over while a
\* command still runs.
ImplementsService == Service!Spec
=============================================================================
