---------------------- MODULE PrinterCommands_proofs ----------------------
(***************************************************************************)
(* Proofs about the commands that ask and feed the printer.                *)
(*                                                                         *)
(* IInv is the inductive type invariant.  Its core is Plan: what may be    *)
(* left of a command's steps, so that a step says which command runs and   *)
(* what comes behind it.  Three arguments build on it, one for each answer *)
(* of a command that a caller relies on, and none of them assumes anything *)
(* of the constants beyond EventsAssumption and OpsAssumption:             *)
(*                                                                         *)
(*   SeenInv   every event on its way to check_ready and every answer it   *)
(*             has shows what the lid and the sheet were since its call;   *)
(*   EjectInv  while a sheet is at the sensor, only the ejection's own     *)
(*             feeds are under way behind the answer to its query, so that *)
(*             an event of the sheet is the sheet's end (FeedsClearWorld:  *)
(*             the feed that clears the rollers then runs or is lost);     *)
(*   TInv      the answer to _answering_printer drains the connection      *)
(*             (OneAsked, Drained), and behind it everything under way of  *)
(*             the timer is of the command itself (Settled).               *)
(*                                                                         *)
(* since.calm is false from when a hand put in a sheet, or moved one       *)
(* outside of its ejection, or when answers to earlier queries were still  *)
(* under way at the call: there the code cannot tell one answer from       *)
(* another, and the properties say nothing.                                *)
(***************************************************************************)
EXTENDS PrinterCommands, SequenceTheorems, TLAPS

-----------------------------------------------------------------------------
(* What is written, what is said, and the steps of a command.               *)

Commands == {c \in [do : Kinds \cup {"feed", "clear", "set"}, to : Timers \cup {NoAnswer}] :
               c.do = "set" => c.to \in Timers}

ValuesOf(kind) == CASE kind = "lid" -> Lids
                    [] kind = "paper" -> Papers
                    [] kind = "timer" -> Timers
                    [] OTHER -> {"value"}

Events == {n \in [kind : Kinds, value : Values] : n.value \in ValuesOf(n.kind)}

\* The steps of a command, and those that come behind its barrier.
Late == {"battery", "firmware", "serial", "lid", "paper", "timer"}

May(o) ==
  CASE o = "check_ready" -> {"lid", "paper"}
    [] o = "status" -> {"answering", "lid", "paper", "battery"}
    [] o = "info" -> Late \cup {"answering"}
    [] o = "test_page" -> Late \cup {"answering", "apply", "set"}
    [] o = "auto_off" -> {"answering", "set", "timer"}
    [] o = "eject" -> {"eject"}
    [] o = "identify" -> {"apply", "set", "answering", "look", "eject", "feed", "paper"}
    [] OTHER -> {"apply", "set"}

StepNames == Late \cup {"answering", "apply", "set", "look", "eject", "feed"}

\* What may be left of a command's steps.
Plan(o, t) ==
  /\ t \in Seq(StepNames) /\ t # <<>>
  /\ \A i \in 1..Len(t) : t[i] \in May(o)
  /\ o = "check_ready" => t = <<"lid", "paper">> \/ t = <<"paper">>
  /\ o = "eject" => t = <<"eject">>
  /\ o = "connect" => t = <<"apply">> \/ t = <<"set">>
  /\ o = "auto_off" => \/ t = <<"answering", "set", "timer">> \/ t = <<"set", "timer">>
                       \/ t = <<"answering", "timer">> \/ t = <<"timer">>
  /\ o \in {"info", "test_page"} =>
       /\ t[Len(t)] = "timer"
       /\ t[1] \in {"apply", "set"} =>
            t[2] = "answering" /\ \A i \in 3..Len(t) : t[i] \in Late
       /\ t[1] \notin {"apply", "set"} => \A i \in 2..Len(t) : t[i] \in Late
  /\ o = "identify" => t[Len(t)] = "paper"

-----------------------------------------------------------------------------
(* Sequences.                                                               *)

LEMMA TailIs ==
  ASSUME NEW S, NEW s \in Seq(S), s # <<>>
  PROVE  /\ Tail(s) \in Seq(S) /\ Len(Tail(s)) = Len(s) - 1 /\ Len(s) >= 1
         /\ \A i \in 1..Len(Tail(s)) : Tail(s)[i] = s[i + 1]
         /\ Head(s) = s[1] /\ Head(s) \in S
         /\ Tail(s) # <<>> => Len(s) >= 2
         /\ Len(s) >= 2 => Tail(s) # <<>>
  <1>1. /\ Tail(s) \in Seq(S) /\ Len(Tail(s)) = Len(s) - 1
        /\ \A i \in 1..Len(Tail(s)) : Tail(s)[i] = s[i + 1]
        /\ Head(s) = s[1] /\ Head(s) \in S
    BY HeadTailProperties
  <1>2. Len(s) \in Nat /\ Len(s) # 0
    BY EmptySeq
  <1>3. Tail(s) # <<>> <=> Len(Tail(s)) # 0
    BY <1>1, EmptySeq
  <1> QED BY <1>1, <1>2, <1>3

LEMMA Tails ==
  /\ Tail(<<"lid", "paper">>) = <<"paper">>
  /\ Tail(<<"answering", "set", "timer">>) = <<"set", "timer">>
  /\ Tail(<<"set", "timer">>) = <<"timer">> /\ Tail(<<"answering", "timer">>) = <<"timer">>
  /\ \A x : Tail(<<x>>) = <<>>
  OBVIOUS

LEMMA PrefixIs ==
  ASSUME NEW S, NEW s \in Seq(S), NEW e \in S
  PROVE  /\ <<e>> \o s \in Seq(S) /\ Len(<<e>> \o s) = Len(s) + 1
         /\ (<<e>> \o s)[1] = e
         /\ \A i \in 2..(Len(s) + 1) : (<<e>> \o s)[i] = s[i - 1]
         /\ <<e>> \o s # <<>> /\ Head(<<e>> \o s) = e
  <1>1. <<e>> \in Seq(S) /\ Len(<<e>>) = 1 /\ <<e>>[1] = e
    OBVIOUS
  <1> QED BY <1>1, ConcatProperties, LenProperties

-----------------------------------------------------------------------------
(* The steps of a command.                                                  *)

\* What is left behind a step is a plan again.
LEMMA PlanTail ==
  ASSUME NEW o \in Ops, NEW t, Plan(o, t), Tail(t) # <<>>
  PROVE  Plan(o, Tail(t))
  <1>1. t \in Seq(StepNames) /\ t # <<>>
    BY DEF Plan
  <1>2. /\ Tail(t) \in Seq(StepNames) /\ Len(Tail(t)) = Len(t) - 1 /\ Len(t) >= 2
        /\ Len(t) \in Nat
        /\ \A i \in 1..Len(Tail(t)) : Tail(t)[i] = t[i + 1]
    BY <1>1, TailIs, LenProperties
  <1> DEFINE u == Tail(t)
  <1>3. \A i \in 1..Len(u) : u[i] \in May(o)
    <2>1. \A i \in 1..Len(t) : t[i] \in May(o)
      BY DEF Plan
    <2> QED BY <1>2, <2>1
  <1>4. u[1] = t[2] /\ u[Len(u)] = t[Len(t)]
    BY <1>2
  <1>5. o = "check_ready" => u = <<"lid", "paper">> \/ u = <<"paper">>
    BY Tails, Zenon DEF Plan
  <1>6. o = "auto_off" => \/ u = <<"answering", "set", "timer">> \/ u = <<"set", "timer">>
                          \/ u = <<"answering", "timer">> \/ u = <<"timer">>
    BY Tails, Zenon DEF Plan
  <1>7. o \notin {"eject", "connect"}
    BY Tails DEF Plan
  <1>8. o \in {"info", "test_page"} =>
          /\ u[1] \notin {"apply", "set"}
          /\ \A i \in 2..Len(u) : u[i] \in Late
    <2> SUFFICES ASSUME o \in {"info", "test_page"} PROVE  /\ u[1] \notin {"apply", "set"}
                                                         /\ \A i \in 2..Len(u) : u[i] \in Late
      OBVIOUS
    <2>1. CASE t[1] \in {"apply", "set"}
      <3>1. t[2] = "answering" /\ \A i \in 3..Len(t) : t[i] \in Late
        BY <2>1 DEF Plan
      <3> HIDE DEF u
      <3> QED BY <1>2, <1>4, <3>1 DEF u
    <2>2. CASE t[1] \notin {"apply", "set"}
      <3>1. \A i \in 2..Len(t) : t[i] \in Late
        BY <2>2 DEF Plan
      <3>2. t[2] \notin {"apply", "set"}
        BY <1>2, <3>1 DEF Late
      <3> HIDE DEF u
      <3> QED BY <1>2, <1>4, <3>1, <3>2 DEF u
    <2> QED BY <2>1, <2>2
  <1>9. /\ o \in {"info", "test_page"} => u[Len(u)] = "timer"
        /\ o = "identify" => u[Len(u)] = "paper"
    BY <1>4 DEF Plan
  <1> HIDE DEF u
  <1> QED BY <1>2, <1>3, <1>5, <1>6, <1>7, <1>8, <1>9 DEF Plan, u

\* info asks for the sheet only under a closed lid.
LEMMA PlanSkips ==
  ASSUME NEW o \in Ops, NEW t, Plan(o, t), o \in {"info", "test_page"}, t[1] = "lid",
         Tail(Tail(t)) # <<>>
  PROVE  Plan(o, Tail(Tail(t)))
  <1>1. Tail(t) # <<>>
    <2>1. t[Len(t)] = "timer" /\ t \in Seq(StepNames) /\ t # <<>>
      BY DEF Plan
    <2>2. Len(t) # 1
      BY <2>1
    <2> QED BY <2>1, <2>2
  <1> QED BY <1>1, PlanTail

\* identify ejects a sheet it finds.
LEMMA PlanEjects ==
  ASSUME NEW o \in Ops, NEW t, Plan(o, t), t[1] = "look"
  PROVE  o = "identify" /\ Plan(o, <<"eject">> \o Tail(t))
  <1>1. t \in Seq(StepNames) /\ t # <<>> /\ Len(t) >= 1 /\ t[1] \in May(o)
    BY DEF Plan
  <1>2. o = "identify"
    BY <1>1, OpsAssumption DEF May, Late
  <1>3. t[Len(t)] = "paper" /\ \A i \in 1..Len(t) : t[i] \in May(o)
    BY <1>2 DEF Plan
  <1>4. Tail(t) # <<>>
    BY <1>1, <1>3, TailIs
  <1>5. /\ Tail(t) \in Seq(StepNames) /\ Len(Tail(t)) = Len(t) - 1 /\ Len(t) >= 2
        /\ \A i \in 1..Len(Tail(t)) : Tail(t)[i] = t[i + 1]
    BY <1>1, <1>4, TailIs
  <1>6. "eject" \in StepNames /\ "eject" \in May("identify")
    BY DEF StepNames, May
  <1> DEFINE u == <<"eject">> \o Tail(t)
  <1>7. /\ u \in Seq(StepNames) /\ Len(u) = Len(t) /\ u[1] = "eject" /\ u # <<>>
        /\ \A i \in 2..Len(t) : u[i] = Tail(t)[i - 1]
    BY <1>5, <1>6, PrefixIs
  <1> HIDE DEF u
  <1>8. \A i \in 2..Len(t) : u[i] = t[i]
    BY <1>5, <1>7
  <1>9. \A i \in 1..Len(u) : u[i] \in May(o)
    BY <1>2, <1>3, <1>6, <1>7, <1>8
  <1>10. u[Len(u)] = "paper"
    BY <1>3, <1>5, <1>7, <1>8
  <1> QED BY <1>2, <1>7, <1>9, <1>10 DEF Plan, u

\* _apply_auto_off sets the timer before the rest of the command.
LEMMA PlanSets ==
  ASSUME NEW o \in Ops, NEW t, Plan(o, t), t[1] = "apply"
  PROVE  o \in {"connect", "identify", "test_page"} /\ Plan(o, <<"set">> \o Tail(t))
  <1>1. t \in Seq(StepNames) /\ t # <<>> /\ Len(t) >= 1 /\ t[1] \in May(o)
    BY DEF Plan
  <1>2. o \in {"connect", "identify", "test_page"}
    BY <1>1, OpsAssumption DEF May, Late
  <1>3. CASE o = "connect"
    <2>1. t = <<"apply">>
      BY <1>3 DEF Plan
    <2>2. <<"set">> \o Tail(t) = <<"set">>
      BY <2>1
    <2>3. <<"set">> \in Seq(StepNames) /\ "set" \in May("connect")
      BY DEF StepNames, May
    <2> QED BY <1>3, <2>2, <2>3 DEF Plan
  <1>4. CASE o # "connect"
    <2>1. t[Len(t)] \in {"paper", "timer"} /\ \A i \in 1..Len(t) : t[i] \in May(o)
      BY <1>2, <1>4 DEF Plan
    <2>2. Tail(t) # <<>>
      BY <1>1, <2>1
    <2>3. /\ Tail(t) \in Seq(StepNames) /\ Len(Tail(t)) = Len(t) - 1 /\ Len(t) >= 2
          /\ \A i \in 1..Len(Tail(t)) : Tail(t)[i] = t[i + 1]
      BY <1>1, <2>2, TailIs
    <2>4. "set" \in StepNames /\ "set" \in May("identify") /\ "set" \in May("test_page")
      BY DEF StepNames, May
    <2> DEFINE u == <<"set">> \o Tail(t)
    <2>5. /\ u \in Seq(StepNames) /\ Len(u) = Len(t) /\ u[1] = "set" /\ u # <<>>
          /\ \A i \in 2..Len(t) : u[i] = Tail(t)[i - 1]
      BY <2>3, <2>4, PrefixIs
    <2> HIDE DEF u
    <2>6. \A i \in 2..Len(t) : u[i] = t[i]
      BY <2>3, <2>5
    <2>7. \A i \in 1..Len(u) : u[i] \in May(o)
      BY <1>2, <1>4, <2>1, <2>4, <2>5, <2>6
    <2>8. u[Len(u)] = t[Len(t)] /\ u[2] = t[2]
      BY <2>3, <2>5, <2>6
    <2>9. o = "identify" => Plan(o, u)
      BY <2>5, <2>7, <2>8 DEF Plan
    <2>10. o = "test_page" => /\ u[Len(u)] = "timer" /\ u[2] = "answering"
                              /\ \A i \in 3..Len(u) : u[i] \in Late
      <3>1. o = "test_page" => /\ t[Len(t)] = "timer" /\ t[2] = "answering"
                               /\ \A i \in 3..Len(t) : t[i] \in Late
        BY DEF Plan
      <3> QED BY <2>5, <2>6, <2>8, <3>1
    <2>11. o = "test_page" => Plan(o, u)
      BY <2>5, <2>7, <2>10 DEF Plan
    <2> QED BY <1>2, <1>4, <2>9, <2>11 DEF u
  <1> QED BY <1>2, <1>3, <1>4

\* The steps of info and of the test page.
LEMMA InfoIs ==
  LET t == <<"answering">> \o Details \o <<"lid", "paper", "timer">> IN
    /\ t \in Seq(StepNames) /\ Len(t) >= 4
    /\ t[1] = "answering" /\ t[Len(t)] = "timer"
    /\ \A i \in 2..Len(t) : t[i] \in Late
  <1> DEFINE a == <<"answering">>
             b == a \o Details
             e == <<"lid", "paper", "timer">>
             t == b \o e
  <1>1. /\ a \in Seq(StepNames) /\ Len(a) = 1 /\ a[1] = "answering"
        /\ e \in Seq(StepNames) /\ Len(e) = 3 /\ e[1] = "lid" /\ e[2] = "paper" /\ e[3] = "timer"
    BY DEF StepNames, Late
  <1>2. /\ Details \in Seq(StepNames) /\ Len(Details) \in Nat
        /\ \A i \in 1..Len(Details) : Details[i] \in {"battery", "firmware", "serial"}
    BY OpsAssumption, LenProperties DEF StepNames, Late
  <1> HIDE DEF a, e
  <1>3. /\ b \in Seq(StepNames) /\ Len(b) = 1 + Len(Details) /\ b[1] = "answering"
        /\ \A i \in 2..Len(b) : b[i] \in {"battery", "firmware", "serial"}
    <2>1. /\ b \in Seq(StepNames) /\ Len(b) = Len(a) + Len(Details)
          /\ \A i \in 1..(Len(a) + Len(Details)) :
               b[i] = IF i <= Len(a) THEN a[i] ELSE Details[i - Len(a)]
      BY <1>1, <1>2, ConcatProperties, ZenonT(60)
    <2> HIDE DEF b
    <2> QED BY <1>1, <1>2, <2>1, SMTT(30)
  <1> HIDE DEF b
  <1>4. /\ t \in Seq(StepNames) /\ Len(t) = Len(b) + Len(e)
        /\ \A i \in 1..(Len(b) + Len(e)) : t[i] = IF i <= Len(b) THEN b[i] ELSE e[i - Len(b)]
    BY <1>1, <1>3, ConcatProperties, ZenonT(60)
  <1> HIDE DEF t
  <1>5. Len(t) >= 4 /\ t[1] = "answering" /\ t[Len(t)] = "timer"
    BY <1>1, <1>2, <1>3, <1>4
  <1>6. ASSUME NEW i \in 2..Len(t) PROVE t[i] \in Late
    <2>1. CASE i <= Len(b)
      BY <1>2, <1>3, <1>4, <2>1 DEF Late
    <2>2. CASE ~(i <= Len(b))
      <3>1. Len(b) \in Nat /\ i \in 1..(Len(b) + Len(e)) /\ Len(e) = 3
        BY <1>1, <1>2, <1>3, <1>4
      <3>2. t[i] = e[i - Len(b)]
        BY <1>4, <2>2, <3>1
      <3>3. i - Len(b) = 1 \/ i - Len(b) = 2 \/ i - Len(b) = 3
        BY <2>2, <3>1
      <3> QED BY <1>1, <3>2, <3>3 DEF Late
    <2> QED BY <2>1, <2>2
  <1> QED BY <1>4, <1>5, <1>6 DEF t, b, a, e

\* The feeds and queries of identify.
LEMMA PulseIs ==
  /\ Pulse \in Seq(StepNames) /\ Len(Pulse) >= 2
  /\ Pulse[Len(Pulse)] = "paper"
  /\ \A i \in 1..Len(Pulse) : Pulse[i] \in {"feed", "paper"}
  <1>1. Pulses \in Nat /\ Pulses >= 1
    BY EventsAssumption
  <1>2. /\ Pulse \in [1..(2 * Pulses) -> {"feed", "paper"}]
        /\ \A i \in 1..(2 * Pulses) : Pulse[i] = IF i % 2 = 1 THEN "feed" ELSE "paper"
    BY DEF Pulse
  <1>3. Pulse \in Seq({"feed", "paper"}) /\ Len(Pulse) = 2 * Pulses
    BY <1>1, <1>2
  <1>4. (2 * Pulses) % 2 = 0 /\ 2 * Pulses \in 1..(2 * Pulses)
    BY <1>1
  <1>5. {"feed", "paper"} \subseteq StepNames
    BY DEF StepNames, Late
  <1> QED BY <1>1, <1>2, <1>3, <1>4, <1>5

\* Every command starts with a plan.
LEMMA StepsPlan ==
  ASSUME NEW o \in Ops \ {"connect"}
  PROVE  Plan(o, Steps[o])
  <1> DEFINE info == <<"answering">> \o Details \o <<"lid", "paper", "timer">>
             look == <<"answering", "look">> \o Pulse
  <1>1. o \in {"check_ready", "status", "info", "test_page", "auto_off", "eject", "identify"}
    BY OpsAssumption
  <1>2. /\ Steps.check_ready = <<"lid", "paper">>
        /\ Steps.status = <<"answering", "lid", "paper", "battery">>
        /\ Steps.auto_off = <<"answering", "set", "timer">>
        /\ Steps.eject = <<"eject">>
    BY DEF Steps
  <1>3. Steps.info = info /\ Steps.test_page = info /\ Steps.identify = look
    BY Zenon DEF Steps
  <1>4. CASE o = "check_ready"
    <2> DEFINE t == <<"lid", "paper">>
    <2>1. Steps[o] = t
      BY <1>2, <1>4
    <2>2. /\ t \in Seq(StepNames) /\ t # <<>>
          /\ \A i \in 1..Len(t) : t[i] \in {"lid", "paper"}
      BY DEF StepNames, Late
    <2>3. May(o) = {"lid", "paper"}
      BY <1>4 DEF May
    <2> QED BY <1>4, <2>1, <2>2, <2>3, Zenon DEF Plan
  <1>5. CASE o = "status"
    <2> DEFINE t == <<"answering", "lid", "paper", "battery">>
    <2>1. Steps[o] = t
      BY <1>2, <1>5
    <2>2. /\ t \in Seq(StepNames) /\ t # <<>>
          /\ \A i \in 1..Len(t) : t[i] \in {"answering", "lid", "paper", "battery"}
      BY DEF StepNames, Late
    <2>3. May(o) = {"answering", "lid", "paper", "battery"}
      BY <1>5 DEF May
    <2> QED BY <1>5, <2>1, <2>2, <2>3, Zenon DEF Plan
  <1>6. CASE o = "auto_off"
    <2> DEFINE t == <<"answering", "set", "timer">>
    <2>1. Steps[o] = t
      BY <1>2, <1>6
    <2>2. /\ t \in Seq(StepNames) /\ t # <<>>
          /\ \A i \in 1..Len(t) : t[i] \in {"answering", "set", "timer"}
      BY DEF StepNames, Late
    <2>3. May(o) = {"answering", "set", "timer"}
      BY <1>6 DEF May
    <2> QED BY <1>6, <2>1, <2>2, <2>3, Zenon DEF Plan
  <1>7. CASE o = "eject"
    <2> DEFINE t == <<"eject">>
    <2>1. Steps[o] = t
      BY <1>2, <1>7
    <2>2. /\ t \in Seq(StepNames) /\ t # <<>>
          /\ \A i \in 1..Len(t) : t[i] \in {"eject"}
      BY DEF StepNames, Late
    <2>3. May(o) = {"eject"}
      BY <1>7 DEF May
    <2> QED BY <1>7, <2>1, <2>2, <2>3, Zenon DEF Plan
  <1> HIDE DEF info, look
  <1>8. CASE o \in {"info", "test_page"}
    <2>1. /\ info \in Seq(StepNames) /\ Len(info) >= 4
          /\ info[1] = "answering" /\ info[Len(info)] = "timer"
          /\ \A i \in 2..Len(info) : info[i] \in Late
      BY InfoIs DEF info
    <2>2. Steps[o] = info
      BY <1>3, <1>8
    <2>3. info # <<>> /\ Len(info) \in Nat
      BY <2>1, EmptySeq, LenProperties
    <2>4. \A i \in 1..Len(info) : info[i] \in Late \cup {"answering"}
      BY <2>1, <2>3
    <2>5. \A i \in 1..Len(info) : info[i] \in May(o)
      BY <1>8, <2>4 DEF May
    <2> QED BY <1>8, <2>1, <2>2, <2>3, <2>5 DEF Plan
  <1>9. CASE o = "identify"
    <2>1. /\ look \in Seq(StepNames) /\ Len(look) = 2 + Len(Pulse)
          /\ \A i \in 1..(2 + Len(Pulse)) :
               look[i] = IF i <= 2 THEN <<"answering", "look">>[i] ELSE Pulse[i - 2]
      <3>1. <<"answering", "look">> \in Seq(StepNames) /\ Len(<<"answering", "look">>) = 2
        BY DEF StepNames
      <3> QED BY <3>1, PulseIs, ConcatProperties DEF look
    <2>2. Len(Pulse) \in Nat /\ Len(Pulse) >= 2
      BY PulseIs, LenProperties
    <2>3. look[Len(look)] = "paper"
      BY <2>1, <2>2, PulseIs
    <2>4. look # <<>>
      BY <2>1, <2>2, EmptySeq
    <2>5. ASSUME NEW i \in 1..Len(look)
          PROVE  look[i] \in {"answering", "look", "feed", "paper"}
      <3>1. CASE i <= 2
        BY <2>1, <2>2, <3>1
      <3>2. CASE ~(i <= 2)
        BY <2>1, <2>2, <3>2, PulseIs
      <3> QED BY <3>1, <3>2
    <2>6. \A i \in 1..Len(look) : look[i] \in May("identify")
      BY <2>5 DEF May
    <2>7. Steps[o] = look
      BY <1>3, <1>9
    <2> QED BY <1>9, <2>1, <2>3, <2>4, <2>6, <2>7 DEF Plan
  <1> QED BY <1>1, <1>4, <1>5, <1>6, <1>7, <1>8, <1>9

\* auto_off without minutes.
LEMMA TimerlessPlan ==
  "auto_off" \in Ops => Plan("auto_off", <<"answering", "timer">>)
  BY DEF Plan, May, StepNames, Late

\* A new connection puts the setting of the timer in front.
LEMMA ConnectPlan ==
  ASSUME NEW o \in Ops \cap {"connect", "identify", "test_page"}
  PROVE  Plan(o, <<"apply">> \o Steps[o])
  <1>1. "apply" \in StepNames /\ "apply" \in May(o)
    BY DEF StepNames, May
  <1>2. CASE o = "connect"
    <2>1. Steps[o] = <<>>
      BY <1>2 DEF Steps
    <2>2. <<"apply">> \o <<>> = <<"apply">>
      OBVIOUS
    <2> QED BY <1>1, <1>2, <2>1, <2>2 DEF Plan
  <1>3. CASE o # "connect"
    <2> DEFINE t == Steps[o]
               u == <<"apply">> \o t
    <2>1. Plan(o, t)
      BY <1>3, StepsPlan
    <2>2. t[1] = "answering"
      <3>1. Steps.test_page[1] = "answering"
        BY InfoIs, Zenon DEF Steps
      <3>2. Steps.identify[1] = "answering"
        <4>1. <<"answering", "look">> \in Seq(StepNames) /\ Len(<<"answering", "look">>) = 2
          BY DEF StepNames
        <4>2. (<<"answering", "look">> \o Pulse)[1] = <<"answering", "look">>[1]
          BY <4>1, PulseIs, ConcatProperties, LenProperties
        <4> QED BY <4>2, Zenon DEF Steps
      <3> QED BY <1>3, <3>1, <3>2
    <2> HIDE DEF t
    <2>3. t \in Seq(StepNames) /\ t # <<>> /\ Len(t) \in Nat /\ Len(t) >= 1
      BY <2>1, EmptySeq, LenProperties DEF Plan
    <2>4. /\ u \in Seq(StepNames) /\ Len(u) = Len(t) + 1 /\ u[1] = "apply" /\ u # <<>>
          /\ \A i \in 2..(Len(t) + 1) : u[i] = t[i - 1]
      BY <1>1, <2>3, PrefixIs
    <2> HIDE DEF u
    <2>5. \A i \in 1..Len(t) : t[i] \in May(o)
      BY <2>1 DEF Plan
    <2>6. \A i \in 1..Len(u) : u[i] \in May(o)
      BY <1>1, <2>3, <2>4, <2>5, SMTT(30)
    <2>7. u[Len(u)] = t[Len(t)] /\ u[2] = t[1]
      BY <2>3, <2>4
    <2>8. o = "identify" => Plan(o, u)
      BY <2>1, <2>4, <2>6, <2>7 DEF Plan
    <2>9. o = "test_page" => Plan(o, u)
      <3>1. o = "test_page" => t[Len(t)] = "timer" /\ \A i \in 2..Len(t) : t[i] \in Late
        BY <2>1, <2>2 DEF Plan
      <3>2. o = "test_page" => \A i \in 3..Len(u) : u[i] \in Late
        BY <2>3, <2>4, <3>1
      <3> QED BY <2>2, <2>4, <2>6, <2>7, <3>1, <3>2 DEF Plan
    <2> QED BY <1>3, <2>8, <2>9 DEF u, t
  <1> QED BY <1>2, <1>3

-----------------------------------------------------------------------------
(* Types.                                                                   *)

WorldInv ==
  /\ lid \in Lids /\ sheet \in 0..SheetFeeds /\ timer \in Timers
  /\ mute \in BOOLEAN /\ up \in BOOLEAN

\* A sheet in the rollers is past the sensor.
RollInv == rollers \in BOOLEAN /\ (rollers => sheet = 0)

\* Nothing is under way without a connection.
LinkInv ==
  /\ inbox \in Seq(Commands) /\ Len(inbox) <= MaxInbox
  /\ notes \in Seq(Events) /\ Len(notes) <= MaxNotes
  /\ ~up => inbox = <<>> /\ notes = <<>>

\* Who waits is told an answer of the kind that was asked for.
WaiterInv ==
  /\ pc # "waiting" => waiter = NoWaiter
  /\ pc = "waiting" =>
       /\ waiter = [kind |-> waiter.kind, got |-> waiter.got]
       /\ waiter.kind = Asks(Step)
       /\ waiter.got \in ValuesOf(waiter.kind) \cup {NoAnswer}

StepInv ==
  /\ op \in Ops \cup {"none"}
  /\ pc \in {"next", "written", "waiting", "reconnect", "blind", "fill", "watch"}
  /\ absent \in {"off", "clear", "set"} /\ sent \in Nat
  /\ op = "none" => todo = <<>> /\ pc = "next" /\ absent = "off"
  /\ op # "none" => Plan(op, todo) /\ says = "nothing"
  /\ pc \in {"written", "waiting"} => Asks(Step) \in Kinds
  /\ pc \in {"blind", "fill", "watch"} \/ absent # "off" => Step = "eject"
  /\ pc = "reconnect" => Step = "answering"
  /\ pc = "fill" => sent < Smaller(Ahead, MaxFeeds)
  /\ pc = "blind" => sent < Blind
  /\ pc # "blind" => sent <= MaxFeeds

SinceInv == since \in [lids : SUBSET Lids, papers : SUBSET Papers, calm : BOOLEAN]

IInv == WorldInv /\ LinkInv /\ WaiterInv /\ StepInv /\ SinceInv

LEMMA Bounds ==
  /\ SheetFeeds \in Nat /\ MaxFeeds \in Nat /\ Ahead \in Nat /\ Blind \in Nat
  /\ MaxInbox \in Nat /\ MaxNotes \in Nat
  /\ SheetFeeds > 0 /\ MaxFeeds > 0 /\ Ahead > 0 /\ Blind > 0 /\ MaxInbox > 0 /\ MaxNotes > 1
  BY EventsAssumption

LEMMA NoneIsNoOp == "none" \notin Ops
  BY OpsAssumption

\* The parts of IInv are the conjuncts of TypeOK, and more.
LEMMA TypesHold == IInv /\ RollInv => TypeOK
  <1> SUFFICES ASSUME IInv, RollInv PROVE TypeOK
    OBVIOUS
  <1>1. waiter.kind \in Kinds \cup {"none"} /\ waiter.got \in Values \cup {NoAnswer}
        /\ ((waiter.kind # "none") <=> (pc = "waiting"))
    <2>1. CASE pc = "waiting"
      <3>1. waiter.kind \in Kinds /\ waiter.got \in ValuesOf(waiter.kind) \cup {NoAnswer}
        BY <2>1 DEF IInv, WaiterInv, StepInv
      <3>2. waiter.kind # "none"
        BY <3>1 DEF Kinds
      <3>3. ValuesOf(waiter.kind) \subseteq Values
        BY DEF ValuesOf, Values
      <3> QED BY <2>1, <3>1, <3>2, <3>3
    <2>2. CASE pc # "waiting"
      <3>1. waiter.kind = "none" /\ waiter.got = NoAnswer
        BY <2>2 DEF IInv, WaiterInv, NoWaiter
      <3> QED BY <2>2, <3>1
    <2> QED BY <2>1, <2>2
  <1>2. sent <= IF pc = "blind" THEN Blind ELSE MaxFeeds
    BY Bounds DEF IInv, StepInv
  <1>3. /\ op \in Ops \cup {"none"}
        /\ pc \in {"next", "written", "waiting", "reconnect", "blind", "fill", "watch"}
        /\ op = "none" => todo = <<>> /\ pc = "next" /\ absent = "off"
        /\ absent # "off" => todo # <<>> /\ Step = "eject"
    BY DEF IInv, StepInv, Plan
  <1> QED BY <1>1, <1>2, <1>3 DEF TypeOK, IInv, WorldInv, RollInv, LinkInv

\* The end of a command, or of a step of it.
LEMMA ReturnSteps ==
  ASSUME NEW v, Return(v)
  PROVE  StepInv' /\ pc' = "next" /\ op' = "none" /\ says' = v
  BY NoneIsNoOp, Bounds DEF Return, StepInv, Smaller

LEMMA GoOnSteps ==
  ASSUME StepInv, op # "none", NEW t, NEW v, GoOn(t, v), t # <<>> => Plan(op, t)
  PROVE  StepInv' /\ pc' = "next"
  <1>1. CASE t = <<>>
    BY <1>1, ReturnSteps DEF GoOn
  <1>2. CASE t # <<>>
    <2>1. /\ todo' = t /\ pc' = "next" /\ absent' = "off" /\ sent' = 0
          /\ op' = op /\ says' = says
      BY <1>2 DEF GoOn
    <2> QED BY <1>2, <2>1, Bounds DEF StepInv
  <1> QED BY <1>1, <1>2

LEMMA StepIs ==
  ASSUME StepInv, op # "none"
  PROVE  /\ op \in Ops /\ Plan(op, todo) /\ todo \in Seq(StepNames) /\ todo # <<>>
         /\ Step = todo[1] /\ Step \in May(op) /\ Step \in StepNames
         /\ Tail(todo) # <<>> => Plan(op, Tail(todo))
  <1>1. op \in Ops /\ Plan(op, todo)
    BY DEF StepInv
  <1>2. todo \in Seq(StepNames) /\ todo # <<>> /\ \A i \in 1..Len(todo) : todo[i] \in May(op)
    BY <1>1 DEF Plan
  <1>3. Step = todo[1] /\ Step \in StepNames /\ 1 \in 1..Len(todo)
    BY <1>2, TailIs, LenProperties DEF Step
  <1> QED BY <1>1, <1>2, <1>3, PlanTail

LEMMA TailSteps ==
  ASSUME StepInv, op # "none", NEW v, GoOn(Tail(todo), v)
  PROVE  StepInv' /\ pc' = "next"
  BY StepIs, GoOnSteps, Zenon

LEMMA AfterSteps ==
  ASSUME StepInv, op # "none", NEW v, After(v)
  PROVE  StepInv' /\ pc' # "waiting"
  <1>1. CASE Step = "answering" /\ v = NoAnswer
    <2>1. pc' = "reconnect" /\ UNCHANGED <<op, todo, absent, sent, says>>
      <3>1. op # "check_ready"
        BY <1>1, StepIs DEF May
      <3> QED BY <1>1, <3>1, Zenon DEF After
    <2> QED BY <1>1, <2>1 DEF StepInv, Step
  <1>2. CASE Step = "eject"
    <2>1. /\ pc' = (IF v = "present" THEN "fill" ELSE "blind")
          /\ sent' = 0 /\ UNCHANGED <<op, todo, absent, says>>
      <3>1. op # "check_ready" /\ Step # "answering"
        BY <1>2, StepIs DEF May
      <3> QED BY <1>2, <3>1, Zenon DEF After, EjectsAfter
    <2>2. 0 < Smaller(Ahead, MaxFeeds) /\ 0 < Blind /\ 0 <= MaxFeeds
      BY Bounds DEF Smaller
    <2> QED BY <1>2, <2>1, <2>2 DEF StepInv, Step
  <1>3. CASE op = "check_ready"
    <2>1. Step \in {"lid", "paper"}
      BY <1>3, StepIs DEF May
    <2>2. Return("not ready") \/ GoOn(Tail(todo), "ready")
      BY <1>3, <2>1 DEF After
    <2> QED BY <2>2, ReturnSteps, TailSteps
  <1>4. CASE op \in {"info", "test_page"} /\ Step = "lid" /\ v # "closed"
    <2>1. GoOn(Tail(Tail(todo)), v)
      BY <1>4, Zenon DEF After
    <2>2. Tail(Tail(todo)) # <<>> => Plan(op, Tail(Tail(todo)))
      BY <1>4, StepIs, PlanSkips
    <2> QED BY <2>1, <2>2, GoOnSteps
  <1>5. CASE Step = "look" /\ v = "present"
    <2>1. GoOn(<<"eject">> \o Tail(todo), v)
      <3>1. op # "check_ready"
        BY <1>5, StepIs DEF May
      <3> QED BY <1>5, <3>1, Zenon DEF After
    <2>2. Plan(op, <<"eject">> \o Tail(todo))
      BY <1>5, StepIs, PlanEjects
    <2> QED BY <2>1, <2>2, GoOnSteps
  <1>6. CASE Step = "apply" /\ v # Wanted
    <2>1. GoOn(<<"set">> \o Tail(todo), v)
      <3>1. op # "check_ready"
        BY <1>6, StepIs DEF May
      <3> QED BY <1>6, <3>1, Zenon DEF After
    <2>2. Plan(op, <<"set">> \o Tail(todo))
      BY <1>6, StepIs, PlanSets
    <2> QED BY <2>1, <2>2, GoOnSteps
  <1>7. CASE /\ ~(Step = "answering" /\ v = NoAnswer) /\ Step # "eject" /\ op # "check_ready"
             /\ ~(op \in {"info", "test_page"} /\ Step = "lid" /\ v # "closed")
             /\ ~(Step = "look" /\ v = "present") /\ ~(Step = "apply" /\ v # Wanted)
    <2>1. GoOn(Tail(todo), v)
      BY <1>7, Zenon DEF After
    <2> QED BY <2>1, TailSteps
  <1> QED BY <1>1, <1>2, <1>3, <1>4, <1>5, <1>6, <1>7

\* What is written and what is said keeps its type.
LEMMA WriteLinks ==
  ASSUME LinkInv, NEW do, NEW to, Command(do, to) \in Commands, Write(do, to)
  PROVE  /\ LinkInv' /\ up /\ up' = up /\ notes' = notes
         /\ inbox' = Append(inbox, Command(do, to)) /\ Len(inbox') = Len(inbox) + 1
  <1>1. /\ up /\ Len(inbox) < MaxInbox /\ up' = up /\ notes' = notes
        /\ inbox' = Append(inbox, Command(do, to))
    BY DEF Write, CanSend
  <1>2. /\ inbox' \in Seq(Commands) /\ Len(inbox') = Len(inbox) + 1 /\ Len(inbox) \in Nat
    BY <1>1, AppendProperties, LenProperties DEF LinkInv
  <1> QED BY <1>1, <1>2, Bounds DEF LinkInv

LEMMA Written ==
  /\ \A k \in Kinds \cup {"feed", "clear"} : Command(k, NoAnswer) \in Commands
  /\ \A t \in Timers : Command("set", t) \in Commands
  <1>1. \A k \in Kinds \cup {"feed", "clear"} : k # "set"
    BY DEF Kinds
  <1> QED BY <1>1 DEF Command, Commands

\* What _apply_auto_off sets is a setting.
LEMMA Wanteds == Wanted \in Timers
  BY EventsAssumption

\* A step of the command in progress.
LEMMA RunsStep ==
  ASSUME IInv, Runs
  PROVE  IInv'
  <1> USE DEF IInv
  <1>1. CASE Query
    <2>1. /\ op # "none" /\ pc = "next" /\ Asks(Step) \in Kinds
          /\ Write(Asks(Step), NoAnswer) /\ pc' = "written"
          /\ absent' = (IF Step = "eject" THEN "clear" ELSE absent)
          /\ UNCHANGED <<world, op, todo, waiter, sent, says, since>>
      BY <1>1, Zenon DEF Query
    <2>2. LinkInv' /\ up' = up
      BY <2>1, WriteLinks, Written
    <2>3. StepInv'
      BY <2>1 DEF StepInv, Step
    <2>4. WaiterInv' /\ SinceInv' /\ WorldInv'
      BY <2>1, <2>2 DEF WaiterInv, SinceInv, WorldInv, world
    <2> QED BY <2>2, <2>3, <2>4
  <1>2. CASE Registered
    <2>1. /\ op # "none" /\ pc = "written" /\ pc' = "waiting"
          /\ waiter' = [kind |-> Asks(Step), got |-> NoAnswer]
          /\ UNCHANGED <<world, link, op, todo, absent, sent, says, since>>
      BY <1>2, Zenon DEF Registered, Register
    <2>2. StepInv'
      BY <2>1 DEF StepInv, Step
    <2>3. WaiterInv'
      BY <2>1 DEF WaiterInv, Step
    <2>4. LinkInv' /\ SinceInv' /\ WorldInv'
      BY <2>1 DEF LinkInv, SinceInv, WorldInv, world, link
    <2> QED BY <2>2, <2>3, <2>4
  <1>3. CASE QueryEnds
    <2>1. PICK v : /\ pc = "waiting" /\ v = waiter.got /\ waiter' = NoWaiter
                   /\ After(v) /\ UNCHANGED <<world, link, since>>
      BY <1>3, Zenon DEF QueryEnds, Ends
    <2>2. op # "none"
      BY <2>1 DEF StepInv
    <2>3. StepInv' /\ pc' # "waiting"
      BY <2>1, <2>2, AfterSteps
    <2>4. WaiterInv' /\ LinkInv' /\ SinceInv' /\ WorldInv'
      BY <2>1, <2>3 DEF WaiterInv, LinkInv, SinceInv, WorldInv, world, link
    <2> QED BY <2>3, <2>4
  <1>4. CASE Reconnect
    <2>1. /\ pc = "reconnect" /\ inbox' = <<>> /\ notes' = <<>> /\ mute' = FALSE
          /\ up' \in BOOLEAN
          /\ GoOn(Tail(todo), "done") \/ Return("error")
          /\ UNCHANGED <<lid, sheet, timer, waiter, since>>
      BY <1>4, Zenon DEF Reconnect
    <2>2. StepInv' /\ pc' = "next"
      <3>1. op # "none"
        BY <2>1 DEF StepInv
      <3> QED BY <2>1, <3>1, TailSteps, ReturnSteps
    <2>3. LinkInv'
      BY <2>1, Bounds DEF LinkInv
    <2>4. WaiterInv' /\ SinceInv' /\ WorldInv'
      BY <2>1, <2>2 DEF WaiterInv, SinceInv, WorldInv
    <2> QED BY <2>2, <2>3, <2>4
  <1>5. CASE SetTimer \/ PulseFeed
    <2>1. /\ op # "none" /\ pc = "next" /\ GoOn(Tail(todo), "done")
          /\ UNCHANGED <<world, waiter, since>>
          /\ (\E m \in Timers : Write("set", m)) \/ Write("feed", NoAnswer)
      <3>1. CASE SetTimer
        <4>1. \E m \in (IF op = "auto_off" THEN Timers ELSE {Wanted}) : Write("set", m)
          BY <3>1, Zenon DEF SetTimer
        <4>2. \E m \in Timers : Write("set", m)
          BY <4>1, Wanteds
        <4> QED BY <3>1, <4>2, Zenon DEF SetTimer, At
      <3>2. CASE PulseFeed
        BY <3>2, Zenon DEF PulseFeed, At
      <3> QED BY <1>5, <3>1, <3>2
    <2>2. StepInv' /\ pc' = "next"
      BY <2>1, TailSteps
    <2>3. LinkInv' /\ up' = up
      BY <2>1, WriteLinks, Written
    <2>4. WaiterInv' /\ SinceInv' /\ WorldInv'
      BY <2>1, <2>2, <2>3 DEF WaiterInv, SinceInv, WorldInv, world
    <2> QED BY <2>2, <2>3, <2>4
  <1>6. CASE Eject
    <2>1. CASE BlindFeed \/ FillAhead \/ SensorClear \/ FeedOn
      <3>1. /\ pc \in {"blind", "fill", "watch"}
            /\ EjectFeed("clear") \/ EjectFeed("feed")
        BY <2>1, Zenon DEF BlindFeed, FillAhead, SensorClear, FeedOn
      <3>2. LinkInv' /\ up' = up /\ UNCHANGED <<world, waiter, since>>
        BY <3>1, WriteLinks, Written DEF EjectFeed
      <3>3. op # "none" /\ Step = "eject"
        BY <3>1 DEF StepInv
      <3>4. StepInv' /\ pc' # "waiting"
        <4>1. CASE BlindFeed
          <5>1. CASE sent + 1 = Blind
            <6>1. GoOn(Tail(todo), "blind")
              BY <4>1, <5>1, Zenon DEF BlindFeed, Ejected
            <6> QED BY <3>3, <6>1, TailSteps
          <5>2. CASE sent + 1 # Blind
            <6>1. pc = "blind" /\ sent' = sent + 1 /\ UNCHANGED <<op, todo, pc, absent, says>>
              BY <4>1, <5>2, Zenon DEF BlindFeed
            <6>2. sent \in Nat /\ sent < Blind /\ sent' < Blind /\ sent' \in Nat
              BY <5>2, <6>1, Bounds DEF StepInv
            <6> QED BY <6>1, <6>2 DEF StepInv, Step
          <5> QED BY <5>1, <5>2
        <4>2. CASE FillAhead
          <5>1. /\ pc = "fill" /\ sent' = sent + 1 /\ UNCHANGED <<op, todo, absent, says>>
                /\ pc' = IF sent + 1 < Smaller(Ahead, MaxFeeds) THEN "fill" ELSE "watch"
            BY <4>2, Zenon DEF FillAhead
          <5>2. sent \in Nat /\ sent < Smaller(Ahead, MaxFeeds)
            BY <5>1 DEF StepInv
          <5>3. sent + 1 <= MaxFeeds
            BY <5>2, Bounds DEF Smaller
          <5> QED BY <3>3, <5>1, <5>2, <5>3 DEF StepInv, Step
        <4>3. CASE SensorClear
          <5>1. GoOn(Tail(todo), "ejected")
            BY <4>3, Zenon DEF SensorClear, Ejected
          <5> QED BY <3>3, <5>1, TailSteps
        <4>4. CASE FeedOn
          <5>1. /\ pc = "watch" /\ sent < MaxFeeds /\ sent' = sent + 1
                /\ UNCHANGED <<op, todo, pc, absent, says>>
            BY <4>4, Zenon DEF FeedOn
          <5>2. sent' \in Nat /\ sent' <= MaxFeeds
            BY <5>1, Bounds DEF StepInv
          <5> QED BY <3>3, <5>1, <5>2 DEF StepInv, Step
        <4> QED BY <2>1, <4>1, <4>2, <4>3, <4>4
      <3>5. WaiterInv' /\ SinceInv' /\ WorldInv'
        BY <3>1, <3>2, <3>4 DEF WaiterInv, SinceInv, WorldInv, world
      <3> QED BY <3>2, <3>4, <3>5
    <2>2. CASE GiveUp
      <3>1. /\ pc = "watch" /\ GoOn(Tail(todo), "still present")
            /\ UNCHANGED <<world, link, waiter, since>>
        BY <2>2, Zenon DEF GiveUp, Ejected
      <3>2. StepInv' /\ pc' = "next"
        <4>1. op # "none"
          BY <3>1 DEF StepInv
        <4> QED BY <3>1, <4>1, TailSteps
      <3> QED BY <3>1, <3>2 DEF WaiterInv, LinkInv, SinceInv, WorldInv, world, link
    <2> QED BY <1>6, <2>1, <2>2 DEF Eject
  <1>7. CASE Fails
    <2>1. /\ op # "none" /\ pc \in {"next", "blind", "fill", "watch"}
          /\ GoOn(Tail(todo), "done") \/ Return("error")
          /\ UNCHANGED <<world, link, waiter, since>>
      BY <1>7, Zenon DEF Fails
    <2>2. StepInv' /\ pc' = "next"
      BY <2>1, TailSteps, ReturnSteps
    <2> QED BY <2>1, <2>2 DEF WaiterInv, LinkInv, SinceInv, WorldInv, world, link
  <1> QED BY <1>1, <1>2, <1>3, <1>4, <1>5, <1>6, <1>7 DEF Runs

LEMMA SensedIs == \A l, s : Sensed(l, s) \subseteq Papers
  BY DEF Sensed, Papers

\* A command is called.
LEMMA CallsStep ==
  ASSUME IInv, Calls
  PROVE  /\ IInv' /\ op = "none" /\ op' \in Ops /\ todo # todo' /\ says' = "nothing"
         /\ UNCHANGED <<world, inbox, notes, pc, waiter, absent, sent>>
         /\ since' = [lids   |-> IF op' = "check_ready" THEN {lid} ELSE {},
                      papers |-> IF op' = "check_ready" THEN Sensed(lid, sheet) ELSE {},
                      calm   |-> Calm(op')]
         /\ \/ op' # "connect" /\ todo' = Steps[op'] /\ up' = up
            \/ op' = "auto_off" /\ todo' = <<"answering", "timer">> /\ up' = up
            \/ /\ op' \in {"connect", "identify", "test_page"}
               /\ todo' = <<"apply">> \o Steps[op'] /\ ~up /\ up' = TRUE
  <1> USE DEF IInv
  <1>1. PICK o \in Ops : Call(o) \/ Connect(o)
    BY Zenon DEF Calls
  <1>2. PICK t : /\ Called(o, t) /\ Plan(o, t)
                 /\ \/ o # "connect" /\ t = Steps[o] /\ up' = up
                    \/ o = "auto_off" /\ t = <<"answering", "timer">> /\ up' = up
                    \/ /\ o \in {"connect", "identify", "test_page"}
                       /\ t = <<"apply">> \o Steps[o] /\ ~up /\ up' = TRUE
                 /\ UNCHANGED <<world, inbox, notes>>
    <2>1. CASE Call(o)
      <3>1. o # "connect" /\ UNCHANGED <<world, link>>
        BY <2>1, Zenon DEF Call
      <3>2. PICK t \in {Steps[o]} \cup (IF o = "auto_off" THEN {<<"answering", "timer">>} ELSE {}) :
              Called(o, t)
        BY <2>1, Zenon DEF Call
      <3>3. t = Steps[o] \/ (o = "auto_off" /\ t = <<"answering", "timer">>)
        BY <3>2
      <3>4. Plan(o, t)
        BY <3>1, <3>3, StepsPlan, TimerlessPlan
      <3>5. up' = up /\ UNCHANGED <<world, inbox, notes>>
        BY <3>1, Zenon DEF link
      <3> QED BY <3>1, <3>2, <3>3, <3>4, <3>5
    <2>2. CASE Connect(o)
      <3>1. /\ o \in {"connect", "identify", "test_page"} /\ ~up /\ up' = TRUE
            /\ Called(o, <<"apply">> \o Steps[o]) /\ UNCHANGED <<world, inbox, notes>>
        BY <2>2, Zenon DEF Connect
      <3>2. Plan(o, <<"apply">> \o Steps[o])
        BY <3>1, ConnectPlan
      <3> QED BY <3>1, <3>2
    <2> QED BY <1>1, <2>1, <2>2
  <1>3. /\ op = "none" /\ op' = o /\ todo' = t /\ says' = "nothing"
        /\ since' = [lids   |-> IF o = "check_ready" THEN {lid} ELSE {},
                     papers |-> IF o = "check_ready" THEN Sensed(lid, sheet) ELSE {},
                     calm   |-> Calm(o)]
        /\ UNCHANGED <<pc, waiter, absent, sent>>
    BY <1>2, Zenon DEF Called
  <1>4. StepInv'
    BY <1>2, <1>3, NoneIsNoOp DEF StepInv
  <1>5. todo # todo'
    BY <1>2, <1>3 DEF StepInv, Plan
  <1>6. Calm(o) \in BOOLEAN
    BY DEF Calm
  <1>7. SinceInv'
    BY <1>3, <1>6, SensedIs DEF SinceInv, WorldInv
  <1>8. up' \in BOOLEAN /\ (up => up')
    <2>1. up' = up \/ up' = TRUE
      BY <1>2, Zenon
    <2>2. CASE up' = up
      BY <2>2, Zenon DEF WorldInv
    <2>3. CASE up' = TRUE
      BY <2>3, Zenon
    <2> QED BY <2>1, <2>2, <2>3, Zenon
  <1>9. WorldInv'
    BY <1>2, <1>8, Zenon DEF WorldInv, world
  <1>10. LinkInv'
    BY <1>2, <1>8 DEF LinkInv
  <1>11. WaiterInv'
    BY <1>3 DEF WaiterInv, StepInv
  <1> QED BY <1>2, <1>3, <1>4, <1>5, <1>7, <1>9, <1>10, <1>11

\* A step of the printer, of its user or of the connection.
LEMMA WorldStep ==
  ASSUME IInv, World
  PROVE  IInv' /\ UNCHANGED run
  <1> USE DEF IInv
  <1>1. \A k, v : k \in Kinds /\ v \in ValuesOf(k) => Note(k, v) \in Events
    <2>1. \A k \in Kinds : ValuesOf(k) \subseteq Values
      BY DEF ValuesOf, Values
    <2> QED BY <2>1 DEF Note, Events
  <1>2. ASSUME NEW n \in Events, Len(notes) < MaxNotes
        PROVE  /\ Append(notes, n) \in Seq(Events) /\ Len(Append(notes, n)) <= MaxNotes
    BY <1>2, Bounds, AppendProperties, LenProperties DEF LinkInv
  <1>3. UNCHANGED run
    BY Zenon DEF World, MoveLid, MoveSheet, GoesMute, Drops, RunHead
  <1>4. WaiterInv' /\ StepInv'
    BY <1>3 DEF run, WaiterInv, StepInv, Step
  <1>5. ASSUME NEW l \in Lids, NEW s, Witness(l, s)
        PROVE  SinceInv'
    <2>1. CASE op = "check_ready"
      <3>1. since' = [since EXCEPT !.lids = @ \cup {l}, !.papers = @ \cup Sensed(l, s)]
        BY <1>5, <2>1 DEF Witness
      <3> QED BY <3>1, SensedIs DEF SinceInv
    <2>2. CASE op # "check_ready"
      BY <1>5, <2>2 DEF Witness, SinceInv
    <2> QED BY <2>1, <2>2
  <1>6. CASE MoveLid
    <2>1. /\ UserRoom /\ lid' = (IF lid = "open" THEN "closed" ELSE "open")
          /\ notes' = (IF up /\ ~mute THEN Append(notes, Note("lid", lid')) ELSE notes)
          /\ Witness(lid', sheet) /\ UNCHANGED <<sheet, timer, mute, up, inbox>>
      BY <1>6, Zenon DEF MoveLid
    <2>2. WorldInv'
      BY <2>1 DEF WorldInv, Lids
    <2>3. Note("lid", lid') \in Events
      BY <1>1, <2>2 DEF WorldInv, Kinds, ValuesOf
    <2>4. Len(notes) < MaxNotes
      BY <2>1, LenProperties, Bounds DEF UserRoom, LinkInv
    <2>5. LinkInv'
      BY <1>2, <2>1, <2>3, <2>4 DEF LinkInv
    <2>6. SinceInv'
      BY <1>5, <2>1, <2>2 DEF WorldInv
    <2> QED BY <1>3, <1>4, <2>2, <2>5, <2>6
  <1>7. CASE MoveSheet
    <2>1. /\ UserRoom /\ sheet' \in (IF sheet = 0 THEN 1..SheetFeeds ELSE {0})
          /\ notes' = (IF up /\ ~mute
                       THEN Append(notes, Note("paper", IF sheet = 0 THEN "present" ELSE "absent"))
                       ELSE notes)
          /\ since' = [since EXCEPT
                         !.calm = @ /\ (op = "check_ready" \/ (op = "eject" /\ sheet > 0)),
                 !.papers = IF op = "check_ready" THEN @ \cup Sensed(lid, sheet') ELSE @]
          /\ UNCHANGED <<lid, timer, mute, up, inbox>>
      BY <1>7, Zenon DEF MoveSheet
    <2>2. WorldInv'
      BY <2>1, Bounds DEF WorldInv
    <2>3. Note("paper", IF sheet = 0 THEN "present" ELSE "absent") \in Events
      <3>1. (IF sheet = 0 THEN "present" ELSE "absent") \in ValuesOf("paper") /\ "paper" \in Kinds
        BY DEF ValuesOf, Papers, Kinds
      <3> QED BY <1>1, <3>1
    <2>4. Len(notes) < MaxNotes
      BY <2>1, LenProperties, Bounds DEF UserRoom, LinkInv
    <2>5. LinkInv'
      BY <1>2, <2>1, <2>3, <2>4 DEF LinkInv
    <2>6. SinceInv'
      <3>1. (since.calm /\ (op = "check_ready" \/ (op = "eject" /\ sheet > 0))) \in BOOLEAN
        BY DEF SinceInv
      <3> QED BY <2>1, SensedIs DEF SinceInv
    <2> QED BY <1>3, <1>4, <2>2, <2>5, <2>6
  <1>8. CASE GoesMute
    BY <1>3, <1>4, <1>8 DEF GoesMute, WorldInv, LinkInv, SinceInv, link
  <1>9. CASE Drops
    <2>1. LinkInv'
      BY <1>9, Bounds DEF Drops, LinkInv
    <2> QED BY <1>3, <1>4, <1>9, <2>1 DEF Drops, WorldInv, SinceInv
  <1>10. CASE RunHead
    <2> DEFINE c == Head(inbox)
    <2>1. /\ inbox # <<>> /\ Len(notes) < MaxNotes /\ inbox' = Tail(inbox)
          /\ UNCHANGED <<lid, mute, up>>
          /\ \/ UNCHANGED <<sheet, timer, notes, since>>
             \/ c.do \in Kinds /\ Answer(c)
             \/ Move(c.do)
             \/ c.do = "set" /\ timer' = c.to /\ UNCHANGED <<sheet, notes, since>>
      BY <1>10, Zenon DEF RunHead, Room
    <2>2. /\ c \in Commands /\ inbox' \in Seq(Commands) /\ Len(inbox') <= MaxInbox /\ up
      BY <2>1, TailIs, LenProperties, Bounds DEF LinkInv
    <2> HIDE DEF c
    <2>3. CASE UNCHANGED <<sheet, timer, notes, since>>
      BY <1>3, <1>4, <2>1, <2>2, <2>3 DEF WorldInv, LinkInv, SinceInv
    <2>4. CASE c.do \in Kinds /\ Answer(c)
      <3>1. PICK v : /\ v \in (CASE c.do = "lid" -> {lid} [] c.do = "paper" -> Sensed(lid, sheet)
                               [] c.do = "timer" -> {timer} [] OTHER -> {"value"})
                     /\ notes' = Append(notes, Note(c.do, v))
                     /\ UNCHANGED <<sheet, timer, since>>
        BY <2>4, Zenon DEF Answer
      <3>2. v \in ValuesOf(c.do)
        BY <2>4, <3>1, SensedIs DEF ValuesOf, WorldInv
      <3>3. Note(c.do, v) \in Events
        BY <1>1, <2>4, <3>2
      <3>4. LinkInv'
        BY <1>2, <2>1, <2>2, <3>1, <3>3 DEF LinkInv
      <3> QED BY <1>3, <1>4, <2>1, <3>1, <3>4 DEF WorldInv, SinceInv
    <2>5. CASE Move(c.do)
      <3>1. /\ sheet' = (IF sheet > 0 THEN sheet - 1 ELSE 0) /\ timer' = timer
            /\ notes' = (IF sheet = 1 THEN Append(notes, Note("paper", "absent")) ELSE notes)
            /\ Witness(lid, sheet')
        BY <2>5, Zenon DEF Move
      <3>2. WorldInv'
        BY <2>1, <3>1, Bounds DEF WorldInv
      <3>3. Note("paper", "absent") \in Events
        BY <1>1 DEF ValuesOf, Papers, Kinds
      <3>4. LinkInv'
        BY <1>2, <2>1, <2>2, <3>1, <3>3 DEF LinkInv
      <3>5. SinceInv'
        BY <1>5, <3>1 DEF WorldInv
      <3> QED BY <1>3, <1>4, <3>2, <3>4, <3>5
    <2>6. CASE c.do = "set" /\ timer' = c.to /\ UNCHANGED <<sheet, notes, since>>
      <3>1. timer' \in Timers
        BY <2>2, <2>6 DEF Commands
      <3> QED BY <1>3, <1>4, <2>1, <2>2, <2>6, <3>1 DEF WorldInv, LinkInv, SinceInv
    <2> QED BY <2>1, <2>3, <2>4, <2>5, <2>6
  <1> QED BY <1>6, <1>7, <1>8, <1>9, <1>10 DEF World

\* An event comes to the listener and to the waiter.
LEMMA DeliverStep ==
  ASSUME IInv, Deliver
  PROVE  /\ IInv' /\ notes # <<>> /\ notes' = Tail(notes) /\ Head(notes) \in Events
         /\ absent' = (IF absent # "off" /\ Clears(Head(notes)) THEN "set" ELSE absent)
         /\ waiter' = (IF waiter.kind = Head(notes).kind /\ waiter.got = NoAnswer
                       THEN [waiter EXCEPT !.got = Head(notes).value] ELSE waiter)
         /\ UNCHANGED <<world, up, inbox, op, todo, pc, sent, says, since>>
  <1> USE DEF IInv
  <1>1. /\ notes # <<>> /\ notes' = Tail(notes)
        /\ absent' = (IF absent # "off" /\ Clears(Head(notes)) THEN "set" ELSE absent)
        /\ waiter' = (IF waiter.kind = Head(notes).kind /\ waiter.got = NoAnswer
                      THEN [waiter EXCEPT !.got = Head(notes).value] ELSE waiter)
        /\ UNCHANGED <<world, up, inbox, op, todo, pc, sent, says, since>>
    BY Zenon DEF Deliver
  <1>2. /\ Head(notes) \in Events /\ notes' \in Seq(Events) /\ Len(notes') <= MaxNotes
    BY <1>1, TailIs, LenProperties, Bounds DEF LinkInv
  <1>3. LinkInv'
    BY <1>1, <1>2 DEF LinkInv
  <1>4. WorldInv' /\ SinceInv'
    BY <1>1 DEF WorldInv, SinceInv, world
  <1>5. StepInv'
    BY <1>1 DEF StepInv, Step
  <1>6. WaiterInv'
    <2>1. CASE pc = "waiting"
      <3>1. /\ waiter = [kind |-> waiter.kind, got |-> waiter.got] /\ waiter.kind = Asks(Step)
            /\ waiter.got \in ValuesOf(waiter.kind) \cup {NoAnswer}
        BY <2>1 DEF WaiterInv
      <3>2. Head(notes).value \in ValuesOf(Head(notes).kind)
        BY <1>2 DEF Events
      <3>3. /\ waiter' = [kind |-> waiter.kind, got |-> waiter'.got]
            /\ waiter'.got \in ValuesOf(waiter.kind) \cup {NoAnswer}
        BY <1>1, <3>1, <3>2
      <3>4. waiter'.kind = waiter.kind /\ Step' = Step /\ pc' = pc
        BY <1>1, <3>3 DEF Step
      <3> QED BY <2>1, <3>1, <3>3, <3>4 DEF WaiterInv
    <2>2. CASE pc # "waiting"
      <3>1. waiter.kind = "none" /\ pc' = pc
        BY <1>1, <2>2 DEF WaiterInv, NoWaiter
      <3>2. Head(notes).kind # "none"
        BY <1>2 DEF Events, Kinds
      <3>3. waiter' = waiter
        BY <1>1, <3>1, <3>2
      <3> QED BY <2>2, <3>1, <3>3 DEF WaiterInv
    <2> QED BY <2>1, <2>2
  <1> QED BY <1>1, <1>2, <1>3, <1>4, <1>5, <1>6

LEMMA RollStep ==
  ASSUME IInv, RollInv, [Next]_vars
  PROVE  RollInv'
  <1> USE DEF IInv, WorldInv, RollInv
  <1>1. CASE UNCHANGED <<rollers, sheet>>
    BY <1>1
  <1>2. CASE World
    <2>1. CASE MoveSheet
      BY <2>1 DEF MoveSheet
    <2>2. CASE RunHead
      <3>1. ASSUME NEW do, Move(do) PROVE RollInv'
        BY <3>1 DEF Move
      <3>2. UNCHANGED <<rollers, sheet>> \/ \E do : Move(do)
        BY <2>2, Zenon DEF RunHead, Answer
      <3> QED BY <1>1, <3>1, <3>2
    <2>3. CASE MoveLid \/ GoesMute \/ Drops
      BY <1>1, <2>3, Zenon DEF MoveLid, GoesMute, Drops
    <2> QED BY <1>2, <2>1, <2>2, <2>3 DEF World
  <1>3. CASE Deliver \/ Calls
    BY <1>1, <1>3, DeliverStep, CallsStep DEF world
  <1>4. CASE Runs
    <2>1. UNCHANGED <<rollers, sheet>>
      BY <1>4, Zenon DEF Runs, Query, Registered, Register, QueryEnds, Reconnect, SetTimer,
         PulseFeed, Eject, BlindFeed, FillAhead, SensorClear, FeedOn, GiveUp, EjectFeed,
         Fails, world
    <2> QED BY <1>1, <2>1
  <1> QED BY <1>1, <1>2, <1>3, <1>4 DEF Next, vars, world

LEMMA InitHolds == Init => IInv
  <1> SUFFICES ASSUME Init PROVE IInv
    OBVIOUS
  <1>1. WorldInv
    BY DEF Init, WorldInv
  <1>2. LinkInv
    BY Bounds DEF Init, LinkInv
  <1>3. WaiterInv /\ SinceInv
    BY DEF Init, WaiterInv, SinceInv
  <1>4. StepInv
    BY NoneIsNoOp, Bounds DEF Init, StepInv
  <1> QED BY <1>1, <1>2, <1>3, <1>4 DEF IInv

LEMMA StepHolds == IInv /\ [Next]_vars => IInv'
  <1> SUFFICES ASSUME IInv, [Next]_vars PROVE IInv'
    OBVIOUS
  <1>1. CASE UNCHANGED vars
    BY <1>1 DEF vars, world, link, run, IInv, WorldInv, LinkInv, WaiterInv, StepInv, SinceInv, Step
  <1>2. CASE Next
    BY <1>2, WorldStep, DeliverStep, CallsStep, RunsStep, Zenon DEF Next
  <1> QED BY <1>1, <1>2

LEMMA Reached == Spec => []IInv
  BY InitHolds, StepHolds, PTL DEF Spec

\* TypeOK: the waiter of _query and the listener of eject_paper live no longer
\* than their query and their ejection, and no more feeds are sent than
\* max_feeds (or the three blind ones) allow.
THEOREM CommandTypes == Spec => []TypeOK
  <1>1. Init => RollInv
    BY DEF Init, RollInv
  <1>2. IInv /\ RollInv /\ [Next]_vars => RollInv'
    BY RollStep
  <1> QED BY <1>1, <1>2, Reached, TypesHold, PTL DEF Spec

-----------------------------------------------------------------------------
(* What check_ready has seen.                                               *)

LEMMA AppendIs ==
  ASSUME NEW S, NEW s \in Seq(S), NEW e \in S
  PROVE  /\ Append(s, e) \in Seq(S) /\ Len(Append(s, e)) = Len(s) + 1 /\ Len(s) \in Nat
         /\ \A i \in 1..(Len(s) + 1) : Append(s, e)[i] = IF i = Len(s) + 1 THEN e ELSE s[i]
  <1>1. Len(s) \in Nat
    BY LenProperties
  <1>2. /\ Append(s, e) \in Seq(S) /\ Len(Append(s, e)) = Len(s) + 1
        /\ \A i \in 1..Len(s) : Append(s, e)[i] = s[i]
        /\ Append(s, e)[Len(s) + 1] = e
    BY AppendProperties
  <1> QED BY <1>1, <1>2

\* An event of the lid or the sheet shows what they were since the call.
Seen(kind, value, s) == /\ kind = "lid" => value \in s.lids
                        /\ kind = "paper" => value \in s.papers

\* While check_ready runs, every event on its way and every answer it has was
\* seen; behind its first step the lid was closed.
SeenInv ==
  op = "check_ready" =>
    /\ lid \in since.lids /\ Sensed(lid, sheet) \subseteq since.papers
    /\ since.calm =>
         /\ \A i \in 1..Len(notes) : Seen(notes[i].kind, notes[i].value, since)
         /\ waiter.got # NoAnswer => Seen(waiter.kind, waiter.got, since)
         /\ Step = "paper" => "closed" \in since.lids

\* The world moves on under check_ready.
LEMMA WorldSeen ==
  ASSUME IInv, SeenInv, World, op = "check_ready"
  PROVE  SeenInv'
  <1> USE DEF IInv
  <1>1. UNCHANGED run /\ IInv'
    BY WorldStep
  <1>2. UNCHANGED <<op, pc, waiter>> /\ Step' = Step
    BY <1>1, Zenon DEF run, Step
  <1> DEFINE Wider == /\ since.lids \subseteq since'.lids /\ since.papers \subseteq since'.papers
                      /\ since'.calm = since.calm
                      /\ lid' \in since'.lids /\ Sensed(lid', sheet') \subseteq since'.papers
             Fresh == \A i \in 1..Len(notes') :
                        Seen(notes'[i].kind, notes'[i].value, since')
  <1>3. \A k, v : Wider /\ Seen(k, v, since) => Seen(k, v, since')
    BY DEF Seen
  <1>4. ASSUME Wider, since.calm => Fresh
        PROVE  SeenInv'
    BY <1>2, <1>3, <1>4 DEF SeenInv
  <1>5. ASSUME NEW l \in Lids, NEW s, Witness(l, s)
        PROVE  /\ since.lids \subseteq since'.lids /\ since.papers \subseteq since'.papers
               /\ since'.calm = since.calm
               /\ l \in since'.lids /\ Sensed(l, s) \subseteq since'.papers
    <2>1. since' = [since EXCEPT !.lids = @ \cup {l}, !.papers = @ \cup Sensed(l, s)]
      BY <1>5 DEF Witness
    <2> QED BY <2>1 DEF SinceInv
  <1>6. ASSUME Wider, since.calm, notes' = notes
        PROVE  Fresh
    BY <1>3, <1>6 DEF SeenInv
  <1>7. ASSUME NEW k \in Kinds, NEW v \in ValuesOf(k), notes' = Append(notes, Note(k, v)),
               Wider, since.calm, Seen(k, v, since')
        PROVE  Fresh
    <2>1. /\ Note(k, v).kind = k /\ Note(k, v).value = v /\ Note(k, v) \in Events
      BY DEF Note, Events, Values, ValuesOf
    <2>2. /\ Len(notes') = Len(notes) + 1 /\ Len(notes) \in Nat
          /\ \A i \in 1..(Len(notes) + 1) :
               notes'[i] = IF i = Len(notes) + 1 THEN Note(k, v) ELSE notes[i]
      BY <1>7, <2>1, AppendIs DEF LinkInv
    <2>3. \A i \in 1..Len(notes) : Seen(notes[i].kind, notes[i].value, since')
      BY <1>3, <1>7 DEF SeenInv
    <2> QED BY <1>7, <2>1, <2>2, <2>3
  <1> HIDE DEF Fresh
  <1>8. CASE MoveLid
    <2>1. /\ Witness(lid', sheet) /\ sheet' = sheet /\ lid' \in Lids
          /\ notes' = notes \/ notes' = Append(notes, Note("lid", lid'))
      BY <1>1, <1>8 DEF MoveLid, WorldInv
    <2>2. Wider
      BY <1>5, <2>1
    <2>3. Seen("lid", lid', since') /\ lid' \in ValuesOf("lid") /\ "lid" \in Kinds
      BY <2>1, <2>2 DEF Seen, ValuesOf, Kinds
    <2> QED BY <1>4, <1>6, <1>7, <2>1, <2>2, <2>3
  <1>9. CASE MoveSheet
    <2> DEFINE p == IF sheet = 0 THEN "present" ELSE "absent"
    <2>1. /\ notes' = notes \/ notes' = Append(notes, Note("paper", p))
          /\ sheet' \in (IF sheet = 0 THEN 1..SheetFeeds ELSE {0}) /\ lid' = lid
          /\ since' = [since EXCEPT
                         !.calm = @ /\ (op = "check_ready" \/ (op = "eject" /\ sheet > 0)),
                 !.papers = IF op = "check_ready" THEN @ \cup Sensed(lid, sheet') ELSE @]
      BY <1>9, Zenon DEF MoveSheet
    <2>2. /\ since'.lids = since.lids /\ since'.papers = since.papers \cup Sensed(lid, sheet')
          /\ since'.calm = since.calm
      BY <2>1 DEF SinceInv
    <2>3. Wider
      BY <2>1, <2>2 DEF SeenInv
    <2>4. p \in Sensed(lid, sheet') /\ p \in Papers
      BY <2>1, Bounds DEF Sensed, Papers
    <2> HIDE DEF p
    <2>5. Seen("paper", p, since') /\ p \in ValuesOf("paper") /\ "paper" \in Kinds
      BY <2>2, <2>4 DEF Seen, ValuesOf, Kinds
    <2> QED BY <1>4, <1>6, <1>7, <2>1, <2>3, <2>5
  <1>10. CASE GoesMute
    <2>1. UNCHANGED <<lid, sheet, since, notes>>
      BY <1>10, Zenon DEF GoesMute, link
    <2>2. Wider
      BY <2>1 DEF SeenInv
    <2> QED BY <1>4, <1>6, <2>1, <2>2
  <1>11. CASE Drops
    <2>1. UNCHANGED <<lid, sheet, since>> /\ notes' = <<>>
      BY <1>11, Zenon DEF Drops
    <2>2. Wider
      BY <2>1 DEF SeenInv
    <2>3. Fresh
      BY <2>1 DEF Fresh
    <2> QED BY <1>4, <2>2, <2>3
  <1>12. CASE RunHead
    <2> DEFINE c == Head(inbox)
    <2>1. /\ inbox # <<>> /\ lid' = lid
          /\ \/ UNCHANGED <<sheet, notes, since>>
             \/ c.do \in Kinds /\ Answer(c)
             \/ Move(c.do)
      BY <1>12, Zenon DEF RunHead
    <2>2. CASE UNCHANGED <<sheet, notes, since>>
      <3>1. Wider
        BY <2>1, <2>2 DEF SeenInv
      <3> QED BY <1>4, <1>6, <2>2, <3>1
    <2>3. CASE c.do \in Kinds /\ Answer(c)
      <3>1. PICK v : /\ v \in (CASE c.do = "lid" -> {lid} [] c.do = "paper" -> Sensed(lid, sheet)
                               [] c.do = "timer" -> {timer} [] OTHER -> {"value"})
                     /\ notes' = Append(notes, Note(c.do, v))
                     /\ UNCHANGED <<sheet, timer, since>>
        BY <2>3, Zenon DEF Answer
      <3>2. Wider
        BY <2>1, <3>1 DEF SeenInv
      <3>3. v \in ValuesOf(c.do)
        BY <2>3, <3>1, SensedIs DEF ValuesOf, WorldInv
      <3>4. Seen(c.do, v, since')
        BY <2>1, <3>1, <3>2 DEF Seen
      <3> HIDE DEF c
      <3> QED BY <1>4, <1>7, <2>3, <3>1, <3>2, <3>3, <3>4
    <2>4. CASE Move(c.do)
      <3>1. /\ sheet' = (IF sheet > 0 THEN sheet - 1 ELSE 0)
            /\ notes' = (IF sheet = 1 THEN Append(notes, Note("paper", "absent")) ELSE notes)
            /\ Witness(lid, sheet')
        BY <2>4, Zenon DEF Move
      <3>2. Wider
        BY <1>5, <2>1, <3>1 DEF WorldInv
      <3>3. CASE sheet = 1
        <4>1. "absent" \in Sensed(lid', sheet')
          BY <3>1, <3>3 DEF Sensed, Papers
        <4>2. Seen("paper", "absent", since') /\ "absent" \in ValuesOf("paper") /\ "paper" \in Kinds
          BY <3>2, <4>1 DEF Seen, ValuesOf, Kinds, Papers
        <4> QED BY <1>4, <1>7, <3>1, <3>2, <3>3, <4>2
      <3>4. CASE sheet # 1
        BY <1>4, <1>6, <3>1, <3>2, <3>4
      <3> QED BY <3>3, <3>4
    <2> QED BY <2>1, <2>2, <2>3, <2>4
  <1> QED BY <1>8, <1>9, <1>10, <1>11, <1>12 DEF World

\* What was said is settled until the next command.
LEMMA WorldSays ==
  ASSUME IInv, World, op # "check_ready"
  PROVE  UNCHANGED run /\ (since' = since \/ since'.calm = FALSE)
  <1>1. UNCHANGED run
    BY WorldStep
  <1>2. CASE MoveSheet
    <2>1. since' = [since EXCEPT
                      !.calm = @ /\ (op = "check_ready" \/ (op = "eject" /\ sheet > 0)),
                      !.papers = IF op = "check_ready" THEN @ \cup Sensed(lid, sheet') ELSE @]
      BY <1>2, Zenon DEF MoveSheet
    <2> DEFINE calm == since.calm /\ (op = "check_ready" \/ (op = "eject" /\ sheet > 0))
    <2>2. calm \in BOOLEAN /\ (calm = since.calm \/ calm = FALSE)
      BY Zenon DEF IInv, SinceInv
    <2>3. since' = [since EXCEPT !.calm = calm, !.papers = since.papers]
      BY <2>1
    <2> HIDE DEF calm
    <2>4. /\ since = [lids |-> since.lids, papers |-> since.papers, calm |-> since.calm]
          /\ since' = [lids |-> since.lids, papers |-> since.papers, calm |-> calm]
      BY <2>3 DEF IInv, SinceInv
    <2> QED BY <1>1, <2>2, <2>4
  <1>3. CASE MoveLid \/ GoesMute \/ Drops
    BY <1>3, Zenon DEF MoveLid, GoesMute, Drops, Witness
  <1>4. CASE RunHead
    BY <1>4, Zenon DEF RunHead, Answer, Move, Witness
  <1> QED BY <1>1, <1>2, <1>3, <1>4 DEF World

\* The answers do not pass for one another.
LEMMA Apart ==
  /\ NoAnswer \notin {"closed", "open", "present", "absent", "value", "ready", "ejected"}
  /\ "ready" \notin Values \cup {NoAnswer} /\ "ejected" \notin Values \cup {NoAnswer}
  /\ Timers \cap {"nothing", "done", "error", "ready", "not ready", "blind", "ejected",
                  "still present", "value", "closed", "open", "present", "absent"} = {}
  /\ NoAnswer \notin Timers
  BY EventsAssumption DEF Values, Words, Lids, Papers

LEMMA SeenInit == Init => SeenInv /\ ReadyWasSeen
  BY NoneIsNoOp, OpsAssumption, Apart DEF Init, SeenInv, ReadyWasSeen

\* A step of another command says nothing of readiness.
LEMMA QueryWaits ==
  ASSUME IInv, QueryEnds
  PROVE  \E v \in Values \cup {NoAnswer} :
           /\ pc = "waiting" /\ v = waiter.got /\ waiter' = NoWaiter /\ After(v)
           /\ v \in ValuesOf(Asks(Step)) \cup {NoAnswer} /\ waiter.kind = Asks(Step)
           /\ Asks(Step) \in Kinds /\ op # "none" /\ UNCHANGED <<world, link, since>>
  <1>1. PICK v \in Values \cup {NoAnswer} :
          /\ pc = "waiting" /\ v = waiter.got /\ waiter' = NoWaiter /\ After(v)
          /\ UNCHANGED <<world, link, since>>
    BY Zenon DEF QueryEnds, Ends
  <1>2. /\ waiter.kind = Asks(Step) /\ waiter.got \in ValuesOf(Asks(Step)) \cup {NoAnswer}
        /\ Asks(Step) \in Kinds /\ op # "none"
    BY <1>1 DEF IInv, WaiterInv, StepInv
  <1> QED BY <1>1, <1>2

\* A step either leaves the command in progress or ends it with what it says.
LEMMA RunsSays ==
  ASSUME IInv, Runs
  PROVE  /\ op # "none" /\ op' \in {op, "none"} /\ since' = since
         /\ op' = op => says' = says
  <1> USE DEF IInv
  <1>1. op # "none"
    BY Zenon DEF Runs, Query, Registered, QueryEnds, Ends, Reconnect, SetTimer, PulseFeed,
                 Eject, BlindFeed, FillAhead, SensorClear, FeedOn, GiveUp, Fails, At, StepInv,
                 Register
  <1>2. op # "none" /\ op \in Ops
    BY <1>1 DEF StepInv
  <1>3. ASSUME NEW v, Return(v) PROVE op' = "none"
    BY <1>3 DEF Return
  <1>4. ASSUME NEW t, NEW v, GoOn(t, v) PROVE op' = "none" \/ UNCHANGED <<op, says>>
    BY <1>4 DEF GoOn, Return
  <1>5. since' = since
    BY Zenon DEF Runs, Query, Registered, QueryEnds, Reconnect, SetTimer, PulseFeed, Eject,
                 BlindFeed, FillAhead, SensorClear, FeedOn, GiveUp, Fails, EjectFeed, Register
  <1>6. op' = "none" \/ UNCHANGED <<op, says>>
    <2>1. CASE Query \/ Registered
      BY <2>1, Zenon DEF Query, Registered, Register
    <2>2. CASE QueryEnds
      <3>1. PICK v : After(v)
        BY <2>2, Zenon DEF QueryEnds
      <3> QED BY <1>3, <1>4, <3>1 DEF After, EjectsAfter
    <2>3. CASE Reconnect \/ SetTimer \/ PulseFeed \/ Fails
      BY <1>3, <1>4, <2>3, Zenon DEF Reconnect, SetTimer, PulseFeed, Fails
    <2>4. CASE Eject
      BY <1>4, <2>4, Zenon DEF Eject, BlindFeed, FillAhead, SensorClear, FeedOn, GiveUp, Ejected
    <2> QED BY <2>1, <2>2, <2>3, <2>4 DEF Runs
  <1> QED BY <1>1, <1>2, <1>5, <1>6

\* What the last step of a command is.
LEMMA LastStep ==
  ASSUME StepInv, op # "none", Tail(todo) = <<>>
  PROVE  /\ op \in {"info", "test_page"} => Step = "timer"
         /\ op = "identify" => Step = "paper"
  <1>1. todo \in Seq(StepNames) /\ todo # <<>> /\ Step = todo[1] /\ Plan(op, todo)
    BY StepIs
  <1>2. Len(todo) = 1
    <2>1. Len(Tail(todo)) = Len(todo) - 1 /\ Len(todo) \in Nat
      BY <1>1, TailIs, LenProperties, Zenon
    <2>2. Len(Tail(todo)) = 0
      <3>1. Len(<<>>) = 0
        OBVIOUS
      <3> QED BY <3>1, Zenon
    <2> QED BY <2>1, <2>2
  <1> QED BY <1>1, <1>2 DEF Plan

\* What a command says at its end: an answer to a query is what its waiter got.
LEMMA RunsSaid ==
  ASSUME IInv, Runs, op' = "none"
  PROVE  \/ says' \in {"done", "error", "not ready", "blind", "still present"}
         \/ /\ says' = "ready" /\ op = "check_ready" /\ Step = "paper" /\ pc = "waiting"
            /\ waiter.got = "present" /\ UNCHANGED <<world, link>>
         \/ /\ says' = waiter.got /\ says' \in Values \cup {NoAnswer} /\ op # "check_ready"
            /\ pc = "waiting" /\ waiter.kind = Asks(Step) /\ UNCHANGED <<world, link>>
            /\ says' \in Timers => Step = "timer" \/ (Step = "apply" /\ op = "connect")
         \/ says' = "ejected" /\ op = "eject" /\ SensorClear
  <1> USE DEF IInv
  <1>1. op # "none"
    BY RunsSays
  <1>2. /\ op \in Ops /\ todo \in Seq(StepNames) /\ todo # <<>> /\ Step \in May(op)
        /\ Step \in StepNames
    BY <1>1, StepIs
  <1>3. op \in {"check_ready", "status", "info", "test_page", "auto_off", "eject", "identify",
                "connect"}
    BY <1>2, OpsAssumption
  <1>4. ASSUME NEW t, NEW v, GoOn(t, v) PROVE t = <<>> /\ says' = v
    BY <1>1, <1>4 DEF GoOn, Return
  <1>5. CASE QueryEnds
    <2>1. PICK v \in Values \cup {NoAnswer} :
            /\ pc = "waiting" /\ v = waiter.got /\ After(v) /\ UNCHANGED <<world, link>>
            /\ v \in ValuesOf(Asks(Step)) \cup {NoAnswer} /\ waiter.kind = Asks(Step)
            /\ Asks(Step) \in Kinds
      BY <1>5, QueryWaits
    <2>2. CASE op = "check_ready"
      <3>1. Step \in {"lid", "paper"}
        BY <1>2, <2>2 DEF May
      <3>2. (NotReady(v) /\ Return("not ready")) \/ (~NotReady(v) /\ GoOn(Tail(todo), "ready"))
        BY <2>1, <2>2, <3>1 DEF After
      <3>3. CASE Return("not ready")
        BY <3>3 DEF Return
      <3>4. CASE ~NotReady(v) /\ GoOn(Tail(todo), "ready")
        <4>1. Tail(todo) = <<>> /\ says' = "ready"
          BY <1>4, <3>4
        <4>2. todo = <<"lid", "paper">> \/ todo = <<"paper">>
          BY <1>1, <2>2, StepIs DEF Plan
        <4>3. Step = "paper"
          <5>1. todo # <<"lid", "paper">>
            <6>1. <<"paper">> # <<>>
              OBVIOUS
            <6> QED BY <4>1, <6>1, Tails, Zenon
          <5> QED BY <4>2, <5>1 DEF Step
        <4>4. v \in Papers
          BY <2>1, <3>4, <4>3 DEF Asks, ValuesOf, NotReady
        <4>5. v = "present"
          BY <3>4, <4>4 DEF NotReady, Papers
        <4> QED BY <2>1, <2>2, <4>1, <4>3, <4>5
      <3> QED BY <3>2, <3>3, <3>4
    <2>3. CASE op # "check_ready"
      <3>1. /\ \E t : GoOn(t, v)
            /\ Step = "apply" => v = Wanted /\ GoOn(Tail(todo), v)
        <4>1. CASE Step = "eject" \/ (Step = "answering" /\ v = NoAnswer)
          <5>1. op' = op
            <6>1. CASE Step = "eject"
              BY <2>1, <2>3, <6>1, Zenon DEF After, EjectsAfter
            <6>2. CASE Step = "answering" /\ v = NoAnswer
              BY <2>1, <2>3, <6>2, Zenon DEF After
            <6> QED BY <4>1, <6>1, <6>2
          <5> QED BY <1>1, <5>1
        <4>2. CASE Step = "apply"
          <5>1. v # Wanted => GoOn(<<"set">> \o Tail(todo), v)
            BY <2>1, <2>3, <4>2 DEF After
          <5>2. <<"set">> \o Tail(todo) # <<>>
            BY <1>2, TailIs, PrefixIs DEF StepNames
          <5>3. v = Wanted
            BY <1>4, <5>1, <5>2
          <5>4. GoOn(Tail(todo), v)
            BY <2>1, <2>3, <4>2, <5>3 DEF After
          <5> QED BY <5>3, <5>4
        <4>3. CASE Step \notin {"apply", "eject"} /\ ~(Step = "answering" /\ v = NoAnswer)
          BY <2>1, <2>3, <4>3, Zenon DEF After
        <4> QED BY <4>1, <4>2, <4>3
      <3>2. says' = v
        BY <1>4, <3>1
      <3>3. v \in Timers => Step = "timer" \/ (Step = "apply" /\ op = "connect")
        <4> SUFFICES ASSUME v \in Timers PROVE Step = "timer" \/ (Step = "apply" /\ op = "connect")
          OBVIOUS
        <4>1. Asks(Step) = "timer"
          BY <2>1, Apart DEF ValuesOf, Lids, Papers
        <4>2. Step \in {"timer", "apply"}
          BY <4>1 DEF Asks
        <4>3. CASE Step = "apply"
          <5>1. Tail(todo) = <<>>
            BY <1>4, <3>1, <4>3
          <5>2. op \notin {"info", "test_page", "identify"}
            BY <1>1, <4>3, <5>1, LastStep
          <5>3. op \in {"test_page", "identify", "connect"}
            BY <1>2, <1>3, <4>3 DEF May, Late
          <5> QED BY <4>3, <5>2, <5>3
        <4> QED BY <4>2, <4>3
      <3> QED BY <2>1, <2>3, <3>2, <3>3
    <2> QED BY <2>2, <2>3
  <1>6. CASE SensorClear
    <2>1. pc = "watch" /\ GoOn(Tail(todo), "ejected")
      BY <1>6, Zenon DEF SensorClear, Ejected
    <2>2. says' = "ejected" /\ Tail(todo) = <<>>
      BY <1>4, <2>1
    <2>3. Step = "eject" /\ op # "identify"
      BY <1>1, <2>1, <2>2, LastStep DEF StepInv
    <2>4. op = "eject"
      BY <1>2, <1>3, <2>3 DEF May, Late
    <2> QED BY <1>6, <2>2, <2>4
  <1>7. CASE Query \/ Registered
    BY <1>1, <1>7, Zenon DEF Query, Registered, Register
  <1>8. CASE Reconnect \/ SetTimer \/ PulseFeed \/ Fails
    <2>1. Return("error") \/ (\E t : GoOn(t, "done"))
      BY <1>8, Zenon DEF Reconnect, SetTimer, PulseFeed, Fails
    <2>2. says' = "error" \/ says' = "done"
      BY <1>4, <2>1, Zenon DEF Return
    <2> QED BY <2>2
  <1>9. CASE BlindFeed \/ FillAhead \/ FeedOn \/ GiveUp
    <2>1. op' = op \/ (\E t : GoOn(t, "blind")) \/ (\E t : GoOn(t, "still present"))
      BY <1>9, Zenon DEF BlindFeed, FillAhead, FeedOn, GiveUp, Ejected
    <2>2. says' = "blind" \/ says' = "still present"
      BY <1>1, <1>4, <2>1, Zenon
    <2> QED BY <2>2
  <1> QED BY <1>5, <1>6, <1>7, <1>8, <1>9 DEF Runs, Eject

\* The two steps of check_ready.
LEMMA CheckSteps ==
  ASSUME StepInv, op = "check_ready"
  PROVE  /\ todo = <<"lid", "paper">> \/ todo = <<"paper">>
         /\ Step \in {"lid", "paper"} /\ op # "none"
         /\ Step = "lid" => Tail(todo) = <<"paper">>
  <1>1. op # "none"
    OBVIOUS
  <1>2. todo = <<"lid", "paper">> \/ todo = <<"paper">>
    BY <1>1, StepIs DEF Plan
  <1>3. Step \in {"lid", "paper"}
    BY <1>2 DEF Step
  <1>4. Step = "lid" => todo = <<"lid", "paper">>
    BY <1>2 DEF Step
  <1> QED BY <1>1, <1>2, <1>3, <1>4, Tails

LEMMA SeenStep ==
  ASSUME IInv, SeenInv, ReadyWasSeen, [Next]_vars
  PROVE  SeenInv' /\ ReadyWasSeen'
  <1> USE DEF IInv
  <1>1. CASE UNCHANGED vars
    BY <1>1 DEF vars, world, link, run, SeenInv, ReadyWasSeen, Step
  <1>2. CASE World
    <2>1. UNCHANGED run
      BY <1>2, WorldStep
    <2>2. UNCHANGED <<op, says>>
      BY <2>1, Zenon DEF run
    <2>3. CASE op = "check_ready"
      <3>1. says' # "ready"
        BY <2>2, <2>3 DEF StepInv
      <3>2. ReadyWasSeen'
        BY <3>1 DEF ReadyWasSeen
      <3> QED BY <1>2, <2>3, <3>2, WorldSeen
    <2>4. CASE op # "check_ready"
      <3>1. since' = since \/ since'.calm = FALSE
        BY <1>2, <2>4, WorldSays
      <3> QED BY <2>2, <2>4, <3>1 DEF SeenInv, ReadyWasSeen
    <2> QED BY <2>3, <2>4
  <1>3. CASE Deliver
    <2>1. /\ notes # <<>> /\ notes' = Tail(notes)
          /\ waiter' = (IF waiter.kind = Head(notes).kind /\ waiter.got = NoAnswer
                        THEN [waiter EXCEPT !.got = Head(notes).value] ELSE waiter)
          /\ UNCHANGED <<lid, sheet, op, todo, says, since>>
      BY <1>3, DeliverStep DEF world
    <2>2. ReadyWasSeen'
      BY <2>1 DEF ReadyWasSeen
    <2>3. SeenInv'
      <3> SUFFICES ASSUME op = "check_ready", since.calm
                   PROVE  /\ \A i \in 1..Len(notes') : Seen(notes'[i].kind, notes'[i].value, since)
                          /\ waiter'.got # NoAnswer => Seen(waiter'.kind, waiter'.got, since)
        BY <2>1 DEF SeenInv, Step
      <3>1. /\ Len(notes') = Len(notes) - 1 /\ Len(notes) >= 1 /\ Len(notes) \in Nat
            /\ \A i \in 1..Len(notes') : notes'[i] = notes[i + 1]
            /\ Head(notes) = notes[1]
        BY <2>1, TailIs, LenProperties DEF LinkInv
      <3>2. \A i \in 1..Len(notes) : Seen(notes[i].kind, notes[i].value, since)
        BY DEF SeenInv
      <3>3. Seen(Head(notes).kind, Head(notes).value, since)
        BY <3>1, <3>2
      <3>4. waiter'.got # NoAnswer => Seen(waiter'.kind, waiter'.got, since)
        <4>1. waiter.got # NoAnswer => Seen(waiter.kind, waiter.got, since)
          BY DEF SeenInv
        <4>2. waiter = [kind |-> waiter.kind, got |-> waiter.got]
          BY DEF WaiterInv, NoWaiter
        <4> QED BY <2>1, <3>3, <4>1, <4>2
      <3> QED BY <3>1, <3>2, <3>4
    <2> QED BY <2>2, <2>3
  <1>4. CASE Calls
    <2>1. /\ says' = "nothing" /\ UNCHANGED <<lid, sheet, notes, waiter>>
          /\ op = "none" /\ op' \in Ops
          /\ since' = [lids   |-> IF op' = "check_ready" THEN {lid} ELSE {},
                       papers |-> IF op' = "check_ready" THEN Sensed(lid, sheet) ELSE {},
                       calm   |-> Calm(op')]
          /\ op' = "check_ready" => todo' = Steps["check_ready"]
      BY <1>4, CallsStep, Zenon DEF world
    <2>2. ReadyWasSeen'
      BY <2>1 DEF ReadyWasSeen
    <2>3. ASSUME op' = "check_ready" PROVE SeenInv'
      <3>1. Step' = "lid"
        BY <2>1, <2>3 DEF Step, Steps
      <3>2. waiter.got = NoAnswer
        BY <2>1 DEF StepInv, WaiterInv, NoWaiter
      <3>3. since'.calm => 1..Len(notes) = {}
        <4>1. since'.calm => InFlight = {}
          BY <2>1, <2>3 DEF Calm
        <4>2. DOMAIN notes = 1..Len(notes)
          BY LenProperties DEF LinkInv
        <4> QED BY <4>1, <4>2 DEF InFlight
      <3> QED BY <2>1, <2>3, <3>1, <3>2, <3>3 DEF SeenInv
    <2> QED BY <2>2, <2>3 DEF SeenInv
  <1>5. CASE Runs
    <2>1. op # "none" /\ op' \in {op, "none"} /\ since' = since /\ (op' = op => says' = says)
      BY <1>5, RunsSays
    <2>2. CASE op' = "none"
      <3>1. SeenInv'
        BY <2>2 DEF SeenInv
      <3>2. ASSUME says' = "ready" PROVE /\ op = "check_ready" /\ Step = "paper"
                                        /\ waiter.got = "present" /\ pc = "waiting"
        BY <1>5, <2>2, <3>2, RunsSaid, Apart
      <3>3. ASSUME says' = "ready", since.calm
            PROVE  "closed" \in since.lids /\ "present" \in since.papers
        <4>1. waiter.kind = "paper" /\ waiter.got # NoAnswer
          BY <3>2, <3>3, Apart DEF WaiterInv, Asks
        <4> QED BY <3>2, <3>3, <4>1 DEF SeenInv, Seen
      <3> QED BY <2>1, <3>1, <3>3 DEF ReadyWasSeen
    <2>3. CASE op' # "none"
      <3>1. op' = op /\ says' = "nothing"
        BY <2>1, <2>3 DEF StepInv
      <3>2. ReadyWasSeen'
        BY <3>1 DEF ReadyWasSeen
      <3>3. ASSUME op = "check_ready" PROVE SeenInv'
        <4>1. Step \in {"lid", "paper"} /\ (Step = "lid" => Tail(todo) = <<"paper">>)
          BY <3>3, CheckSteps
        <4>2. CASE Query
          <5>1. UNCHANGED <<lid, sheet, notes, waiter, todo>>
            BY <4>2, Zenon DEF Query, Write, world
          <5> QED BY <2>1, <3>1, <5>1 DEF SeenInv, Step
        <4>3. CASE Registered
          <5>1. UNCHANGED <<lid, sheet, notes, todo>> /\ waiter'.got = NoAnswer
            BY <4>3 DEF Registered, Register, world, link
          <5> QED BY <2>1, <3>1, <5>1 DEF SeenInv, Step
        <4>4. CASE QueryEnds
          <5>1. PICK v \in Values \cup {NoAnswer} :
                  /\ pc = "waiting" /\ v = waiter.got /\ waiter' = NoWaiter /\ After(v)
                  /\ v \in ValuesOf(Asks(Step)) \cup {NoAnswer} /\ waiter.kind = Asks(Step)
                  /\ UNCHANGED <<world, link, since>>
            BY <4>4, QueryWaits
          <5>2. UNCHANGED <<lid, sheet, notes>> /\ waiter'.got = NoAnswer
            BY <5>1 DEF world, link, NoWaiter
          <5>3. ~NotReady(v) /\ GoOn(Tail(todo), "ready")
            <6>1. \/ NotReady(v) /\ Return("not ready")
                  \/ ~NotReady(v) /\ GoOn(Tail(todo), "ready")
              BY <3>3, <4>1, <5>1 DEF After
            <6> QED BY <2>3, <6>1 DEF Return
          <5>4. Step = "lid"
            <6>1. Tail(todo) # <<>>
              BY <2>3, <5>3 DEF GoOn, Return
            <6>2. todo # <<"paper">>
              BY <6>1, Tails
            <6>3. todo = <<"lid", "paper">>
              BY <3>3, <6>2, CheckSteps
            <6> QED BY <6>3 DEF Step
          <5>5. v = "closed" /\ waiter.kind = "lid"
            BY <5>1, <5>3, <5>4 DEF Asks, ValuesOf, Lids, NotReady
          <5>6. since.calm => "closed" \in since.lids
            BY <3>3, <5>1, <5>5, Apart DEF SeenInv, Seen
          <5> QED BY <2>1, <3>1, <3>3, <5>2, <5>6 DEF SeenInv
        <4>5. CASE Reconnect \/ SetTimer \/ PulseFeed \/ Eject
          <5>1. pc \in {"reconnect", "blind", "fill", "watch"} \/ Step \in {"set", "feed"}
            BY <4>5, Zenon DEF Reconnect, SetTimer, PulseFeed, Eject, At, BlindFeed, FillAhead,
                               SensorClear, FeedOn, GiveUp
          <5> QED BY <4>1, <5>1 DEF StepInv
        <4>6. CASE Fails
          <5>1. Return("error")
            BY <4>1, <4>6 DEF Fails
          <5> QED BY <2>3, <5>1 DEF Return
        <4> QED BY <1>5, <4>2, <4>3, <4>4, <4>5, <4>6 DEF Runs
      <3> QED BY <3>1, <3>2, <3>3 DEF SeenInv
    <2> QED BY <2>2, <2>3
  <1> QED BY <1>1, <1>2, <1>3, <1>4, <1>5 DEF Next

\* ReadyWasSeen: a "ready" of check_ready comes from a lid that was closed and a
\* sheet that was sensed since the call, whatever the user does while its two
\* queries wait.
THEOREM ReadinessIsSeen == Spec => []ReadyWasSeen
  <1>1. IInv /\ SeenInv /\ ReadyWasSeen /\ [Next]_vars
          => (IInv /\ SeenInv /\ ReadyWasSeen)'
    BY StepHolds, SeenStep
  <1> QED BY <1>1, InitHolds, SeenInit, PTL DEF Spec

-----------------------------------------------------------------------------
(* What is under way.                                                       *)

\* The printer runs the head of what it was written.
RunsHead(c, n) ==
  /\ inbox # <<>> /\ c = Head(inbox) /\ inbox' = Tail(inbox)
  /\ \/ UNCHANGED <<sheet, timer, notes>>
     \/ /\ c.do \in Kinds /\ UNCHANGED <<sheet, timer>> /\ notes' = Append(notes, n)
        /\ n.kind = c.do /\ (c.do = "timer" => n.value = timer)
     \/ /\ c.do \in {"feed", "clear"} /\ timer' = timer
        /\ sheet' = (IF sheet > 0 THEN sheet - 1 ELSE 0)
        /\ notes' = notes \/ (sheet' = 0 /\ n.kind = "paper" /\ notes' = Append(notes, n))
     \/ c.do = "set" /\ timer' = c.to /\ UNCHANGED <<sheet, notes>>

\* Without a hand at the sheet, the world adds events of the lid and answers; only
\* the sheet that eject_paper feeds out may be pulled.
LEMMA CalmWorld ==
  ASSUME IInv, World, op # "check_ready", op = "eject" => ~MoveSheet, since'.calm
  PROVE  /\ since' = since /\ since.calm /\ UNCHANGED run
         /\ \/ UNCHANGED <<sheet, timer, inbox, notes>>
            \/ inbox' = <<>> /\ notes' = <<>> /\ UNCHANGED <<sheet, timer>>
            \/ /\ UNCHANGED <<sheet, timer, inbox>>
               /\ \E n \in Events : n.kind = "lid" /\ notes' = Append(notes, n)
            \/ \E c \in Commands, n \in Events : RunsHead(c, n)
  <1> USE DEF IInv
  <1>1. UNCHANGED run /\ (since' = since \/ since'.calm = FALSE)
    BY WorldSays
  <1>2. since' = since /\ since.calm
    BY <1>1
  <1>3. \A k \in Kinds : \A v \in ValuesOf(k) :
          Note(k, v) \in Events /\ Note(k, v).kind = k /\ Note(k, v).value = v
    BY DEF Note, Events, Values, ValuesOf
  <1>4. CASE MoveLid
    <2>1. /\ UNCHANGED <<sheet, timer, inbox>>
          /\ notes' = notes \/ notes' = Append(notes, Note("lid", lid'))
      BY <1>4, Zenon DEF MoveLid
    <2>2. lid' \in Lids
      BY <1>4 DEF MoveLid, Lids
    <2>3. lid' \in ValuesOf("lid") /\ "lid" \in Kinds
      BY <2>2 DEF ValuesOf, Kinds
    <2>4. Note("lid", lid') \in Events /\ Note("lid", lid').kind = "lid"
      BY <1>3, <2>3
    <2> QED BY <1>1, <1>2, <2>1, <2>4
  <1>5. CASE MoveSheet
    BY <1>2, <1>5 DEF MoveSheet, SinceInv
  <1>6. CASE GoesMute
    BY <1>1, <1>2, <1>6, Zenon DEF GoesMute, link
  <1>7. CASE Drops
    BY <1>1, <1>2, <1>7, Zenon DEF Drops
  <1>8. CASE RunHead
    <2> DEFINE c == Head(inbox)
    <2>1. /\ inbox # <<>> /\ inbox' = Tail(inbox)
          /\ \/ UNCHANGED <<sheet, timer, notes>>
             \/ c.do \in Kinds /\ Answer(c)
             \/ c.do \in {"feed", "clear"} /\ Move(c.do)
             \/ c.do = "set" /\ timer' = c.to /\ UNCHANGED <<sheet, notes>>
      BY <1>8, Zenon DEF RunHead
    <2>2. c \in Commands
      BY <2>1, TailIs DEF LinkInv
    <2> HIDE DEF c
    <2>3. Note("lid", "closed") \in Events
      BY <1>3 DEF ValuesOf, Kinds, Lids
    <2>4. CASE UNCHANGED <<sheet, timer, notes>>
      BY <1>1, <1>2, <2>1, <2>2, <2>3, <2>4 DEF RunsHead, c
    <2>5. CASE c.do \in Kinds /\ Answer(c)
      <3>1. PICK v : /\ v \in (CASE c.do = "lid" -> {lid} [] c.do = "paper" -> Sensed(lid, sheet)
                               [] c.do = "timer" -> {timer} [] OTHER -> {"value"})
                     /\ notes' = Append(notes, Note(c.do, v))
                     /\ UNCHANGED <<sheet, timer>>
        BY <2>5, Zenon DEF Answer
      <3>2. v \in ValuesOf(c.do) /\ (c.do = "timer" => v = timer)
        BY <2>5, <3>1, SensedIs DEF ValuesOf, WorldInv
      <3>3. Note(c.do, v) \in Events /\ Note(c.do, v).kind = c.do /\ Note(c.do, v).value = v
        BY <1>3, <2>5, <3>2
      <3>4. RunsHead(c, Note(c.do, v))
        BY <2>1, <2>5, <3>1, <3>2, <3>3, Zenon DEF RunsHead, c
      <3> QED BY <1>1, <1>2, <2>2, <3>3, <3>4
    <2>6. CASE c.do \in {"feed", "clear"} /\ Move(c.do)
      <3>1. /\ sheet' = (IF sheet > 0 THEN sheet - 1 ELSE 0) /\ timer' = timer
            /\ notes' = (IF sheet = 1 THEN Append(notes, Note("paper", "absent")) ELSE notes)
        BY <2>6, Zenon DEF Move
      <3>2. Note("paper", "absent") \in Events /\ Note("paper", "absent").kind = "paper"
        BY <1>3 DEF ValuesOf, Papers, Kinds
      <3>3. notes' = notes \/ (sheet' = 0 /\ notes' = Append(notes, Note("paper", "absent")))
        BY <3>1
      <3>4. RunsHead(c, Note("paper", "absent"))
        BY <2>1, <2>6, <3>1, <3>2, <3>3, Zenon DEF RunsHead, c
      <3> QED BY <1>1, <1>2, <2>2, <3>2, <3>4
    <2>7. CASE c.do = "set" /\ timer' = c.to /\ UNCHANGED <<sheet, notes>>
      BY <1>1, <1>2, <2>1, <2>2, <2>3, <2>7 DEF RunsHead, c
    <2> QED BY <2>1, <2>4, <2>5, <2>6, <2>7
  <1> QED BY <1>4, <1>5, <1>6, <1>7, <1>8 DEF World

Sheetwise == {"paper", "feed", "clear"}

\* Nothing is under way that could be taken for an answer about the sheet.
NoPaper == /\ \A i \in 1..Len(inbox) : inbox[i].do \notin Sheetwise
           /\ \A i \in 1..Len(notes) : notes[i].kind # "paper"

OnlyLids == \A i \in 1..Len(notes) : notes[i].kind = "lid"

\* A query for the sheet is the last thing written, and the only one; what
\* comes for it comes last.
OneAsked ==
  /\ inbox # <<>> =>
       /\ inbox[Len(inbox)].do = "paper" /\ waiter.got = NoAnswer
       /\ \A i \in 1..(Len(inbox) - 1) : inbox[i].do \notin Sheetwise
       /\ \A i \in 1..Len(notes) : notes[i].kind # "paper"
  /\ \A k \in 1..Len(notes) : notes[k].kind = "paper" =>
       /\ waiter.got = NoAnswer
       /\ \A j \in (k + 1)..Len(notes) : notes[j].kind = "lid"
  /\ waiter.got # NoAnswer => OnlyLids

\* The sequences under way, as their members.
LEMMA UnderWay ==
  ASSUME IInv
  PROVE  /\ Len(inbox) \in Nat /\ Len(notes) \in Nat
         /\ inbox = <<>> <=> Len(inbox) = 0
         /\ \A c \in Commands : Append(inbox, c) # <<>> /\ Len(Append(inbox, c)) = Len(inbox) + 1
              /\ \A i \in 1..(Len(inbox) + 1) :
                   Append(inbox, c)[i] = IF i = Len(inbox) + 1 THEN c ELSE inbox[i]
         /\ \A n \in Events : Len(Append(notes, n)) = Len(notes) + 1
              /\ \A i \in 1..(Len(notes) + 1) :
                   Append(notes, n)[i] = IF i = Len(notes) + 1 THEN n ELSE notes[i]
         /\ inbox # <<>> => Len(Tail(inbox)) = Len(inbox) - 1 /\ Head(inbox) = inbox[1]
              /\ Len(inbox) >= 1
              /\ \A i \in 1..(Len(inbox) - 1) : Tail(inbox)[i] = inbox[i + 1]
         /\ notes # <<>> => Len(Tail(notes)) = Len(notes) - 1 /\ Head(notes) = notes[1]
              /\ Len(notes) >= 1
              /\ \A i \in 1..(Len(notes) - 1) : Tail(notes)[i] = notes[i + 1]
  <1>1. inbox \in Seq(Commands) /\ notes \in Seq(Events)
    BY DEF IInv, LinkInv
  <1>2. Len(inbox) \in Nat /\ Len(notes) \in Nat
    BY <1>1, LenProperties
  <1>3. inbox = <<>> <=> Len(inbox) = 0
    BY <1>1, EmptySeq
  <1>4. ASSUME NEW c \in Commands
        PROVE  /\ Append(inbox, c) # <<>> /\ Len(Append(inbox, c)) = Len(inbox) + 1
               /\ \A i \in 1..(Len(inbox) + 1) :
                    Append(inbox, c)[i] = IF i = Len(inbox) + 1 THEN c ELSE inbox[i]
    <2>1. /\ Append(inbox, c) \in Seq(Commands) /\ Len(Append(inbox, c)) = Len(inbox) + 1
          /\ \A i \in 1..(Len(inbox) + 1) :
               Append(inbox, c)[i] = IF i = Len(inbox) + 1 THEN c ELSE inbox[i]
      BY <1>1, <1>4, AppendIs
    <2>2. Append(inbox, c) # <<>>
      BY <1>2, <2>1, EmptySeq
    <2> QED BY <2>1, <2>2
  <1>5. ASSUME NEW n \in Events
        PROVE  /\ Len(Append(notes, n)) = Len(notes) + 1
               /\ \A i \in 1..(Len(notes) + 1) :
                    Append(notes, n)[i] = IF i = Len(notes) + 1 THEN n ELSE notes[i]
    BY <1>1, <1>5, AppendIs
  <1>6. inbox # <<>> => /\ Len(Tail(inbox)) = Len(inbox) - 1 /\ Head(inbox) = inbox[1]
                        /\ Len(inbox) >= 1
                        /\ \A i \in 1..Len(Tail(inbox)) : Tail(inbox)[i] = inbox[i + 1]
    BY <1>1, TailIs, Zenon
  <1>7. notes # <<>> => /\ Len(Tail(notes)) = Len(notes) - 1 /\ Head(notes) = notes[1]
                        /\ Len(notes) >= 1
                        /\ \A i \in 1..Len(Tail(notes)) : Tail(notes)[i] = notes[i + 1]
    BY <1>1, TailIs, Zenon
  <1> QED BY <1>2, <1>3, <1>4, <1>5, <1>6, <1>7

LEMMA NoPaperWorld ==
  ASSUME IInv, World, op # "check_ready", op = "eject" => ~MoveSheet, since'.calm, NoPaper
  PROVE  NoPaper'
  <1>1. CASE UNCHANGED <<sheet, timer, inbox, notes>>
    BY <1>1 DEF NoPaper
  <1>2. CASE inbox' = <<>> /\ notes' = <<>>
    BY <1>2 DEF NoPaper
  <1>3. ASSUME NEW n \in Events, inbox' = inbox, n.kind = "lid", notes' = Append(notes, n)
        PROVE  NoPaper'
    BY <1>3, UnderWay DEF NoPaper
  <1>4. ASSUME NEW c \in Commands, NEW n \in Events, RunsHead(c, n)
        PROVE  NoPaper'
    <2>1. inbox # <<>> /\ c = inbox[1] /\ inbox' = Tail(inbox) /\ 1 \in 1..Len(inbox)
      BY <1>4, UnderWay DEF RunsHead
    <2>2. c.do \notin Sheetwise
      BY <2>1 DEF NoPaper
    <2>3. notes' = notes \/ (n.kind # "paper" /\ notes' = Append(notes, n))
      BY <1>4, <2>2 DEF RunsHead, Sheetwise
    <2>4. \A i \in 1..Len(inbox') : inbox'[i].do \notin Sheetwise
      BY <2>1, UnderWay DEF NoPaper
    <2>5. \A i \in 1..Len(notes') : notes'[i].kind # "paper"
      BY <2>3, UnderWay DEF NoPaper
    <2> QED BY <2>4, <2>5 DEF NoPaper
  <1> QED BY <1>1, <1>2, <1>3, <1>4, CalmWorld

LEMMA OneAskedWorld ==
  ASSUME IInv, World, op # "check_ready", op = "eject" => ~MoveSheet, since'.calm, OneAsked
  PROVE  OneAsked'
  <1>1. waiter' = waiter
    BY WorldStep, Zenon DEF run
  <1>2. CASE UNCHANGED <<sheet, timer, inbox, notes>>
    BY <1>1, <1>2 DEF OneAsked, OnlyLids
  <1>3. CASE inbox' = <<>> /\ notes' = <<>>
    BY <1>1, <1>3 DEF OneAsked, OnlyLids
  <1>4. ASSUME NEW n \in Events, inbox' = inbox, n.kind = "lid", notes' = Append(notes, n)
        PROVE  OneAsked'
    <2>1. /\ Len(notes') = Len(notes) + 1 /\ Len(notes) \in Nat
          /\ \A i \in 1..(Len(notes) + 1) : notes'[i] = IF i = Len(notes) + 1 THEN n ELSE notes[i]
      BY <1>4, UnderWay
    <2>2. inbox # <<>> => \A i \in 1..Len(notes') : notes'[i].kind # "paper"
      BY <1>4, <2>1 DEF OneAsked
    <2>3. \A k \in 1..Len(notes') : notes'[k].kind = "paper" =>
            /\ waiter.got = NoAnswer
            /\ \A j \in (k + 1)..Len(notes') : notes'[j].kind = "lid"
      BY <1>4, <2>1 DEF OneAsked
    <2>4. waiter.got # NoAnswer => \A i \in 1..Len(notes') : notes'[i].kind = "lid"
      BY <1>4, <2>1 DEF OneAsked, OnlyLids
    <2> QED BY <1>1, <1>4, <2>2, <2>3, <2>4 DEF OneAsked, OnlyLids
  <1>5. ASSUME NEW c \in Commands, NEW n \in Events, RunsHead(c, n)
        PROVE  OneAsked'
    <2>1. /\ inbox # <<>> /\ c = inbox[1] /\ inbox' = Tail(inbox) /\ Len(inbox) \in Nat
          /\ Len(inbox) >= 1 /\ Len(inbox') = Len(inbox) - 1 /\ Len(notes) \in Nat
          /\ \A i \in 1..(Len(inbox) - 1) : inbox'[i] = inbox[i + 1]
      BY <1>5, UnderWay DEF RunsHead
    <2>2. /\ inbox[Len(inbox)].do = "paper" /\ waiter.got = NoAnswer
          /\ \A i \in 1..(Len(inbox) - 1) : inbox[i].do \notin Sheetwise
          /\ \A i \in 1..Len(notes) : notes[i].kind # "paper"
      BY <2>1 DEF OneAsked
    <2>3. CASE Len(inbox) = 1
      <3>1. c.do = "paper" /\ inbox' = <<>>
        <4>1. inbox' \in Seq(Commands)
          BY WorldStep DEF IInv, LinkInv
        <4> QED BY <2>1, <2>2, <2>3, <4>1, EmptySeq
      <3>2. notes' = notes \/ notes' = Append(notes, n)
        BY <1>5, <3>1 DEF RunsHead
      <3>3. \A k \in 1..Len(notes') : notes'[k].kind = "paper" =>
              \A j \in (k + 1)..Len(notes') : notes'[j].kind = "lid"
        <4>1. CASE notes' = notes
          BY <2>2, <4>1
        <4>2. CASE notes' = Append(notes, n)
          <5>1. /\ Len(notes') = Len(notes) + 1
                /\ \A i \in 1..(Len(notes) + 1) :
                     notes'[i] = IF i = Len(notes) + 1 THEN n ELSE notes[i]
            BY <4>2, UnderWay
          <5> QED BY <2>1, <2>2, <5>1
        <4> QED BY <3>2, <4>1, <4>2
      <3> QED BY <1>1, <2>2, <3>1, <3>3 DEF OneAsked
    <2>4. CASE Len(inbox) # 1
      <3>1. c.do \notin Sheetwise
        BY <2>1, <2>2, <2>4
      <3>2. notes' = notes \/ (n.kind # "paper" /\ notes' = Append(notes, n))
        BY <1>5, <3>1 DEF RunsHead, Sheetwise
      <3>3. \A i \in 1..Len(notes') : notes'[i].kind # "paper"
        BY <2>2, <3>2, UnderWay
      <3>4. /\ inbox'[Len(inbox')].do = "paper"
            /\ \A i \in 1..(Len(inbox') - 1) : inbox'[i].do \notin Sheetwise
        BY <2>1, <2>2, <2>4
      <3> QED BY <1>1, <2>2, <3>3, <3>4 DEF OneAsked
    <2> QED BY <2>3, <2>4
  <1> QED BY <1>2, <1>3, <1>4, <1>5, CalmWorld

LEMMA NoPaperDeliver ==
  ASSUME IInv, Deliver, NoPaper
  PROVE  NoPaper'
  <1>1. notes # <<>> /\ notes' = Tail(notes) /\ inbox' = inbox
    BY DeliverStep
  <1> QED BY <1>1, UnderWay DEF NoPaper

LEMMA OneAskedDeliver ==
  ASSUME IInv, Deliver, OneAsked, waiter = NoWaiter \/ waiter.kind = "paper"
  PROVE  OneAsked'
  <1>1. /\ notes # <<>> /\ notes' = Tail(notes) /\ inbox' = inbox
        /\ waiter' = (IF waiter.kind = Head(notes).kind /\ waiter.got = NoAnswer
                      THEN [waiter EXCEPT !.got = Head(notes).value] ELSE waiter)
        /\ Head(notes) \in Events
    BY DeliverStep
  <1>2. /\ Len(notes') = Len(notes) - 1 /\ Head(notes) = notes[1] /\ Len(notes) >= 1
        /\ Len(notes) \in Nat
        /\ \A i \in 1..(Len(notes) - 1) : notes'[i] = notes[i + 1]
    BY <1>1, UnderWay
  <1>3. CASE waiter' = waiter
    <2>1. inbox # <<>> => \A i \in 1..Len(notes') : notes'[i].kind # "paper"
      BY <1>2 DEF OneAsked
    <2>2. \A k \in 1..Len(notes') : notes'[k].kind = "paper" =>
            /\ waiter.got = NoAnswer
            /\ \A j \in (k + 1)..Len(notes') : notes'[j].kind = "lid"
      BY <1>2, SMTT(30) DEF OneAsked
    <2>3. waiter.got # NoAnswer => \A i \in 1..Len(notes') : notes'[i].kind = "lid"
      BY <1>2 DEF OneAsked, OnlyLids
    <2> QED BY <1>1, <1>3, <2>1, <2>2, <2>3 DEF OneAsked, OnlyLids
  <1>4. CASE waiter' # waiter
    <2>1. waiter.kind = "paper" /\ Head(notes).kind = "paper"
      <3>1. waiter.kind = Head(notes).kind
        BY <1>1, <1>4
      <3>2. Head(notes).kind # "none"
        BY <1>1 DEF Events, Kinds
      <3> QED BY <3>1, <3>2 DEF NoWaiter
    <2>2. inbox = <<>>
      BY <1>2, <2>1 DEF OneAsked
    <2>3. \A j \in 2..Len(notes) : notes[j].kind = "lid"
      BY <1>2, <2>1 DEF OneAsked
    <2>4. \A i \in 1..Len(notes') : notes'[i].kind = "lid"
      BY <1>2, <2>3
    <2> QED BY <1>1, <2>2, <2>4 DEF OneAsked, OnlyLids
  <1> QED BY <1>3, <1>4

\* A query that is answered leaves nothing under way but events of the lid.
LEMMA Drained ==
  ASSUME IInv, OneAsked, waiter.got # NoAnswer
  PROVE  inbox = <<>> /\ OnlyLids
  BY DEF OneAsked

LEMMA NoPaperWrite ==
  ASSUME IInv, NoPaper, NEW do, NEW to, do \notin Sheetwise, Command(do, to) \in Commands,
         Write(do, to)
  PROVE  NoPaper'
  <1>1. notes' = notes /\ inbox' = Append(inbox, Command(do, to))
    BY Zenon DEF Write
  <1>2. Command(do, to).do = do
    BY DEF Command
  <1> QED BY <1>1, <1>2, UnderWay DEF NoPaper

LEMMA OneAskedWrite ==
  ASSUME IInv, NoPaper, waiter = NoWaiter, waiter' = waiter, Write("paper", NoAnswer)
  PROVE  OneAsked'
  <1>1. notes' = notes /\ inbox' = Append(inbox, Command("paper", NoAnswer))
    BY Zenon DEF Write
  <1>2. Command("paper", NoAnswer).do = "paper" /\ Command("paper", NoAnswer) \in Commands
    BY Written DEF Command, Kinds
  <1>3. /\ Len(inbox') = Len(inbox) + 1 /\ Len(inbox) \in Nat /\ inbox' # <<>>
        /\ \A i \in 1..(Len(inbox) + 1) :
             inbox'[i] = IF i = Len(inbox) + 1 THEN Command("paper", NoAnswer) ELSE inbox[i]
    BY <1>1, <1>2, UnderWay
  <1>4. inbox'[Len(inbox')].do = "paper" /\ waiter'.got = NoAnswer
    BY <1>2, <1>3 DEF NoWaiter
  <1>5. \A i \in 1..(Len(inbox') - 1) : inbox'[i].do \notin Sheetwise
    BY <1>3 DEF NoPaper
  <1>6. \A i \in 1..Len(notes') : notes'[i].kind # "paper"
    BY <1>1 DEF NoPaper
  <1> QED BY <1>4, <1>5, <1>6 DEF OneAsked

-----------------------------------------------------------------------------
(* The sheet that eject_paper saw.                                          *)

\* While a sheet is at the sensor the query of eject_paper has nothing else about
\* it under way, so that an answer leaves only its own feeds behind it; from then
\* on an event of the sheet, on its way or seen by the listener, is the sheet's
\* end.
EjectInv ==
  op = "eject" /\ since.calm /\ sheet # 0 =>
    /\ pc = "next" => NoPaper
    /\ pc \in {"written", "waiting"} =>
         OneAsked /\ (absent = "set" => inbox = <<>> /\ OnlyLids /\ waiter.got # "present")
    /\ pc \in {"fill", "watch"} =>
         /\ \A i \in 1..Len(inbox) : inbox[i].do = "feed"
         /\ \A i \in 1..Len(notes) : notes[i].kind = "paper" => sheet = 0
         /\ absent = "set" => sheet = 0

LEMMA EjectInit == Init => EjectInv /\ EjectedIsOut
  <1>1. "eject" # "none" /\ "nothing" # "ejected"
    OBVIOUS
  <1> QED BY <1>1 DEF Init, EjectInv, EjectedIsOut

\* The feed that clears the rollers runs behind the sheet, or is lost.
LEMMA FeedsClearWorld ==
  ASSUME IInv, World, sheet = 0, rollers => FeedsClear
  PROVE  rollers' => FeedsClear'
  <1> USE DEF IInv
  <1>1. CASE UNCHANGED <<rollers, up, mute, inbox>>
    BY <1>1 DEF FeedsClear
  <1>2. CASE MoveLid
    BY <1>1, <1>2 DEF MoveLid
  <1>3. CASE MoveSheet
    BY <1>3 DEF MoveSheet
  <1>4. CASE GoesMute \/ Drops
    BY <1>4 DEF GoesMute, Drops, FeedsClear
  <1>5. CASE RunHead
    <2>1. /\ inbox # <<>> /\ inbox' = Tail(inbox) /\ UNCHANGED <<up, mute>>
          /\ ~mute => \/ Head(inbox).do \in Kinds /\ Answer(Head(inbox))
                      \/ Head(inbox).do \in {"feed", "clear"} /\ Move(Head(inbox).do)
                      \/ Head(inbox).do = "set" /\ UNCHANGED rollers
      BY <1>5, Zenon DEF RunHead
    <2>2. mute => FeedsClear'
      BY <2>1 DEF FeedsClear
    <2>3. ~mute => (rollers' => rollers) /\ (rollers' => Head(inbox).do # "clear")
      <3>1. ASSUME NEW do, Move(do), rollers' PROVE rollers /\ do # "clear"
        <4>1. sheet # 1
          OBVIOUS
        <4> QED BY <3>1, <4>1, Zenon DEF Move
      <3>2. ASSUME NEW do \in Kinds \cup {"set"} PROVE do # "clear"
        BY DEF Kinds
      <3>3. ASSUME NEW c, Answer(c) PROVE rollers' = rollers
        BY <3>3, Zenon DEF Answer
      <3> QED BY <2>1, <3>1, <3>2, <3>3
    <2>4. ASSUME ~mute, rollers', up PROVE \E i \in DOMAIN inbox' : inbox'[i].do = "clear"
      <3>1. DOMAIN inbox = 1..Len(inbox) /\ DOMAIN inbox' = 1..Len(inbox')
        BY <2>1, WorldStep, LenProperties DEF LinkInv
      <3>2. PICK i \in 1..Len(inbox) : inbox[i].do = "clear" /\ i # 1
        BY <2>1, <2>3, <2>4, <3>1, UnderWay DEF FeedsClear
      <3>3. i - 1 \in 1..Len(inbox') /\ inbox'[i - 1] = inbox[i]
        BY <2>1, <3>2, UnderWay
      <3> QED BY <3>1, <3>2, <3>3
    <2> QED BY <2>1, <2>2, <2>4 DEF FeedsClear
  <1> QED BY <1>2, <1>3, <1>4, <1>5 DEF World

LEMMA EjectWorld ==
  ASSUME IInv, EjectInv, World, op = "eject", since'.calm, sheet' # 0
  PROVE  EjectInv'
  <1>7. ~MoveSheet
    <2>1. ASSUME MoveSheet PROVE FALSE
      <3>1. sheet > 0 => sheet' = 0
        BY <2>1 DEF MoveSheet, IInv, WorldInv
      <3>2. sheet > 0
        BY <2>1 DEF MoveSheet, IInv, SinceInv
      <3> QED BY <3>1, <3>2
    <2> QED BY <2>1
  <1>1. since' = since /\ since.calm /\ UNCHANGED run /\ sheet # 0
    BY <1>7, CalmWorld DEF RunsHead
  <1>2. UNCHANGED <<op, todo, pc, waiter, absent>>
    BY <1>1, Zenon DEF run
  <1>3. pc = "next" => NoPaper'
    BY <1>1, <1>7, NoPaperWorld DEF EjectInv
  <1>4. pc \in {"written", "waiting"} => OneAsked'
    BY <1>1, <1>7, OneAskedWorld DEF EjectInv
  <1>5. ASSUME pc \in {"written", "waiting"}, absent = "set"
        PROVE  inbox' = <<>> /\ OnlyLids' /\ waiter.got # "present"
    <2>1. inbox = <<>> /\ OnlyLids /\ waiter.got # "present"
      BY <1>1, <1>5 DEF EjectInv
    <2>2. inbox' = <<>> /\ OnlyLids'
      <3>1. CASE UNCHANGED <<sheet, timer, inbox, notes>>
        BY <2>1, <3>1 DEF OnlyLids
      <3>2. CASE inbox' = <<>> /\ notes' = <<>>
        BY <3>2 DEF OnlyLids
      <3>3. ASSUME NEW n \in Events, inbox' = inbox, n.kind = "lid", notes' = Append(notes, n)
            PROVE  inbox' = <<>> /\ OnlyLids'
        BY <2>1, <3>3, UnderWay DEF OnlyLids
      <3>4. ~(\E c \in Commands, n \in Events : RunsHead(c, n))
        BY <2>1 DEF RunsHead
      <3> QED BY <1>7, <3>1, <3>2, <3>3, <3>4, CalmWorld
    <2> QED BY <2>1, <2>2
  <1>6. ASSUME pc \in {"fill", "watch"}
        PROVE  /\ \A i \in 1..Len(inbox') : inbox'[i].do = "feed"
               /\ \A i \in 1..Len(notes') : notes'[i].kind = "paper" => sheet' = 0
               /\ absent = "set" => sheet' = 0
    <2> DEFINE Q == /\ \A i \in 1..Len(inbox') : inbox'[i].do = "feed"
                    /\ \A i \in 1..Len(notes') : notes'[i].kind = "paper" => sheet' = 0
                    /\ absent = "set" => sheet' = 0
    <2>1. /\ \A i \in 1..Len(inbox) : inbox[i].do = "feed"
          /\ \A i \in 1..Len(notes) : notes[i].kind = "paper" => sheet = 0
          /\ absent = "set" => sheet = 0
      BY <1>1, <1>6 DEF EjectInv
    <2>2. CASE UNCHANGED <<sheet, timer, inbox, notes>>
      BY <2>1, <2>2
    <2>3. CASE inbox' = <<>> /\ notes' = <<>> /\ UNCHANGED <<sheet, timer>>
      BY <2>1, <2>3
    <2>4. ASSUME NEW n \in Events, UNCHANGED <<sheet, timer, inbox>>, n.kind = "lid",
                 notes' = Append(notes, n)
          PROVE  Q
      BY <2>1, <2>4, UnderWay
    <2>5. ASSUME NEW c \in Commands, NEW n \in Events, RunsHead(c, n)
          PROVE  Q
      <3>1. inbox # <<>> /\ c = inbox[1] /\ inbox' = Tail(inbox) /\ 1 \in 1..Len(inbox)
        BY <2>5, UnderWay DEF RunsHead
      <3>2. c.do = "feed" /\ c.do \notin Kinds
        BY <2>1, <3>1 DEF Kinds
      <3>3. \/ UNCHANGED <<sheet, notes>>
            \/ /\ sheet' = (IF sheet > 0 THEN sheet - 1 ELSE 0)
               /\ notes' = notes \/ (sheet' = 0 /\ notes' = Append(notes, n))
        BY <2>5, <3>2 DEF RunsHead
      <3>4. sheet = 0 => sheet' = 0
        BY <3>3
      <3>5. \A i \in 1..Len(inbox') : inbox'[i].do = "feed"
        BY <2>1, <3>1, UnderWay
      <3>6. \A i \in 1..Len(notes') : notes'[i].kind = "paper" => sheet' = 0
        BY <2>1, <3>3, <3>4
      <3> QED BY <2>1, <3>4, <3>5, <3>6
    <2> HIDE DEF Q
    <2>6. Q
      <3>1. CASE UNCHANGED <<sheet, timer, inbox, notes>>
        BY <2>2, <3>1 DEF Q
      <3>2. CASE inbox' = <<>> /\ notes' = <<>> /\ UNCHANGED <<sheet, timer>>
        BY <2>3, <3>2 DEF Q
      <3> QED BY <1>7, <2>4, <2>5, <3>1, <3>2, CalmWorld
    <2> QED BY <2>6 DEF Q
  <1> QED BY <1>2, <1>3, <1>4, <1>5, <1>6, Zenon DEF EjectInv

LEMMA EjectDeliver ==
  ASSUME IInv, EjectInv, Deliver
  PROVE  EjectInv'
  <1> SUFFICES ASSUME op = "eject", since.calm, sheet # 0 PROVE EjectInv'
    BY DeliverStep DEF EjectInv, world
  <1>1. /\ notes # <<>> /\ notes' = Tail(notes) /\ Head(notes) \in Events
        /\ absent' = (IF absent # "off" /\ Clears(Head(notes)) THEN "set" ELSE absent)
        /\ waiter' = (IF waiter.kind = Head(notes).kind /\ waiter.got = NoAnswer
                      THEN [waiter EXCEPT !.got = Head(notes).value] ELSE waiter)
        /\ UNCHANGED <<sheet, inbox, op, todo, pc, since>>
    BY DeliverStep DEF world
  <1>2. /\ Len(notes') = Len(notes) - 1 /\ Head(notes) = notes[1] /\ Len(notes) >= 1
        /\ Len(notes) \in Nat
        /\ \A i \in 1..(Len(notes) - 1) : notes'[i] = notes[i + 1]
    BY <1>1, UnderWay
  <1>3. pc = "next" => NoPaper'
    BY NoPaperDeliver DEF EjectInv
  <1>4. ASSUME pc \in {"written", "waiting"}
        PROVE  /\ OneAsked'
               /\ absent' = "set" => inbox = <<>> /\ OnlyLids' /\ waiter'.got # "present"
    <2>1. OneAsked /\ (absent = "set" => inbox = <<>> /\ OnlyLids /\ waiter.got # "present")
      BY <1>4 DEF EjectInv
    <2>2. waiter = NoWaiter \/ waiter.kind = "paper"
      <3>1. op # "none"
        OBVIOUS
      <3>2. todo = <<"eject">>
        BY <3>1, StepIs DEF Plan, IInv
      <3> QED BY <3>2 DEF IInv, WaiterInv, Step, Asks
    <2>3. OneAsked'
      BY <2>1, <2>2, OneAskedDeliver
    <2>4. CASE absent = "set"
      <3>1. inbox = <<>> /\ OnlyLids /\ waiter.got # "present"
        BY <2>1, <2>4
      <3>2. OnlyLids'
        BY <1>1, <1>2, <3>1 DEF OnlyLids
      <3>3. Head(notes).kind = "lid"
        BY <1>2, <3>1 DEF OnlyLids
      <3>4. waiter' = waiter
        BY <1>1, <2>2, <3>3 DEF NoWaiter
      <3> QED BY <2>3, <3>1, <3>2, <3>4
    <2>5. CASE absent # "set" /\ absent' = "set"
      <3>1. Head(notes).kind = "paper" /\ Head(notes).value = "absent"
        BY <1>1, <2>5 DEF Clears
      <3>2. inbox = <<>> /\ waiter.got = NoAnswer /\ \A j \in 2..Len(notes) : notes[j].kind = "lid"
        BY <1>2, <2>1, <3>1 DEF OneAsked
      <3>3. OnlyLids'
        BY <1>1, <1>2, <3>2 DEF OnlyLids
      <3>4. waiter = [kind |-> waiter.kind, got |-> waiter.got]
        BY DEF IInv, WaiterInv, NoWaiter
      <3>5. waiter'.got # "present"
        BY <1>1, <3>1, <3>2, <3>4, Apart
      <3> QED BY <2>3, <3>2, <3>3, <3>5
    <2> QED BY <2>3, <2>4, <2>5
  <1>5. ASSUME pc \in {"fill", "watch"}
        PROVE  /\ \A i \in 1..Len(inbox) : inbox[i].do = "feed"
               /\ \A i \in 1..Len(notes') : notes'[i].kind = "paper" => sheet = 0
               /\ absent' = "set" => sheet = 0
    <2>1. /\ \A i \in 1..Len(inbox) : inbox[i].do = "feed"
          /\ \A i \in 1..Len(notes) : notes[i].kind = "paper" => sheet = 0
          /\ absent = "set" => sheet = 0
      BY <1>5 DEF EjectInv
    <2>2. \A i \in 1..Len(notes') : notes'[i].kind = "paper" => sheet = 0
      BY <1>2, <2>1
    <2>3. absent' = "set" => sheet = 0
      BY <1>1, <1>2, <2>1 DEF Clears
    <2> QED BY <2>1, <2>2, <2>3
  <1> QED BY <1>1, <1>3, <1>4, <1>5 DEF EjectInv

LEMMA EjectCalls ==
  ASSUME IInv, Calls
  PROVE  EjectInv' /\ EjectedIsOut'
  <1>1. /\ says' = "nothing" /\ UNCHANGED <<inbox, notes>> /\ pc' = "next"
        /\ since'.calm = Calm(op')
    <2>1. /\ says' = "nothing" /\ UNCHANGED <<inbox, notes, pc>> /\ op = "none"
          /\ since' = [lids   |-> IF op' = "check_ready" THEN {lid} ELSE {},
                       papers |-> IF op' = "check_ready" THEN Sensed(lid, sheet) ELSE {},
                       calm   |-> Calm(op')]
      BY CallsStep, Zenon
    <2> QED BY <2>1 DEF IInv, StepInv
  <1>2. ASSUME op' = "eject", since'.calm PROVE NoPaper'
    <2>1. InFlight \cap {"paper", "feed", "clear"} = {}
      BY <1>1, <1>2 DEF Calm
    <2>2. DOMAIN notes = 1..Len(notes) /\ DOMAIN inbox = 1..Len(inbox)
      BY LenProperties DEF IInv, LinkInv
    <2> QED BY <1>1, <2>1, <2>2 DEF InFlight, NoPaper, Sheetwise
  <1> QED BY <1>1, <1>2 DEF EjectInv, EjectedIsOut

LEMMA EjectRuns ==
  ASSUME IInv, EjectInv, Runs, op = "eject", op' = "eject", since.calm, sheet # 0
  PROVE  EjectInv'
  <1> USE DEF IInv
  <1>1. op # "none"
    OBVIOUS
  <1>2. todo = <<"eject">>
    BY <1>1, StepIs DEF Plan
  <1>3. Step = "eject" /\ Asks(Step) = "paper"
    BY <1>2 DEF Step, Asks
  <1>4. since' = since
    BY RunsSays
  <1>5. ASSUME NEW v PROVE ~GoOn(Tail(todo), v) /\ ~Return(v)
    BY <1>2, Tails DEF GoOn, Return
  <1>6. CASE Query
    <2>1. pc = "next" /\ Write("paper", NoAnswer) /\ pc' = "written" /\ waiter' = waiter
          /\ absent' = "clear"
      BY <1>3, <1>6, Zenon DEF Query
    <2>2. OneAsked'
      BY <2>1, OneAskedWrite DEF EjectInv, WaiterInv
    <2> QED BY <2>1, <2>2 DEF EjectInv
  <1>7. CASE Registered
    <2>1. pc = "written" /\ pc' = "waiting" /\ waiter'.got = NoAnswer
          /\ UNCHANGED <<inbox, notes, absent>>
      BY <1>7 DEF Registered, Register, link
    <2>2. waiter.got = NoAnswer
      BY <2>1 DEF WaiterInv, NoWaiter
    <2>3. OneAsked /\ (absent = "set" => inbox = <<>> /\ OnlyLids)
      BY <2>1 DEF EjectInv
    <2>4. OneAsked' /\ (absent = "set" => OnlyLids')
      BY <2>1, <2>2, <2>3 DEF OneAsked, OnlyLids
    <2> QED BY <2>1, <2>3, <2>4, Apart DEF EjectInv
  <1>8. CASE QueryEnds
    <2>1. PICK v \in Values \cup {NoAnswer} :
            /\ pc = "waiting" /\ v = waiter.got /\ After(v) /\ UNCHANGED <<world, link, since>>
      BY <1>8, QueryWaits
    <2>2. pc' = (IF v = "present" THEN "fill" ELSE "blind") /\ absent' = absent
      BY <1>3, <2>1, Zenon DEF After, EjectsAfter
    <2>3. UNCHANGED <<inbox, notes, sheet>>
      BY <2>1 DEF world, link
    <2>4. ASSUME v = "present"
          PROVE  inbox = <<>> /\ OnlyLids /\ absent # "set"
      BY <2>1, <2>4, Drained, Apart DEF EjectInv
    <2> QED BY <2>2, <2>3, <2>4 DEF EjectInv, OnlyLids
  <1>9. CASE FillAhead \/ FeedOn
    <2>1. /\ pc \in {"fill", "watch"} /\ Write("feed", NoAnswer)
          /\ UNCHANGED <<world, absent>> /\ pc' \in {"fill", "watch"}
      <3>1. CASE FillAhead
        BY <3>1 DEF FillAhead, EjectFeed
      <3>2. CASE FeedOn
        BY <3>2 DEF FeedOn, EjectFeed
      <3> QED BY <1>9, <3>1, <3>2
    <2>2. notes' = notes /\ inbox' = Append(inbox, Command("feed", NoAnswer)) /\ sheet' = sheet
      BY <2>1, Zenon DEF Write, world
    <2>3. Command("feed", NoAnswer).do = "feed" /\ Command("feed", NoAnswer) \in Commands
      BY Written DEF Command
    <2>4. \A i \in 1..Len(inbox') : inbox'[i].do = "feed"
      BY <2>1, <2>2, <2>3, UnderWay DEF EjectInv
    <2> QED BY <2>1, <2>2, <2>4 DEF EjectInv
  <1>10. CASE BlindFeed \/ SensorClear \/ GiveUp
    <2>1. pc' = "blind"
      BY <1>5, <1>10, Zenon DEF BlindFeed, SensorClear, GiveUp, Ejected
    <2> QED BY <2>1 DEF EjectInv
  <1>11. CASE Reconnect \/ SetTimer \/ PulseFeed
    <2>1. pc = "reconnect" \/ Step \in {"set", "feed"}
      BY <1>11, Zenon DEF Reconnect, SetTimer, PulseFeed, At
    <2> QED BY <1>3, <2>1 DEF StepInv
  <1>12. CASE Fails
    BY <1>3, <1>5, <1>12 DEF Fails
  <1> QED BY <1>6, <1>7, <1>8, <1>9, <1>10, <1>11, <1>12 DEF Runs, Eject

LEMMA EjectStep ==
  ASSUME IInv, EjectInv, EjectedIsOut, [Next]_vars
  PROVE  EjectInv' /\ EjectedIsOut'
  <1> USE DEF IInv
  <1>1. CASE UNCHANGED vars
    BY <1>1 DEF vars, world, link, run, EjectInv, EjectedIsOut, FeedsClear, NoPaper, OneAsked,
       OnlyLids
  <1>2. CASE World
    <2>1. UNCHANGED <<op, says>>
      BY <1>2, WorldStep, Zenon DEF run
    <2>2. EjectInv'
      BY <1>2, <2>1, EjectWorld DEF EjectInv
    <2>3. ASSUME says' = "ejected", since'.calm
          PROVE  sheet' = 0 /\ (rollers' => FeedsClear')
      <3>1. op # "check_ready" /\ op # "eject"
        BY <2>1, <2>3 DEF StepInv
      <3>2. sheet = 0 /\ (rollers => FeedsClear)
        BY <1>2, <2>1, <2>3, <3>1, CalmWorld DEF EjectedIsOut
      <3>3. sheet' = sheet \/ sheet' = (IF sheet > 0 THEN sheet - 1 ELSE 0)
        BY <1>2, <2>3, <3>1, CalmWorld DEF RunsHead
      <3>4. rollers' => FeedsClear'
        BY <1>2, <3>2, FeedsClearWorld
      <3> QED BY <3>2, <3>3, <3>4
    <2> QED BY <2>2, <2>3 DEF EjectedIsOut
  <1>3. CASE Deliver
    <2>1. UNCHANGED <<sheet, rollers, mute, up, inbox, says, since>>
      BY <1>3, DeliverStep DEF world
    <2> QED BY <1>3, <2>1, EjectDeliver DEF EjectedIsOut, FeedsClear
  <1>4. CASE Calls
    BY <1>4, EjectCalls
  <1>5. CASE Runs
    <2>1. op # "none" /\ op' \in {op, "none"} /\ since' = since /\ (op' = op => says' = says)
      BY <1>5, RunsSays
    <2>2. sheet' = sheet
      BY <1>5, Zenon DEF Runs, Query, Registered, Register, QueryEnds, Reconnect, SetTimer,
         PulseFeed, Eject, BlindFeed, FillAhead, SensorClear, FeedOn, GiveUp, EjectFeed,
         Fails, world
    <2>3. EjectInv'
      BY <1>5, <2>1, <2>2, EjectRuns DEF EjectInv
    <2>4. ASSUME says' = "ejected", since'.calm
          PROVE  sheet' = 0 /\ FeedsClear'
      <3>1. op' = "none"
        BY <2>1, <2>4 DEF StepInv
      <3>2. op = "eject" /\ SensorClear
        BY <1>5, <2>4, <3>1, RunsSaid, Apart
      <3>3. pc = "watch" /\ absent = "set" /\ Write("clear", NoAnswer)
        BY <3>2, Zenon DEF SensorClear, EjectFeed
      <3>4. inbox' = Append(inbox, Command("clear", NoAnswer))
        BY <3>3, Zenon DEF Write
      <3>5. Command("clear", NoAnswer).do = "clear" /\ Command("clear", NoAnswer) \in Commands
        BY Written DEF Command
      <3>6. inbox'[Len(inbox) + 1].do = "clear" /\ Len(inbox) + 1 \in DOMAIN inbox'
        BY <3>4, <3>5, UnderWay, AppendProperties DEF LinkInv
      <3> QED BY <2>1, <2>2, <2>4, <3>2, <3>3, <3>6 DEF EjectInv, FeedsClear
    <2> QED BY <2>3, <2>4 DEF EjectedIsOut
  <1> QED BY <1>1, <1>2, <1>3, <1>4, <1>5 DEF Next

\* EjectedIsOut: when eject_paper stops its feeds at the listener's event and
\* says that the sheet is out, no sheet is at the sensor, and the feed that
\* clears the rollers has run, is on its way, or is lost with the connection or
\* to a mute printer; all this unless something of the sheet was under way when
\* it was called, or a sheet was inserted since.
THEOREM EjectedSheetIsOut == Spec => []EjectedIsOut
  <1>1. IInv /\ EjectInv /\ EjectedIsOut /\ [Next]_vars
          => (IInv /\ EjectInv /\ EjectedIsOut)'
    BY StepHolds, EjectStep
  <1> QED BY <1>1, InitHolds, EjectInit, PTL DEF Spec

-----------------------------------------------------------------------------
(* The setting that info, auto_off and connect report.                      *)

Reporting == {"info", "test_page", "auto_off"}

\* Up to the barrier: _answering_printer, behind what Bridge.connect does.
Early == Step \in {"answering", "apply"} \/ (Step = "set" /\ op = "test_page")

BarrierInv ==
  op \in Reporting /\ since.calm /\ Early =>
    /\ pc = "next" \/ Step = "apply" => NoPaper
    /\ pc \in {"written", "waiting"} /\ Step = "answering" => OneAsked

NoSet == \A i \in 1..Len(inbox) : inbox[i].do # "set"

\* Behind the barrier, or on a new connection, what is under way of the timer
\* is of this command, and a setting is written before it is asked for.
Reports == (op \in Reporting /\ ~Early) \/ (op = "connect" /\ Step = "apply")

Settled ==
  /\ \A i \in 1..Len(notes) : notes[i].kind = "timer" => notes[i].value = timer /\ NoSet
  /\ waiter.kind = "timer" /\ waiter.got # NoAnswer => waiter.got = timer /\ NoSet
  /\ \A i, j \in 1..Len(inbox) : inbox[i].do = "timer" /\ inbox[j].do = "set" => j < i
  /\ Step = "set" => /\ \A i \in 1..Len(inbox) : inbox[i].do # "timer"
                     /\ \A i \in 1..Len(notes) : notes[i].kind # "timer"
  /\ op = "connect" => NoSet

TimerInv == since.calm /\ Reports => Settled

SaysInv == says \in Timers /\ since.calm => says = timer /\ NoSet

TInv == BarrierInv /\ TimerInv /\ SaysInv

LEMMA TimerInit == Init => TInv
  BY Apart DEF Init, TInv, BarrierInv, TimerInv, Reporting, Reports, SaysInv

LEMMA NoSetTail ==
  ASSUME IInv, NoSet, inbox' = inbox \/ inbox' = <<>> \/ (inbox # <<>> /\ inbox' = Tail(inbox))
  PROVE  NoSet'
  BY UnderWay DEF NoSet

\* The world answers in order, so that a setting written first is in the answer.
LEMMA SettledWorld ==
  ASSUME IInv, World, op # "check_ready", op = "eject" => ~MoveSheet, since'.calm, Settled
  PROVE  Settled'
  <1>1. UNCHANGED <<op, todo, waiter>> /\ Step' = Step
    BY WorldStep, Zenon DEF run, Step
  <1>2. /\ Len(inbox) \in Nat /\ Len(notes) \in Nat
    BY UnderWay
  <1>3. CASE UNCHANGED <<sheet, timer, inbox, notes>>
    BY <1>1, <1>3 DEF Settled, NoSet
  <1>4. CASE inbox' = <<>> /\ notes' = <<>> /\ UNCHANGED <<sheet, timer>>
    BY <1>1, <1>4 DEF Settled, NoSet
  <1>5. ASSUME NEW n \in Events, UNCHANGED <<sheet, timer, inbox>>, n.kind = "lid",
               notes' = Append(notes, n)
        PROVE  Settled'
    <2>1. \A i \in 1..Len(notes') : notes'[i].kind = "timer" =>
            i \in 1..Len(notes) /\ notes'[i] = notes[i]
      BY <1>5, UnderWay
    <2>2. NoSet' = NoSet
      BY <1>5 DEF NoSet
    <2> QED BY <1>1, <1>5, <2>1, <2>2 DEF Settled
  <1>6. ASSUME NEW c \in Commands, NEW n \in Events, RunsHead(c, n)
        PROVE  Settled'
    <2>1. /\ inbox # <<>> /\ c = inbox[1] /\ inbox' = Tail(inbox) /\ Len(inbox) >= 1
          /\ Len(inbox') = Len(inbox) - 1
          /\ \A i \in 1..(Len(inbox) - 1) : inbox'[i] = inbox[i + 1]
      BY <1>6, UnderWay DEF RunsHead
    <2>2. NoSet => NoSet'
      BY <2>1, NoSetTail
    <2>3. \A i, j \in 1..Len(inbox') : inbox'[i].do = "timer" /\ inbox'[j].do = "set" => j < i
      BY <1>2, <2>1 DEF Settled
    <2>4. Step = "set" => \A i \in 1..Len(inbox') : inbox'[i].do # "timer"
      BY <1>2, <2>1 DEF Settled
    <2>5. c.do = "timer" => NoSet'
      BY <1>2, <2>1 DEF Settled, NoSet
    <2>6. c.do = "set" => ~NoSet
      BY <1>2, <2>1 DEF NoSet
    <2>7. /\ \A i \in 1..Len(notes') : notes'[i].kind = "timer" => notes'[i].value = timer' /\ NoSet'
          /\ Step = "set" => \A i \in 1..Len(notes') : notes'[i].kind # "timer"
      <3>1. CASE c.do = "set"
        <4>1. notes' = notes
          BY <1>6, <3>1 DEF RunsHead, Kinds
        <4>2. \A i \in 1..Len(notes) : notes[i].kind # "timer"
          BY <2>6, <3>1 DEF Settled
        <4> QED BY <4>1, <4>2
      <3>2. CASE c.do # "set" /\ notes' = notes
        <4>1. timer' = timer
          BY <1>6, <3>2 DEF RunsHead
        <4> QED BY <2>2, <3>2, <4>1 DEF Settled
      <3>3. CASE c.do # "set" /\ notes' # notes
        <4>1. /\ timer' = timer /\ notes' = Append(notes, n)
              /\ n.kind = "timer" => n.value = timer /\ c.do = "timer"
          BY <1>6, <3>3 DEF RunsHead
        <4>2. \A i \in 1..Len(notes') :
                \/ i \in 1..Len(notes) /\ notes'[i] = notes[i]
                \/ notes'[i] = n
          BY <4>1, UnderWay
        <4>3. Step = "set" => n.kind # "timer"
          BY <1>2, <2>1, <4>1 DEF Settled
        <4> QED BY <2>2, <2>5, <4>1, <4>2, <4>3 DEF Settled
      <3> QED BY <3>1, <3>2, <3>3
    <2>8. waiter.kind = "timer" /\ waiter.got # NoAnswer => waiter.got = timer' /\ NoSet'
      <3> SUFFICES ASSUME waiter.kind = "timer", waiter.got # NoAnswer
                   PROVE  waiter.got = timer' /\ NoSet'
        OBVIOUS
      <3>1. waiter.got = timer /\ NoSet
        BY DEF Settled
      <3>2. timer' = timer
        BY <1>6, <2>6, <3>1 DEF RunsHead
      <3> QED BY <2>2, <3>1, <3>2
    <2>9. op = "connect" => NoSet'
      BY <2>2 DEF Settled
    <2> QED BY <1>1, <2>3, <2>4, <2>7, <2>8, <2>9 DEF Settled
  <1> QED BY <1>3, <1>4, <1>5, <1>6, CalmWorld

LEMMA SettledDeliver ==
  ASSUME IInv, Deliver, Settled
  PROVE  Settled'
  <1>1. /\ notes # <<>> /\ notes' = Tail(notes)
        /\ waiter' = (IF waiter.kind = Head(notes).kind /\ waiter.got = NoAnswer
                      THEN [waiter EXCEPT !.got = Head(notes).value] ELSE waiter)
        /\ UNCHANGED <<timer, inbox, op, todo>>
    BY DeliverStep DEF world
  <1>2. /\ Len(notes') = Len(notes) - 1 /\ Head(notes) = notes[1] /\ Len(notes) >= 1
        /\ Len(notes) \in Nat
        /\ \A i \in 1..(Len(notes) - 1) : notes'[i] = notes[i + 1]
    BY <1>1, UnderWay
  <1>3. NoSet' = NoSet /\ Step' = Step
    BY <1>1 DEF NoSet, Step
  <1>4. waiter = [kind |-> waiter.kind, got |-> waiter.got]
    BY DEF IInv, WaiterInv, NoWaiter
  <1>5. \A i \in 1..Len(notes') : notes'[i].kind = "timer" => notes'[i].value = timer /\ NoSet
    BY <1>2 DEF Settled
  <1>6. Step = "set" => \A i \in 1..Len(notes') : notes'[i].kind # "timer"
    BY <1>2 DEF Settled
  <1>7. waiter'.kind = "timer" /\ waiter'.got # NoAnswer => waiter'.got = timer /\ NoSet
    <2>1. CASE waiter' = waiter
      BY <2>1 DEF Settled
    <2>2. CASE waiter' # waiter
      <3>1. waiter'.kind = waiter.kind /\ waiter.kind = notes[1].kind /\ waiter'.got = notes[1].value
        BY <1>1, <1>2, <1>4, <2>2
      <3>2. 1 \in 1..Len(notes)
        BY <1>2
      <3> QED BY <3>1, <3>2 DEF Settled
    <2> QED BY <2>1, <2>2
  <1> QED BY <1>1, <1>3, <1>5, <1>6, <1>7 DEF Settled

\* A query is written behind every setting.
LEMMA SettledQuery ==
  ASSUME IInv, Settled, NEW k \in Kinds, Write(k, NoAnswer), Step # "set",
         UNCHANGED <<timer, op, todo, waiter>>
  PROVE  Settled'
  <1> DEFINE c == Command(k, NoAnswer)
  <1>1. notes' = notes /\ inbox' = Append(inbox, c) /\ Step' = Step
    BY Zenon DEF Write, Step
  <1>2. c.do = k /\ c \in Commands /\ k # "set"
    BY Written DEF Command, Kinds
  <1> HIDE DEF c
  <1>3. /\ Len(inbox') = Len(inbox) + 1 /\ Len(inbox) \in Nat
        /\ \A i \in 1..(Len(inbox) + 1) : inbox'[i] = IF i = Len(inbox) + 1 THEN c ELSE inbox[i]
    BY <1>1, <1>2, UnderWay
  <1>4. NoSet => NoSet'
    BY <1>2, <1>3 DEF NoSet
  <1>5. \A i, j \in 1..Len(inbox') : inbox'[i].do = "timer" /\ inbox'[j].do = "set" => j < i
    <2>1. \A i, j \in 1..Len(inbox) : inbox[i].do = "timer" /\ inbox[j].do = "set" => j < i
      BY DEF Settled
    <2> QED BY <1>2, <1>3, <2>1
  <1> QED BY <1>1, <1>4, <1>5 DEF Settled

\* Nothing asks for the timer, and nothing comes of it.
LEMMA SettledFresh ==
  ASSUME waiter'.got = NoAnswer,
         \A i \in 1..Len(inbox') : inbox'[i].do # "timer",
         \A i \in 1..Len(notes') : notes'[i].kind # "timer",
         op' = "connect" => NoSet'
  PROVE  Settled'
  BY DEF Settled

LEMMA GoesOn ==
  ASSUME NEW t, NEW v, GoOn(t, v), op # "none", op' = op
  PROVE  t # <<>> /\ todo' = t /\ pc' = "next" /\ Step' = Head(t)
  BY DEF GoOn, Return, Step

\* The step behind one of a reporting command.
LEMMA Follows ==
  ASSUME IInv, op \in Reporting
  PROVE  /\ Step \in Late \cup {"answering", "apply", "set"} /\ op \in Ops /\ op # "none"
         /\ Step = "apply" => op = "test_page"
         /\ Step = "set" => op \in {"test_page", "auto_off"}
         /\ Tail(todo) # <<>> =>
              /\ op = "test_page" /\ Step \in {"apply", "set"} => Head(Tail(todo)) = "answering"
              /\ Step = "answering" =>
                   Head(Tail(todo)) \in Late \/ (Head(Tail(todo)) = "set" /\ op = "auto_off")
              /\ Step \in Late \/ (Step = "set" /\ op = "auto_off") => Head(Tail(todo)) \in Late
         /\ Step = "lid" /\ Tail(Tail(todo)) # <<>> => Head(Tail(Tail(todo))) \in Late
  <1>1. op # "none"
    BY DEF Reporting
  <1>2. /\ op \in Ops /\ Plan(op, todo) /\ todo \in Seq(StepNames) /\ todo # <<>>
        /\ Step = todo[1] /\ Step \in May(op)
    BY <1>1, StepIs DEF IInv
  <1>3. /\ Step \in Late \cup {"answering", "apply", "set"}
        /\ Step = "apply" => op = "test_page"
        /\ Step = "set" => op \in {"test_page", "auto_off"}
    BY <1>2 DEF Reporting, May, Late
  <1>4. /\ Tail(todo) \in Seq(StepNames) /\ Len(Tail(todo)) = Len(todo) - 1 /\ Len(todo) \in Nat
        /\ Tail(todo) # <<>> => Len(todo) >= 2
        /\ \A i \in 1..Len(Tail(todo)) : Tail(todo)[i] = todo[i + 1]
    BY <1>2, TailIs, LenProperties
  <1>5. Tail(todo) # <<>> => Head(Tail(todo)) = todo[2]
    <2>1. Tail(todo) # <<>> => Head(Tail(todo)) = Tail(todo)[1]
      BY <1>4, TailIs
    <2> QED BY <1>4, <2>1
  <1>6. Step = "lid" /\ Tail(Tail(todo)) # <<>> =>
          Len(todo) >= 3 /\ Head(Tail(Tail(todo))) = todo[3]
    <2> SUFFICES ASSUME Tail(Tail(todo)) # <<>>
                 PROVE  Len(todo) >= 3 /\ Head(Tail(Tail(todo))) = todo[3]
      OBVIOUS
    <2>1. Tail(todo) # <<>>
      <3>1. CASE op = "auto_off"
        BY <1>2, <3>1, Tails DEF Plan
      <3>2. CASE op # "auto_off"
        <4>1. todo[Len(todo)] = "timer"
          BY <1>2, <3>2 DEF Plan, Reporting
        <4>2. CASE Len(todo) = 1
          <5>1. todo = <<"timer">>
            BY <1>2, <4>1, <4>2
          <5>2. Tail(todo) = <<>>
            BY <5>1, Tails
          <5>3. Tail(<<>>) = <<>>
            OBVIOUS
          <5> QED BY <5>2, <5>3
        <4>3. CASE Len(todo) # 1
          BY <1>2, <4>3, TailIs, EmptySeq, LenProperties
        <4> QED BY <4>2, <4>3
      <3> QED BY <3>1, <3>2
    <2>2. Len(Tail(todo)) >= 2 /\ Head(Tail(Tail(todo))) = Tail(Tail(todo))[1]
          /\ Tail(Tail(todo))[1] = Tail(todo)[2]
      <3>1. /\ Len(Tail(todo)) >= 2 /\ Tail(Tail(todo)) \in Seq(StepNames)
            /\ Len(Tail(Tail(todo))) = Len(Tail(todo)) - 1 /\ Len(Tail(todo)) \in Nat
            /\ \A i \in 1..Len(Tail(Tail(todo))) : Tail(Tail(todo))[i] = Tail(todo)[i + 1]
        BY <1>4, <2>1, TailIs, LenProperties
      <3>2. Head(Tail(Tail(todo))) = Tail(Tail(todo))[1]
        BY <3>1, TailIs
      <3> QED BY <3>1, <3>2
    <2> QED BY <1>4, <2>2
  <1>7. CASE op \in {"info", "test_page"}
    <2>1. /\ todo[1] \in {"apply", "set"} => todo[2] = "answering"
          /\ todo[1] \notin {"apply", "set"} => \A i \in 2..Len(todo) : todo[i] \in Late
      BY <1>2, <1>7 DEF Plan
    <2>2. Step \in Late => todo[1] \notin {"apply", "set"}
      BY <1>2 DEF Late
    <2>3. Step = "lid" => Step \in Late
      BY DEF Late
    <2> QED BY <1>1, <1>2, <1>3, <1>4, <1>5, <1>6, <1>7, <2>1, <2>2, <2>3
  <1>8. CASE op = "auto_off"
    <2>1. \/ todo = <<"answering", "set", "timer">> \/ todo = <<"set", "timer">>
          \/ todo = <<"answering", "timer">> \/ todo = <<"timer">>
      BY <1>2, <1>8 DEF Plan
    <2>2. "timer" \in Late
      BY DEF Late
    <2>3. Tail(todo) # <<>> =>
            /\ todo[2] = "timer" \/ (todo[2] = "set" /\ todo[1] = "answering")
            /\ todo[1] \in {"answering", "set"}
      <3>1. Tail(todo) # <<>> => todo # <<"timer">>
        BY Tails, Zenon
      <3>2. todo # <<"timer">> =>
              /\ todo[2] = "timer" \/ (todo[2] = "set" /\ todo[1] = "answering")
              /\ todo[1] \in {"answering", "set"}
        BY <2>1
      <3> QED BY <3>1, <3>2
    <2>4. Step # "lid" /\ Step \in {"answering", "set", "timer"}
      BY <1>2, <2>1
    <2>5. Tail(todo) # <<>> => Step \notin Late
      BY <1>2, <2>3 DEF Late
    <2> QED BY <1>1, <1>2, <1>3, <1>5, <1>8, <2>2, <2>3, <2>4, <2>5
  <1> QED BY <1>7, <1>8 DEF Reporting

\* A step of info, test_page or auto_off.
LEMMA ReportingRuns ==
  ASSUME IInv, BarrierInv, TimerInv, Runs, op \in Reporting, op' = op, since.calm
  PROVE  BarrierInv' /\ TimerInv'
  <1> USE DEF IInv
  <1>1. op # "none" /\ op \in Ops /\ op # "connect" /\ since' = since
    BY Follows, RunsSays DEF Reporting
  <1>2. Step \in Late \cup {"answering", "apply", "set"}
    BY Follows
  <1>3. Early => /\ pc = "next" \/ Step = "apply" => NoPaper
                 /\ pc \in {"written", "waiting"} /\ Step = "answering" => OneAsked
    BY DEF BarrierInv
  <1>4. ~Early => Settled
    BY DEF TimerInv, Reports
  <1>5. pc # "waiting" => waiter.got = NoAnswer /\ waiter = NoWaiter
    BY DEF WaiterInv, NoWaiter
  <1>6. /\ "answering" \notin Late /\ "apply" \notin Late /\ "set" \notin Late
        /\ "eject" \notin Late /\ "look" \notin Late /\ "feed" \notin Late
    BY DEF Late
  \* What is to be shown: of a step up to the barrier, and of one behind it.
  <1>7. ASSUME Step' \in {"answering", "apply"} \/ (Step' = "set" /\ op = "test_page"),
               pc' = "next" \/ Step' = "apply" => NoPaper',
               pc' \in {"written", "waiting"} /\ Step' = "answering" => OneAsked'
        PROVE  BarrierInv' /\ TimerInv'
    BY <1>1, <1>7 DEF BarrierInv, TimerInv, Reports, Early
  <1>8. ASSUME Step' \notin {"answering", "apply"}, ~(Step' = "set" /\ op = "test_page"), Settled'
        PROVE  BarrierInv' /\ TimerInv'
    BY <1>1, <1>8 DEF BarrierInv, TimerInv, Reports, Early
  <1>9. ASSUME NEW v, GoOn(Tail(todo), v)
        PROVE  /\ Tail(todo) # <<>> /\ pc' = "next" /\ Step' = Head(Tail(todo))
    BY <1>1, <1>9, GoesOn
  <1>10. CASE Query
    <2>1. /\ pc = "next" /\ Asks(Step) \in Kinds /\ Write(Asks(Step), NoAnswer) /\ pc' = "written"
          /\ UNCHANGED <<timer, op, todo, waiter>>
      BY <1>10, Zenon DEF Query, world
    <2>2. Step' = Step /\ Step # "set"
      BY <2>1 DEF Step, Asks, Kinds
    <2>3. CASE Step = "answering"
      <3>1. OneAsked'
        BY <1>3, <1>5, <2>1, <2>3, OneAskedWrite DEF Asks, Early
      <3> QED BY <1>7, <2>1, <2>2, <2>3, <3>1
    <2>4. CASE Step = "apply"
      <3>1. NoPaper'
        <4>1. Asks(Step) = "timer" /\ "timer" \notin Sheetwise
          BY <2>4 DEF Asks, Sheetwise
        <4> QED BY <1>3, <2>1, <2>4, <4>1, NoPaperWrite, Written DEF Early
      <3> QED BY <1>7, <2>1, <2>2, <2>4, <3>1
    <2>5. CASE Step \in Late
      <3>1. Settled'
        BY <1>4, <1>6, <2>1, <2>2, <2>5, SettledQuery DEF Early
      <3> QED BY <1>6, <1>8, <2>2, <2>5, <3>1
    <2> QED BY <1>2, <2>2, <2>3, <2>4, <2>5
  <1>11. CASE Registered
    <2>1. /\ pc = "written" /\ pc' = "waiting" /\ waiter'.got = NoAnswer
          /\ UNCHANGED <<timer, inbox, notes, op, todo>>
      BY <1>11 DEF Registered, Register, world, link
    <2>2. Step' = Step /\ waiter.got = NoAnswer
      BY <1>5, <2>1 DEF Step
    <2>3. (NoPaper => NoPaper') /\ (OneAsked => OneAsked') /\ (Settled => Settled')
      BY <2>1, <2>2 DEF NoPaper, OneAsked, OnlyLids, Settled, NoSet
    <2>4. CASE Early
      BY <1>3, <1>7, <2>1, <2>2, <2>3, <2>4 DEF Early
    <2>5. CASE ~Early
      BY <1>4, <1>8, <2>2, <2>3, <2>5 DEF Early
    <2> QED BY <2>4, <2>5
  <1>12. CASE QueryEnds
    <2>1. PICK v \in Values \cup {NoAnswer} :
            /\ pc = "waiting" /\ v = waiter.got /\ waiter' = NoWaiter /\ After(v)
            /\ Asks(Step) \in Kinds /\ UNCHANGED <<world, link, since>>
      BY <1>12, QueryWaits
    <2>2. UNCHANGED <<timer, inbox, notes>> /\ waiter'.got = NoAnswer /\ Step # "set"
      BY <2>1 DEF world, link, NoWaiter, Asks, Kinds
    <2>3. op # "check_ready"
      BY DEF Reporting
    <2>4. CASE Step = "answering" /\ v = NoAnswer
      <3>1. pc' = "reconnect" /\ todo' = todo
        BY <2>1, <2>3, <2>4, Zenon DEF After
      <3> QED BY <1>7, <2>4, <3>1 DEF Step
    <2>5. CASE Step = "answering" /\ v # NoAnswer
      <3>1. GoOn(Tail(todo), v)
        BY <2>1, <2>3, <2>5 DEF After
      <3>2. Head(Tail(todo)) \in Late \/ (Head(Tail(todo)) = "set" /\ op = "auto_off")
        BY <1>9, <2>5, <3>1, Follows
      <3>3. inbox = <<>> /\ OnlyLids
        BY <1>3, <2>1, <2>5, Drained DEF Early
      <3>4. Settled'
        <4>1. \A i \in 1..Len(inbox') : inbox'[i].do # "timer"
          BY <2>2, <3>3
        <4>2. \A i \in 1..Len(notes') : notes'[i].kind # "timer"
          BY <2>2, <3>3 DEF OnlyLids
        <4> QED BY <1>1, <2>2, <4>1, <4>2, SettledFresh
      <3> QED BY <1>6, <1>8, <1>9, <3>1, <3>2, <3>4
    <2>6. CASE Step = "apply"
      <3>1. op = "test_page" /\ NoPaper
        BY <1>3, <2>6, Follows DEF Early
      <3>2. NoPaper'
        BY <2>2, <3>1 DEF NoPaper
      <3>3. CASE v # Wanted
        <4>1. GoOn(<<"set">> \o Tail(todo), v)
          BY <2>1, <2>3, <2>6, <3>3 DEF After
        <4>2. Step' = "set" /\ pc' = "next"
          <5>1. todo \in Seq(StepNames) /\ todo # <<>>
            BY <1>1, StepIs
          <5>2. Tail(todo) \in Seq(StepNames) /\ "set" \in StepNames
            BY <5>1, TailIs DEF StepNames
          <5>3. Head(<<"set">> \o Tail(todo)) = "set"
            BY <5>2, PrefixIs
          <5>4. Step' = Head(<<"set">> \o Tail(todo)) /\ pc' = "next"
            BY <1>1, <4>1, GoesOn, Zenon
          <5> QED BY <5>3, <5>4, Zenon
        <4> QED BY <1>7, <3>1, <3>2, <4>2
      <3>4. CASE v = Wanted
        <4>1. GoOn(Tail(todo), v)
          BY <2>1, <2>3, <2>6, <3>4 DEF After
        <4>2. Step' = "answering" /\ pc' = "next"
          BY <1>9, <2>6, <3>1, <4>1, Follows
        <4> QED BY <1>7, <3>2, <4>2
      <3> QED BY <3>3, <3>4
    <2>7. CASE Step \in Late
      <3>1. Settled
        BY <1>4, <1>6, <2>7 DEF Early
      <3>2. Step' # "set" => Settled'
        BY <1>1, <2>2, <3>1 DEF Settled, NoSet
      <3>3. Step' \in Late
        <4>1. CASE op \in {"info", "test_page"} /\ Step = "lid" /\ v # "closed"
          <5>1. GoOn(Tail(Tail(todo)), v)
            BY <2>1, <2>3, <4>1 DEF After
          <5> QED BY <1>1, <4>1, <5>1, GoesOn, Follows
        <4>2. CASE ~(op \in {"info", "test_page"} /\ Step = "lid" /\ v # "closed")
          <5>1. GoOn(Tail(todo), v)
            BY <1>6, <2>1, <2>3, <2>7, <4>2 DEF After
          <5> QED BY <1>9, <2>7, <5>1, Follows
        <4> QED BY <4>1, <4>2
      <3> QED BY <1>6, <1>8, <3>2, <3>3
    <2> QED BY <1>2, <2>2, <2>4, <2>5, <2>6, <2>7
  <1>13. CASE Reconnect
    <2>1. /\ pc = "reconnect" /\ inbox' = <<>> /\ notes' = <<>> /\ waiter' = waiter
          /\ GoOn(Tail(todo), "done") \/ Return("error")
      BY <1>13, Zenon DEF Reconnect
    <2>2. GoOn(Tail(todo), "done") /\ Step = "answering"
      BY <1>1, <2>1 DEF Return, StepInv
    <2>3. Settled'
      BY <1>1, <1>5, <2>1, SettledFresh
    <2>4. Head(Tail(todo)) \in Late \/ (Head(Tail(todo)) = "set" /\ op = "auto_off")
      BY <1>9, <2>2, Follows
    <2> QED BY <1>6, <1>8, <1>9, <2>2, <2>3, <2>4
  <1>14. CASE SetTimer
    <2>1. /\ pc = "next" /\ Step = "set" /\ GoOn(Tail(todo), "done")
          /\ \E m \in (IF op = "auto_off" THEN Timers ELSE {Wanted}) : Write("set", m)
          /\ UNCHANGED <<world, waiter>>
      BY <1>14, Zenon DEF SetTimer, At
    <2>2. PICK m \in Timers : Write("set", m)
      BY <2>1, Wanteds
    <2>3. CASE op = "auto_off"
      <3>1. Settled
        BY <1>4, <2>1, <2>3 DEF Early
      <3>2. notes' = notes /\ inbox' = Append(inbox, Command("set", m))
        BY <2>2, Zenon DEF Write
      <3>3. Command("set", m) \in Commands /\ Command("set", m).do = "set"
        BY Written DEF Command
      <3>4. \A i \in 1..Len(inbox') : inbox'[i].do # "timer"
        BY <2>1, <3>1, <3>2, <3>3, UnderWay DEF Settled
      <3>5. \A i \in 1..Len(notes') : notes'[i].kind # "timer"
        BY <2>1, <3>1, <3>2 DEF Settled
      <3>6. Settled'
        BY <1>1, <1>5, <2>1, <3>4, <3>5, SettledFresh
      <3>7. Step' \in Late
        BY <1>9, <2>1, <2>3, Follows
      <3> QED BY <1>6, <1>8, <3>6, <3>7
    <2>4. CASE op = "test_page"
      <3>1. NoPaper'
        BY <1>3, <2>1, <2>2, <2>4, NoPaperWrite, Written DEF Early, Sheetwise
      <3>2. Step' = "answering" /\ pc' = "next"
        BY <1>9, <2>1, <2>4, Follows
      <3> QED BY <1>7, <3>1, <3>2
    <2> QED BY <2>1, <2>3, <2>4, Follows
  <1>15. CASE PulseFeed \/ Eject
    <2>1. Step \in {"feed", "eject"}
      <3>1. Step = "feed" \/ pc \in {"blind", "fill", "watch"}
        BY <1>15, Zenon DEF PulseFeed, At, Eject, BlindFeed, FillAhead, SensorClear, FeedOn, GiveUp
      <3> QED BY <3>1 DEF StepInv
    <2> QED BY <1>2, <1>6, <2>1
  <1>16. CASE Fails
    <2>1. /\ pc \in {"next", "blind", "fill", "watch"} /\ UNCHANGED <<inbox, notes>>
          /\ IF Step = "apply" \/ (Step = "set" /\ op # "auto_off")
             THEN GoOn(Tail(todo), "done") ELSE Return("error")
      BY <1>16, Zenon DEF Fails, link
    <2>2. Step = "apply" \/ (Step = "set" /\ op # "auto_off")
      BY <1>1, <2>1 DEF Return
    <2>3. op = "test_page" /\ pc = "next"
      BY <2>1, <2>2, Follows DEF StepInv
    <2>4. NoPaper'
      BY <1>3, <2>1, <2>2, <2>3 DEF Early, NoPaper
    <2>5. Step' = "answering" /\ pc' = "next"
      BY <1>9, <2>1, <2>2, <2>3, Follows
    <2> QED BY <1>7, <2>4, <2>5
  <1> QED BY <1>10, <1>11, <1>12, <1>13, <1>14, <1>15, <1>16 DEF Runs

\* A step of Bridge.connect alone.
LEMMA ConnectRuns ==
  ASSUME IInv, TimerInv, Runs, op = "connect", op' = op, since.calm
  PROVE  BarrierInv' /\ TimerInv'
  <1> USE DEF IInv
  <1>1. op # "none" /\ op \notin Reporting
    BY DEF Reporting
  <1>2. since' = since /\ (Step = "apply" => Settled)
    BY RunsSays DEF TimerInv, Reports
  <1>3. todo = <<"apply">> \/ todo = <<"set">>
    BY <1>1, StepIs DEF Plan
  <1>4. Tail(todo) = <<>>
    BY <1>3, Tails
  <1>5. Step \in {"apply", "set"}
    BY <1>3 DEF Step
  <1>6. ASSUME NEW v PROVE ~GoOn(Tail(todo), v) /\ ~Return(v)
    BY <1>1, <1>4 DEF GoOn, Return
  <1>7. ASSUME Step' = "apply" => Settled' PROVE BarrierInv' /\ TimerInv'
    BY <1>1, <1>7 DEF BarrierInv, TimerInv, Reports
  <1>8. CASE Query
    <2>1. /\ Asks(Step) \in Kinds /\ Write(Asks(Step), NoAnswer)
          /\ UNCHANGED <<timer, op, todo, waiter>>
      BY <1>8, Zenon DEF Query, world
    <2>2. Step # "set"
      BY <2>1 DEF Asks, Kinds
    <2>3. Settled
      BY <1>2, <1>5, <2>2
    <2>4. Settled'
      BY <2>1, <2>2, <2>3, SettledQuery
    <2> QED BY <1>7, <2>4
  <1>9. CASE Registered
    <2>1. /\ waiter'.got = NoAnswer /\ UNCHANGED <<timer, inbox, notes, op, todo>>
      BY <1>9 DEF Registered, Register, world, link
    <2>2. Step = "apply" => Settled'
      BY <1>2, <2>1 DEF Settled, NoSet, Step
    <2> QED BY <1>7, <2>1, <2>2 DEF Step
  <1>10. CASE QueryEnds
    <2>1. PICK v \in Values \cup {NoAnswer} : After(v)
      BY <1>10, QueryWaits
    <2>2. GoOn(<<"set">> \o Tail(todo), v)
      <3>1. CASE Step = "apply"
        BY <1>6, <2>1, <3>1 DEF After
      <3>2. CASE Step = "set"
        BY <1>6, <2>1, <3>2 DEF After
      <3> QED BY <1>5, <3>1, <3>2
    <2>3. Step' = "set"
      <3>1. Step' = Head(<<"set">> \o Tail(todo))
        BY <1>1, <2>2, GoesOn, Zenon
      <3>2. <<"set">> \o <<>> = <<"set">> /\ Head(<<"set">>) = "set"
        OBVIOUS
      <3> QED BY <1>4, <3>1, <3>2, Zenon
    <2> QED BY <1>7, <2>3
  <1>11. CASE SetTimer \/ PulseFeed
    BY <1>6, <1>11, Zenon DEF SetTimer, PulseFeed
  <1>12. CASE Reconnect \/ Eject
    <2>1. pc \in {"reconnect", "blind", "fill", "watch"}
      BY <1>12, Zenon DEF Reconnect, Eject, BlindFeed, FillAhead, SensorClear, FeedOn, GiveUp
    <2> QED BY <1>5, <2>1 DEF StepInv
  <1>13. CASE Fails
    BY <1>6, <1>13, Zenon DEF Fails
  <1> QED BY <1>8, <1>9, <1>10, <1>11, <1>12, <1>13 DEF Runs

LEMMA TimerCalls ==
  ASSUME IInv, Calls
  PROVE  TInv'
  <1>1. /\ IInv' /\ says' = "nothing" /\ UNCHANGED <<inbox, notes, pc, waiter>> /\ op = "none"
        /\ op' \in Ops
        /\ since' = [lids   |-> IF op' = "check_ready" THEN {lid} ELSE {},
                     papers |-> IF op' = "check_ready" THEN Sensed(lid, sheet) ELSE {},
                     calm   |-> Calm(op')]
        /\ \/ op' # "connect" /\ todo' = Steps[op']
           \/ op' = "auto_off" /\ todo' = <<"answering", "timer">>
           \/ /\ op' \in {"connect", "identify", "test_page"}
              /\ todo' = <<"apply">> \o Steps[op'] /\ ~up
    BY CallsStep, Zenon
  <1>2. since'.calm = Calm(op')
    BY <1>1
  <1>3. pc' = "next" /\ waiter'.got = NoAnswer
    BY <1>1 DEF IInv, StepInv, WaiterInv, NoWaiter
  <1>4. SaysInv'
    BY <1>1, Apart DEF SaysInv
  <1>5. ASSUME op' \in Reporting, since'.calm PROVE NoPaper' /\ Early'
    <2>1. InFlight \cap {"paper", "feed", "clear"} = {}
      BY <1>2, <1>5 DEF Calm, Reporting
    <2>2. DOMAIN notes = 1..Len(notes) /\ DOMAIN inbox = 1..Len(inbox)
      BY LenProperties DEF IInv, LinkInv
    <2>3. NoPaper'
      BY <1>1, <2>1, <2>2 DEF InFlight, NoPaper, Sheetwise
    <2>4. CASE todo' = Steps[op'] \/ todo' = <<"answering", "timer">>
      <3>1. CASE op' \in {"info", "test_page"}
        <4> DEFINE t == <<"answering">> \o Details \o <<"lid", "paper", "timer">>
        <4>1. todo' = t \/ todo' = <<"answering", "timer">>
          <5>1. Steps[op'] = t
            <6>1. Steps.info = t /\ Steps.test_page = t
              BY Zenon DEF Steps
            <6>2. op' = "info" \/ op' = "test_page"
              BY <3>1
            <6> QED BY <6>1, <6>2, Zenon
          <5> QED BY <2>4, <5>1, Zenon
        <4>2. t \in Seq(StepNames) /\ t # <<>> /\ t[1] = "answering"
          BY InfoIs, EmptySeq
        <4>3. Head(t) = "answering"
          BY <4>2, TailIs
        <4>4. Head(<<"answering", "timer">>) = "answering"
          OBVIOUS
        <4> QED BY <2>3, <4>1, <4>3, <4>4, Zenon DEF Early, Step
      <3>2. CASE op' = "auto_off"
        BY <2>3, <2>4, <3>2 DEF Early, Step, Steps
      <3> QED BY <1>5, <3>1, <3>2 DEF Reporting
    <2>5. CASE todo' = <<"apply">> \o Steps[op'] /\ op' = "test_page"
      <3>1. Steps[op'] \in Seq(StepNames)
        BY <1>1, <2>5, StepsPlan DEF Plan
      <3>2. Head(<<"apply">> \o Steps[op']) = "apply"
        BY <3>1, PrefixIs DEF StepNames
      <3> QED BY <2>3, <2>5, <3>2, Zenon DEF Early, Step
    <2> QED BY <1>1, <1>5, <2>4, <2>5 DEF Reporting
  <1>6. ASSUME op' = "connect" PROVE Settled'
    <2>1. ~up
      BY <1>1, <1>6
    <2>2. inbox = <<>> /\ notes = <<>>
      BY <2>1 DEF IInv, LinkInv
    <2>3. NoSet'
      BY <1>1, <2>2 DEF NoSet
    <2> QED BY <1>1, <1>3, <2>2, <2>3, SettledFresh
  <1>7. BarrierInv'
    BY <1>3, <1>5 DEF BarrierInv
  <1>8. TimerInv'
    BY <1>5, <1>6 DEF TimerInv, Reports
  <1> QED BY <1>4, <1>7, <1>8 DEF TInv

LEMMA TimerWorld ==
  ASSUME IInv, TInv, World
  PROVE  TInv'
  <1> USE DEF IInv
  <1>1. UNCHANGED <<op, todo, pc, waiter, says>> /\ Step' = Step
    BY WorldStep, Zenon DEF run, Step
  <1>2. ASSUME since'.calm, op # "check_ready" PROVE since.calm
    BY <1>2, WorldSays
  <1>3. BarrierInv'
    <2> SUFFICES ASSUME op \in Reporting, since'.calm, Early PROVE BarrierInv'
      BY <1>1 DEF BarrierInv, Early
    <2>1. op # "check_ready" /\ op # "eject"
      BY DEF Reporting
    <2>2. /\ pc = "next" \/ Step = "apply" => NoPaper
          /\ pc \in {"written", "waiting"} /\ Step = "answering" => OneAsked
      BY <1>2, <2>1 DEF TInv, BarrierInv
    <2> QED BY <1>1, <2>1, <2>2, NoPaperWorld, OneAskedWorld DEF BarrierInv
  <1>4. TimerInv'
    <2> SUFFICES ASSUME since'.calm, Reports PROVE Settled'
      BY <1>1 DEF TimerInv, Reports, Early
    <2>1. op # "check_ready" /\ op # "eject"
      BY DEF Reports, Reporting
    <2> QED BY <1>2, <2>1, SettledWorld DEF TInv, TimerInv
  <1>5. SaysInv'
    <2> SUFFICES ASSUME says \in Timers, since'.calm PROVE timer' = timer /\ NoSet'
      BY <1>1, <1>2, Apart DEF SaysInv, TInv, StepInv
    <2>1. op = "none"
      BY Apart DEF StepInv
    <2>2. op # "check_ready" /\ op # "eject"
      BY <2>1
    <2>3. NoSet
      BY <1>2, <2>2 DEF TInv, SaysInv
    <2>4. CASE inbox' = inbox /\ timer' = timer
      BY <2>3, <2>4 DEF NoSet
    <2>5. CASE inbox' = <<>> /\ timer' = timer
      BY <2>5 DEF NoSet
    <2>6. ASSUME NEW c \in Commands, NEW n \in Events, RunsHead(c, n)
          PROVE  timer' = timer /\ NoSet'
      <3>1. inbox # <<>> /\ c = inbox[1] /\ inbox' = Tail(inbox) /\ 1 \in 1..Len(inbox)
        BY <2>6, UnderWay DEF RunsHead
      <3>2. c.do # "set"
        BY <2>3, <3>1 DEF NoSet
      <3>3. timer' = timer
        BY <2>6, <3>2 DEF RunsHead
      <3> QED BY <2>3, <3>1, <3>3, NoSetTail
    <2> QED BY <2>2, <2>4, <2>5, <2>6, CalmWorld
  <1> QED BY <1>3, <1>4, <1>5 DEF TInv

LEMMA TimerDeliver ==
  ASSUME IInv, TInv, Deliver
  PROVE  TInv'
  <1>1. UNCHANGED <<timer, inbox, op, todo, pc, says, since>> /\ Step' = Step
    BY DeliverStep, Zenon DEF world, Step
  <1>2. BarrierInv'
    <2> SUFFICES ASSUME op \in Reporting, since.calm, Early PROVE BarrierInv'
      BY <1>1 DEF BarrierInv, Early
    <2>1. ASSUME pc \in {"written", "waiting"}, Step = "answering" PROVE OneAsked'
      <3>1. waiter = NoWaiter \/ waiter.kind = "paper"
        BY <2>1 DEF IInv, WaiterInv, Asks
      <3> QED BY <2>1, <3>1, OneAskedDeliver DEF TInv, BarrierInv
    <2>2. pc = "next" \/ Step = "apply" => NoPaper'
      BY NoPaperDeliver DEF TInv, BarrierInv
    <2> QED BY <1>1, <2>1, <2>2 DEF BarrierInv
  <1>3. TimerInv'
    BY <1>1, SettledDeliver DEF TInv, TimerInv, Reports, Early
  <1>4. SaysInv'
    BY <1>1 DEF TInv, SaysInv, NoSet
  <1> QED BY <1>2, <1>3, <1>4 DEF TInv

LEMMA TimerRuns ==
  ASSUME IInv, TInv, Runs
  PROVE  TInv'
  <1> USE DEF IInv
  <1>1. op # "none" /\ op' \in {op, "none"} /\ since' = since /\ (op' = op => says' = says)
    BY RunsSays
  <1>2. BarrierInv' /\ TimerInv'
    <2>1. CASE op' \in Reporting /\ since.calm
      BY <1>1, <2>1, ReportingRuns DEF TInv, Reporting
    <2>2. CASE op' = "connect" /\ since.calm
      BY <1>1, <2>2, ConnectRuns DEF TInv
    <2>3. CASE ~since.calm \/ op' \notin Reporting \cup {"connect"}
      BY <1>1, <2>3 DEF BarrierInv, TimerInv, Reports
    <2> QED BY <2>1, <2>2, <2>3
  <1>3. ASSUME says' \in Timers, since.calm PROVE says' = timer' /\ NoSet'
    <2>1. op' = "none"
      BY <1>1, <1>3, Apart DEF StepInv
    <2>2. /\ says' = waiter.got /\ pc = "waiting" /\ waiter.kind = Asks(Step)
          /\ UNCHANGED <<world, link>>
          /\ Step = "timer" \/ (Step = "apply" /\ op = "connect")
      BY <1>3, <2>1, RunsSaid, Apart
    <2>3. waiter.kind = "timer" /\ waiter.got # NoAnswer
      BY <1>3, <2>2, Apart DEF Asks
    <2>4. Reports
      <3>1. CASE Step = "timer"
        <4>1. op \in Ops /\ Step \in May(op)
          BY <1>1, StepIs
        <4>2. op \in Reporting
          BY <3>1, <4>1, OpsAssumption DEF May, Reporting, Late
        <4> QED BY <3>1, <4>2 DEF Reports, Early
      <3>2. CASE Step = "apply" /\ op = "connect"
        BY <3>2 DEF Reports
      <3> QED BY <2>2, <3>1, <3>2
    <2>5. waiter.got = timer /\ NoSet
      BY <1>3, <2>3, <2>4 DEF TInv, TimerInv, Settled
    <2> QED BY <2>2, <2>5 DEF world, link, NoSet
  <1> QED BY <1>1, <1>2, <1>3 DEF TInv, SaysInv

LEMMA TimerStep ==
  ASSUME IInv, TInv, [Next]_vars
  PROVE  TInv'
  <1>1. CASE UNCHANGED vars
    <2>1. UNCHANGED <<timer, inbox, notes, op, todo, pc, waiter, says, since>> /\ Step' = Step
      BY <1>1 DEF vars, world, link, run, Step
    <2>2. NoPaper' = NoPaper /\ OneAsked' = OneAsked /\ NoSet' = NoSet /\ Early' = Early
      BY <2>1 DEF NoPaper, OneAsked, OnlyLids, NoSet, Early
    <2>3. Settled => Settled'
      BY <2>1, <2>2 DEF Settled
    <2> QED BY <2>1, <2>2, <2>3 DEF TInv, BarrierInv, TimerInv, Reports, SaysInv
  <1>2. CASE Next
    BY <1>2, TimerWorld, TimerDeliver, TimerCalls, TimerRuns, Zenon DEF Next
  <1> QED BY <1>1, <1>2

\* TimerIsTrue: the auto-off setting that info, auto_off, the test page and
\* Bridge.connect read back is the printer's, with no write of it under way.
THEOREM ReportedTimerIsTrue == Spec => []TimerIsTrue
  <1>1. IInv /\ TInv /\ [Next]_vars => (IInv /\ TInv)'
    BY StepHolds, TimerStep
  <1>2. TInv => TimerIsTrue
    BY DEF TInv, SaysInv, TimerIsTrue
  <1> QED BY <1>1, <1>2, InitHolds, TimerInit, PTL DEF Spec

=============================================================================
