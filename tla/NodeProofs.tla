----------------------------- MODULE NodeProofs -----------------------------
(***************************************************************************)
(* Theorems about Node, for any pins, channels, levels, transfers, slots   *)
(* and threads, and any builds that compile.                               *)
(***************************************************************************)
EXTENDS Node, SequenceTheorems, FiniteSetTheorems, TLAPS

-----------------------------------------------------------------------------
(* Outcomes                                                                *)

Answers == Results \cup {NoMemory}
Told(o, x) == o.answers = <<x>> /\ o.released = 1 /\ o.kept = 0
Answered(o) == \E x \in Answers : Told(o, x)

LEMMA Refusals ==
  /\ {Invalid, ProtocolBad, Internal, Failure, Unknown, NoMemory} \subseteq Answers
  /\ Ok \in Answers
  /\ Ok \notin {Invalid, ProtocolBad, Internal, Failure, Unknown, NoMemory}
  BY DEF Answers, Results, Ok, Invalid, ProtocolBad, Internal, Failure, Unknown, NoMemory

LEMMA Replies ==
  ASSUME NEW x
  PROVE  Told(Reply(x), x)
  BY DEF Told, Reply, Outcome

LEMMA ToldOk ==
  ASSUME NEW o, NEW x, Told(o, x)
  PROVE  o.answers = <<Ok>> <=> x = Ok
  BY DEF Told

LEMMA OnlyOne ==
  ASSUME NEW f, NEW v
  PROVE  DOMAIN Only(f, v) = {f} /\ Only(f, v)[f] = v
  BY DEF Only

LEMMA OverDomain ==
  ASSUME NEW f, NEW g
  PROVE  DOMAIN Over(f, g) = DOMAIN f \cup DOMAIN g
  BY DEF Over

LEMMA OverLeft ==
  ASSUME NEW f, NEW g, NEW x \in DOMAIN f
  PROVE  Over(f, g)[x] = f[x]
  BY DEF Over

LEMMA OverRight ==
  ASSUME NEW f, NEW g, NEW x \in DOMAIN g, x \notin DOMAIN f
  PROVE  Over(f, g)[x] = g[x]
  BY DEF Over

\* A device shows v for f, and for the rest what it showed before.
Moved(before, after, f, v) ==
  /\ DOMAIN after = DOMAIN before
  /\ f \in DOMAIN before /\ after[f] = v
  /\ \A g \in DOMAIN before : g # f => after[g] = before[g]

LEMMA OnlyMoved ==
  ASSUME NEW f, NEW v, NEW w
  PROVE  Moved(Only(f, v), Only(f, w), f, w)
<1>1. DOMAIN Only(f, v) = {f}
  BY OnlyOne
<1>2. DOMAIN Only(f, w) = {f} /\ Only(f, w)[f] = w
  BY OnlyOne
<1> QED
  BY <1>1, <1>2 DEF Moved

\* A device shows what was set, and for the rest what it showed before.
Taken(before, after, set) ==
  /\ DOMAIN after = DOMAIN before /\ DOMAIN set \subseteq DOMAIN before
  /\ \A f \in DOMAIN set : after[f] = set[f]
  /\ \A f \in DOMAIN before : f \notin DOMAIN set => after[f] = before[f]

LEMMA MovedTaken ==
  ASSUME NEW before, NEW after, NEW f, NEW v, Moved(before, after, f, v)
  PROVE  Taken(before, after, Only(f, v))
<1> DEFINE set == Only(f, v)
<1>1. DOMAIN set = {f} /\ set[f] = v
  BY OnlyOne
<1> HIDE DEF set
<1>2. Taken(before, after, set)
  BY <1>1 DEF Moved, Taken
<1> QED
  BY <1>2 DEF set

\* How a request ends: refused, with nothing set, as it was asked to, or half way.
Refused(before, after, o) == after = before /\ \E x \in Answers : x # Ok /\ Told(o, x)
NothingSet(before, after, set, o) == after = before /\ set = NoSettings /\ Told(o, Ok)
Complete(before, after, set, o) == Taken(before, after, set) /\ Told(o, Ok)
HalfWay(before, after, open, o) ==
  Told(o, Failure) /\ \E f, v : f \in open /\ Moved(before, after, f, v)
Ended(before, after, set, open, o) ==
  \/ Refused(before, after, o) \/ NothingSet(before, after, set, o)
  \/ Complete(before, after, set, o) \/ HalfWay(before, after, open, o)

\* What a device shows after a request: what was set when it has succeeded, and else
\* what it showed before, but for what the request leaves open.  told is what the AP
\* has been told of.
Follows(before, after, told, set, open, o) ==
  /\ DOMAIN after = DOMAIN before
  /\ o.answers = <<Ok>> => \A f \in DOMAIN set : f \in DOMAIN before /\ after[f] = set[f]
  /\ \A f \in told :
       f \in open \/ (o.answers = <<Ok>> /\ f \in DOMAIN set) \/ after[f] = before[f]

LEMMA EndedFollows ==
  ASSUME NEW before, NEW after, NEW told, NEW set, NEW open, NEW o,
         Ended(before, after, set, open, o), told \subseteq DOMAIN before
  PROVE  Answered(o) /\ Follows(before, after, told, set, open, o)
<1>1. CASE Refused(before, after, o)
  <2>1. PICK x \in Answers : x # Ok /\ Told(o, x) /\ after = before
    BY <1>1 DEF Refused
  <2>2. o.answers # <<Ok>>
    BY <2>1, ToldOk
  <2> QED
    BY <2>1, <2>2 DEF Answered, Follows
<1>2. CASE NothingSet(before, after, set, o)
  <2>1. DOMAIN set = {}
    BY <1>2 DEF NothingSet, NoSettings
  <2> QED
    BY <1>2, <2>1, Refusals DEF NothingSet, Answered, Follows
<1>3. CASE Complete(before, after, set, o)
  <2>1. o.answers = <<Ok>>
    BY <1>3, ToldOk DEF Complete
  <2>2. Follows(before, after, told, set, open, o)
    BY <1>3, <2>1 DEF Complete, Taken, Follows
  <2> QED
    BY <1>3, <2>2, Refusals DEF Complete, Answered
<1>4. CASE HalfWay(before, after, open, o)
  <2>1. PICK f, v : f \in open /\ Moved(before, after, f, v)
    BY <1>4 DEF HalfWay
  <2>2. Told(o, Failure) /\ o.answers # <<Ok>>
    BY <1>4, ToldOk, Refusals DEF HalfWay
  <2>3. DOMAIN after = DOMAIN before
    BY <2>1 DEF Moved
  <2>4. \A g \in told : g \in open \/ after[g] = before[g]
    BY <2>1 DEF Moved
  <2> QED
    BY <2>2, <2>3, <2>4, Refusals DEF Answered, Follows
<1> QED
  BY <1>1, <1>2, <1>3, <1>4 DEF Ended

\* The shapes of a driver's answer.
LEMMA EndsRefused ==
  ASSUME NEW before, NEW set, NEW open, NEW x \in Answers, x # Ok
  PROVE  Ended(before, before, set, open, Reply(x))
  BY Replies DEF Ended, Refused

LEMMA EndsNothingSet ==
  ASSUME NEW before, NEW open
  PROVE  Ended(before, before, NoSettings, open, Reply(Ok))
  BY Replies DEF Ended, NothingSet

LEMMA EndsDone ==
  ASSUME NEW before, NEW after, NEW open, NEW f, NEW v, Moved(before, after, f, v)
  PROVE  Ended(before, after, Only(f, v), open, Reply(Ok))
  BY Replies, MovedTaken DEF Ended, Complete

LEMMA EndsHalfWay ==
  ASSUME NEW before, NEW after, NEW set, NEW f, NEW v, Moved(before, after, f, v)
  PROVE  Ended(before, after, set, {f}, Reply(Failure))
  BY Replies DEF Ended, HalfWay

-----------------------------------------------------------------------------
(* GPIO                                                                    *)

LEMMA GpioFeatures ==
  ASSUME NEW s
  PROVE  DOMAIN GpioShows(s) = {"dir", "irq"} \X Pins
  BY DEF GpioShows

LEMMA GpioShowsDir ==
  ASSUME NEW s, NEW p \in Pins
  PROVE  GpioShows(s)[<<"dir", p>>] = s.dir[p]
  BY DEF GpioShows

LEMMA GpioShowsIrq ==
  ASSUME NEW s, NEW p \in Pins
  PROVE  GpioShows(s)[<<"irq", p>>] = s.irq[p]
  BY DEF GpioShows

LEMMA GpioFeature ==
  ASSUME NEW f \in {"dir", "irq"} \X Pins
  PROVE  \E p \in Pins : f = <<"dir", p>> \/ f = <<"irq", p>>
  OBVIOUS

DirOf(s, p, v) == [s EXCEPT !.dir[p] = v]
IrqOf(s, p, v) == [s EXCEPT !.irq[p] = v]

LEMMA GpioDir ==
  ASSUME NEW s \in GpioStates, NEW p \in Pins, NEW v \in {"off", "in", "out"}
  PROVE  /\ DirOf(s, p, v) \in GpioStates /\ DirOf(s, p, v).armed = s.armed
         /\ Moved(GpioShows(s), GpioShows(DirOf(s, p, v)), <<"dir", p>>, v)
<1> DEFINE t == DirOf(s, p, v)
<1>1. /\ t.dir = [s.dir EXCEPT ![p] = v] /\ t.irq = s.irq /\ t.armed = s.armed
      /\ t \in GpioStates
  BY DEF GpioStates, DirOf
<1>2. t.dir[p] = v /\ \A q \in Pins : q # p => t.dir[q] = s.dir[q]
  BY <1>1 DEF GpioStates
<1> HIDE DEF t
<1>3. GpioShows(t)[<<"dir", p>>] = v
  <2>1. GpioShows(t)[<<"dir", p>>] = t.dir[p]
    BY GpioShowsDir
  <2> QED
    BY <1>2, <2>1
<1>4. ASSUME NEW f \in DOMAIN GpioShows(s), f # <<"dir", p>>
      PROVE  GpioShows(t)[f] = GpioShows(s)[f]
  <2>1. PICK q \in Pins : f = <<"dir", q>> \/ f = <<"irq", q>>
    BY GpioFeatures, GpioFeature
  <2>2. CASE f = <<"irq", q>>
    <3>1. GpioShows(t)[f] = t.irq[q] /\ GpioShows(s)[f] = s.irq[q]
      BY <2>2, GpioShowsIrq
    <3> QED
      BY <1>1, <3>1
  <2>3. CASE f = <<"dir", q>>
    <3>1. q # p
      BY <1>4, <2>3
    <3>2. GpioShows(t)[f] = t.dir[q] /\ GpioShows(s)[f] = s.dir[q]
      BY <2>3, GpioShowsDir
    <3> QED
      BY <1>2, <3>1, <3>2
  <2> QED
    BY <2>1, <2>2, <2>3
<1>5. DOMAIN GpioShows(t) = DOMAIN GpioShows(s) /\ <<"dir", p>> \in DOMAIN GpioShows(s)
  BY GpioFeatures
<1>6. Moved(GpioShows(s), GpioShows(t), <<"dir", p>>, v)
  BY <1>3, <1>4, <1>5 DEF Moved
<1> QED
  BY <1>1, <1>6 DEF t

LEMMA GpioIrq ==
  ASSUME NEW s \in GpioStates, NEW p \in Pins, NEW v \in Types
  PROVE  /\ IrqOf(s, p, v) \in GpioStates /\ IrqOf(s, p, v).armed = s.armed
         /\ Moved(GpioShows(s), GpioShows(IrqOf(s, p, v)), <<"irq", p>>, v)
<1> DEFINE t == IrqOf(s, p, v)
<1>1. /\ t.irq = [s.irq EXCEPT ![p] = v] /\ t.dir = s.dir /\ t.armed = s.armed
      /\ t \in GpioStates
  BY DEF GpioStates, IrqOf
<1>2. t.irq[p] = v /\ \A q \in Pins : q # p => t.irq[q] = s.irq[q]
  BY <1>1 DEF GpioStates
<1> HIDE DEF t
<1>3. GpioShows(t)[<<"irq", p>>] = v
  <2>1. GpioShows(t)[<<"irq", p>>] = t.irq[p]
    BY GpioShowsIrq
  <2> QED
    BY <1>2, <2>1
<1>4. ASSUME NEW f \in DOMAIN GpioShows(s), f # <<"irq", p>>
      PROVE  GpioShows(t)[f] = GpioShows(s)[f]
  <2>1. PICK q \in Pins : f = <<"irq", q>> \/ f = <<"dir", q>>
    BY GpioFeatures, GpioFeature
  <2>2. CASE f = <<"dir", q>>
    <3>1. GpioShows(t)[f] = t.dir[q] /\ GpioShows(s)[f] = s.dir[q]
      BY <2>2, GpioShowsDir
    <3> QED
      BY <1>1, <3>1
  <2>3. CASE f = <<"irq", q>>
    <3>1. q # p
      BY <1>4, <2>3
    <3>2. GpioShows(t)[f] = t.irq[q] /\ GpioShows(s)[f] = s.irq[q]
      BY <2>3, GpioShowsIrq
    <3> QED
      BY <1>2, <3>1, <3>2
  <2> QED
    BY <2>1, <2>2, <2>3
<1>5. DOMAIN GpioShows(t) = DOMAIN GpioShows(s) /\ <<"irq", p>> \in DOMAIN GpioShows(s)
  BY GpioFeatures
<1>6. Moved(GpioShows(s), GpioShows(t), <<"irq", p>>, v)
  BY <1>3, <1>4, <1>5 DEF Moved
<1> QED
  BY <1>1, <1>6 DEF t

LEMMA GpioHandled ==
  ASSUME NEW s \in GpioStates, NEW r \in GpioRequests, NEW h \in GpioHandle(s, r)
  PROVE  /\ h[1] \in GpioStates /\ h[1].armed = s.armed
         /\ Ended(GpioShows(s), GpioShows(h[1]), GpioSettings(r), GpioDisturbs(r), h[2])
<1>1. ASSUME NEW x \in Answers, x # Ok, h = <<s, Reply(x)>>
      PROVE  /\ h[1] \in GpioStates /\ h[1].armed = s.armed
             /\ Ended(GpioShows(s), GpioShows(h[1]), GpioSettings(r), GpioDisturbs(r), h[2])
  BY <1>1, EndsRefused
<1>2. ASSUME h = <<s, Reply(Ok)>>, GpioSettings(r) = NoSettings
      PROVE  /\ h[1] \in GpioStates /\ h[1].armed = s.armed
             /\ Ended(GpioShows(s), GpioShows(h[1]), GpioSettings(r), GpioDisturbs(r), h[2])
  BY <1>2, EndsNothingSet
<1>3. ASSUME NEW p \in Pins, NEW v \in {"off", "in", "out"},
             h = <<DirOf(s, p, v), Reply(Ok)>>, GpioSettings(r) = Only(<<"dir", p>>, v)
      PROVE  /\ h[1] \in GpioStates /\ h[1].armed = s.armed
             /\ Ended(GpioShows(s), GpioShows(h[1]), GpioSettings(r), GpioDisturbs(r), h[2])
  <2>1. h[1] = DirOf(s, p, v) /\ h[2] = Reply(Ok)
    BY <1>3
  <2>2. /\ h[1] \in GpioStates /\ h[1].armed = s.armed
        /\ Moved(GpioShows(s), GpioShows(h[1]), <<"dir", p>>, v)
    BY <1>3, <2>1, GpioDir
  <2> QED
    BY <1>3, <2>1, <2>2, EndsDone
<1>4. ASSUME NEW p \in Pins, h = <<DirOf(s, p, "out"), Reply(Failure)>>,
             GpioDisturbs(r) = {<<"dir", p>>}
      PROVE  /\ h[1] \in GpioStates /\ h[1].armed = s.armed
             /\ Ended(GpioShows(s), GpioShows(h[1]), GpioSettings(r), GpioDisturbs(r), h[2])
  <2>1. h[1] = DirOf(s, p, "out") /\ h[2] = Reply(Failure)
    BY <1>4
  <2>2. /\ h[1] \in GpioStates /\ h[1].armed = s.armed
        /\ Moved(GpioShows(s), GpioShows(h[1]), <<"dir", p>>, "out")
    BY <1>4, <2>1, GpioDir
  <2> QED
    BY <1>4, <2>1, <2>2, EndsHalfWay
<1>5. ASSUME NEW p \in Pins, NEW v \in Types,
             h = <<IrqOf(s, p, v), Reply(Ok)>>, GpioSettings(r) = Only(<<"irq", p>>, v)
      PROVE  /\ h[1] \in GpioStates /\ h[1].armed = s.armed
             /\ Ended(GpioShows(s), GpioShows(h[1]), GpioSettings(r), GpioDisturbs(r), h[2])
  <2>1. h[1] = IrqOf(s, p, v) /\ h[2] = Reply(Ok)
    BY <1>5
  <2>2. /\ h[1] \in GpioStates /\ h[1].armed = s.armed
        /\ Moved(GpioShows(s), GpioShows(h[1]), <<"irq", p>>, v)
    BY <1>5, <2>1, GpioIrq
  <2> QED
    BY <1>5, <2>1, <2>2, EndsDone
<1>6. CASE r.type = "line_count"
  <2>1. h = <<s, Reply(Ok)>> /\ GpioSettings(r) = NoSettings
    BY <1>6 DEF GpioHandle, GpioSettings, Unchanged
  <2> QED
    BY <1>2, <2>1
<1>7. CASE r.type = "unknown"
  <2>1. h = <<s, Reply(Invalid)>>
    BY <1>7 DEF GpioHandle, Unchanged
  <2> QED
    BY <1>1, <2>1, Refusals
<1>8. CASE r.type \notin {"line_count", "unknown"} /\ r.which \notin Pins
  <2>1. h = <<s, Reply(Invalid)>>
    BY <1>8 DEF GpioHandle, Unchanged
  <2> QED
    BY <1>1, <2>1, Refusals
<1>9. CASE r.type \notin {"line_count", "unknown"} /\ r.which \in Pins
  <2>1. CASE r.type \in {"activate", "deactivate", "get_direction", "get_value", "set_value"}
    <3>1. GpioSettings(r) = NoSettings
      BY <2>1 DEF GpioSettings
    <3>2. h = <<s, Reply(Ok)>> \/ h = <<s, Reply(Failure)>>
      BY <1>9, <2>1 DEF GpioHandle, Unchanged, Configured
    <3> QED
      BY <1>1, <1>2, <3>1, <3>2, Refusals
  <2>2. CASE r.type = "direction_in"
    <3>1. GpioSettings(r) = Only(<<"dir", r.which>>, "in")
      BY <2>2 DEF GpioSettings
    <3>2. h \in DirectionIn(s, r.which)
      BY <1>9, <2>2 DEF GpioHandle
    <3>3. h = <<s, Reply(Failure)>> \/ h = <<DirOf(s, r.which, "in"), Reply(Ok)>>
      BY <3>2 DEF DirectionIn, Configured, DirOf
    <3> QED
      BY <1>1, <1>3, <1>9, <3>1, <3>3, Refusals
  <2>3. CASE r.type = "direction_out"
    <3>1. GpioSettings(r) = Only(<<"dir", r.which>>, "out")
      BY <2>3 DEF GpioSettings
    <3>2. h \in DirectionOut(s, r.which) /\ GpioDisturbs(r) = {<<"dir", r.which>>}
      BY <1>9, <2>3 DEF GpioHandle, GpioDisturbs
    <3>3. \/ h = <<s, Reply(Failure)>>
          \/ h = <<DirOf(s, r.which, "out"), Reply(Ok)>>
          \/ h = <<DirOf(s, r.which, "out"), Reply(Failure)>>
      BY <3>2 DEF DirectionOut, Configured, DirOf
    <3> QED
      BY <1>1, <1>3, <1>4, <1>9, <3>1, <3>2, <3>3, Refusals
  <2>4. CASE r.type = "set_debounce" /\ r.usec = 0
    <3>1. h = <<s, Reply(Ok)>> /\ GpioSettings(r) = NoSettings
      BY <1>9, <2>4 DEF GpioHandle, GpioSettings, SetDebounce, Unchanged
    <3> QED
      BY <1>2, <3>1
  <2>5. CASE r.type = "set_debounce" /\ r.usec = 1
    <3>1. GpioSettings(r) = Only(<<"dir", r.which>>, "off")
      BY <2>5 DEF GpioSettings
    <3>2. h \in SetDebounce(s, r.which, r.usec)
      BY <1>9, <2>5 DEF GpioHandle
    <3>3. h = <<s, Reply(Failure)>> \/ h = <<DirOf(s, r.which, "off"), Reply(Ok)>>
      BY <2>5, <3>2 DEF SetDebounce, Configured, DirOf
    <3> QED
      BY <1>1, <1>3, <1>9, <3>1, <3>3, Refusals
  <2>6. CASE r.type = "irq_mask"
    <3>1. GpioSettings(r) = Only(<<"irq", r.which>>, "none") /\ "none" \in Types
      BY <2>6 DEF GpioSettings, Types
    <3>2. h \in SetIrq(s, r.which, "none")
      BY <1>9, <2>6 DEF GpioHandle
    <3>3. h = <<s, Reply(Failure)>> \/ h = <<IrqOf(s, r.which, "none"), Reply(Ok)>>
      BY <3>2 DEF SetIrq, Configured, IrqOf
    <3> QED
      BY <1>1, <1>5, <1>9, <3>1, <3>3, Refusals
  <2>7. CASE r.type = "irq_unmask"
    <3>1. GpioSettings(r) = Only(<<"irq", r.which>>, "rising") /\ "rising" \in Types
      BY <2>7 DEF GpioSettings, Types
    <3>2. h \in SetIrq(s, r.which, "rising")
      BY <1>9, <2>7 DEF GpioHandle
    <3>3. h = <<s, Reply(Failure)>> \/ h = <<IrqOf(s, r.which, "rising"), Reply(Ok)>>
      BY <3>2 DEF SetIrq, Configured, IrqOf
    <3> QED
      BY <1>1, <1>5, <1>9, <3>1, <3>3, Refusals
  <2>8. CASE r.type = "irq_type"
    <3>1. GpioSettings(r) = Only(<<"irq", r.which>>, r.irq)
      BY <2>8 DEF GpioSettings
    <3>2. CASE r.irq = "unknown"
      <4>1. h = <<s, Reply(Invalid)>>
        BY <1>9, <2>8, <3>2 DEF GpioHandle, Unchanged
      <4> QED
        BY <1>1, <4>1, Refusals
    <3>3. CASE r.irq # "unknown"
      <4>1. h \in SetIrq(s, r.which, r.irq) /\ r.irq \in Types
        BY <1>9, <2>8, <3>3 DEF GpioHandle, GpioRequests
      <4>2. h = <<s, Reply(Failure)>> \/ h = <<IrqOf(s, r.which, r.irq), Reply(Ok)>>
        BY <4>1 DEF SetIrq, Configured, IrqOf
      <4> QED
        BY <1>1, <1>5, <1>9, <3>1, <4>1, <4>2, Refusals
    <3> QED
      BY <3>2, <3>3
  <2> QED
    BY <1>9, <2>1, <2>2, <2>3, <2>4, <2>5, <2>6, <2>7, <2>8 DEF GpioRequests
<1> QED
  BY <1>6, <1>7, <1>8, <1>9

-----------------------------------------------------------------------------
(* The vibrator, and the buses                                             *)

LEMMA VibratorHandled ==
  ASSUME NEW s \in {"on", "off"}, NEW r \in VibratorRequests, NEW h \in VibratorHandle(s, r)
  PROVE  /\ h[1] \in {"on", "off"}
         /\ Ended(VibratorShows(s), VibratorShows(h[1]), VibratorSettings(r), {}, h[2])
<1>1. h = <<s, Reply(Invalid)>> \/ h = <<s, Reply(Failure)>> \/
      (h = <<r.type, Reply(Ok)>> /\ r.type \in {"on", "off"})
  BY DEF VibratorRequests, VibratorHandle, Unchanged, Configured
<1>2. CASE h = <<s, Reply(Invalid)>> \/ h = <<s, Reply(Failure)>>
  BY <1>2, EndsRefused, Refusals
<1>3. CASE h = <<r.type, Reply(Ok)>> /\ r.type \in {"on", "off"}
  <2>1. Moved(VibratorShows(s), VibratorShows(r.type), <<"motor", 0>>, r.type)
    BY OnlyMoved DEF VibratorShows
  <2>2. Ended(VibratorShows(s), VibratorShows(r.type), VibratorSettings(r), {}, Reply(Ok))
    BY <2>1, EndsDone DEF VibratorSettings
  <2> QED
    BY <1>3, <2>2
<1> QED
  BY <1>1, <1>2, <1>3

\* Whatever a bus showed, it shows the transfers of the last request.
LEMMA BusFollows ==
  ASSUME NEW s, NEW t, NEW r, NEW set, NEW o,
         o.answers = <<Ok>> => set = Only(<<"bus", 0>>, t) \/ set = NoSettings
  PROVE  Follows(BusShows(s), BusShows(t), DOMAIN BusShows(s), set, BusDisturbs(r), o)
<1>1. BusShows(t) = Only(<<"bus", 0>>, t)
  BY DEF BusShows
<1>2. DOMAIN BusShows(s) = {<<"bus", 0>>}
  BY OnlyOne DEF BusShows
<1>3. DOMAIN BusShows(t) = {<<"bus", 0>>}
  BY OnlyOne DEF BusShows
<1>4. DOMAIN NoSettings = {} /\ BusDisturbs(r) = {<<"bus", 0>>}
  BY DEF BusDisturbs, NoSettings
<1>5. ASSUME o.answers = <<Ok>>, NEW f \in DOMAIN set
      PROVE  f \in DOMAIN BusShows(s) /\ BusShows(t)[f] = set[f]
  BY <1>1, <1>2, <1>3, <1>4, <1>5
<1>6. DOMAIN BusShows(t) = DOMAIN BusShows(s) /\ DOMAIN BusShows(s) = BusDisturbs(r)
  BY <1>2, <1>3, <1>4
<1> QED
  BY <1>5, <1>6 DEF Follows

LEMMA SeqsOfPrefix ==
  ASSUME NEW S, NEW n \in Nat, NEW q \in SeqsOf(S, n), NEW k \in 0..Len(q)
  PROVE  SubSeq(q, 1, k) \in SeqsOf(S, n)
<1>1. PICK m \in 0..n : q \in [1..m -> S]
  BY DEF SeqsOf
<1>2. Len(q) = m
  BY <1>1
<1>3. SubSeq(q, 1, k) \in [1..k -> S]
  <2>1. k \in Int /\ 1 \in Int /\ k \in 0..m /\ \A i \in 1..k : q[i] \in S
    BY <1>1, <1>2
  <2>2. /\ SubSeq(q, 1, k) \in Seq(S)
        /\ Len(SubSeq(q, 1, k)) = IF 1 <= k THEN k - 1 + 1 ELSE 0
    BY <2>1, SubSeqProperties
  <2>3. Len(SubSeq(q, 1, k)) = k
    BY <2>1, <2>2
  <2> DEFINE p == SubSeq(q, 1, k)
  <2> HIDE DEF p
  <2>4. p \in Seq(S) /\ Len(p) = k
    BY <2>2, <2>3 DEF p
  <2>5. p \in [1..k -> S]
    BY <2>4, LenProperties
  <2> QED
    BY <2>5 DEF p
<1>4. k \in 0..n
  BY <1>2
<1> QED
  BY <1>3, <1>4 DEF SeqsOf

LEMMA SeqsOfEmpty ==
  ASSUME NEW S, NEW n \in Nat
  PROVE  <<>> \in SeqsOf(S, n)
<1>1. <<>> \in [1..0 -> S] /\ 0 \in 0..n
  OBVIOUS
<1> QED
  BY <1>1 DEF SeqsOf

LEMMA I2cHandled ==
  ASSUME NEW s, NEW r \in I2cRequests, NEW h \in I2cHandle(s, r)
  PROVE  /\ h[1] \in SeqsOf(Ops, MaxOps)
         /\ Answered(h[2]) \/ h[2] = ReplyAndKeep(Ok)
         /\ Follows(BusShows(s), BusShows(h[1]), DOMAIN BusShows(s), I2cSettings(r),
                    BusDisturbs(r), h[2])
<1>1. CASE r.type = "functionality" \/ r.type = "unknown"
  <2>1. I2cSettings(r) = Only(<<"bus", 0>>, <<>>)
    BY <1>1 DEF I2cSettings
  <2>2. PICK x \in Answers : h = <<(<<>>), Reply(x)>>
    BY <1>1, Refusals DEF I2cHandle
  <2> QED
    BY <2>1, <2>2, BusFollows, SeqsOfEmpty, NodeAssumption, Replies DEF Answered
<1>2. CASE r.type = "transfer"
  <2>1. r.ops \in SeqsOf(Ops, MaxOps) /\ I2cSettings(r) = Only(<<"bus", 0>>, r.ops)
    BY <1>2 DEF I2cRequests, I2cSettings
  <2>2. h \in I2cTransfer(r.ops)
    BY <1>2 DEF I2cHandle
  <2>3. CASE h = <<r.ops, ReplyAndKeep(Ok)>>
    BY <2>1, <2>3, BusFollows
  <2>4. CASE \E done \in Started(r.ops) : h = <<done, Reply(Failure)>>
    <3>1. PICK k \in 0..Len(r.ops) - 1 : h = <<SubSeq(r.ops, 1, k), Reply(Failure)>>
      BY <2>4 DEF Started
    <3>2. k \in 0..Len(r.ops)
      <4>1. PICK m \in 0..MaxOps : r.ops \in [1..m -> Ops]
        BY <2>1 DEF SeqsOf
      <4> QED
        BY <3>1, <4>1, NodeAssumption
    <3>3. h[1] \in SeqsOf(Ops, MaxOps)
      BY <2>1, <3>1, <3>2, SeqsOfPrefix, NodeAssumption
    <3>4. Told(h[2], Failure) /\ h[2].answers # <<Ok>>
      BY <3>1, Replies, ToldOk, Refusals
    <3> QED
      BY <3>3, <3>4, BusFollows, Refusals DEF Answered
  <2> QED
    BY <2>2, <2>3, <2>4 DEF I2cTransfer
<1> QED
  BY <1>1, <1>2 DEF I2cRequests

LEMMA SpiWordsAsAsked ==
  ASSUME NEW ops \in SeqsOf(SpiOps, MaxOps)
  PROVE  /\ Len(ops) \in Nat /\ DOMAIN ops = 1..Len(ops)
         /\ SpiWords(ops) \in SeqsOf(SUBSET Words, MaxOps)
         /\ Len(SpiWords(ops)) = Len(ops)
         /\ SubSeq(SpiWords(ops), 1, Len(ops)) = SpiWords(ops)
         /\ \/ \E i, j \in DOMAIN ops : ops[i].word # ops[j].word
            \/ SpiWords(ops) = [i \in DOMAIN ops |-> ops[i].word]
<1> DEFINE w == SpiWords(ops)
<1>1. PICK m \in 0..MaxOps : ops \in [1..m -> SpiOps]
  BY DEF SeqsOf
<1>2. m \in Nat /\ DOMAIN ops = 1..m /\ Len(ops) = m
  BY <1>1, NodeAssumption
<1>3. \A i \in DOMAIN ops : ops[i].word \in SUBSET Words
  BY <1>1 DEF SpiOps
<1>4. \A i \in 1..m : UNION {ops[j].word : j \in 1..i} \in SUBSET Words
  <2> SUFFICES ASSUME NEW i \in 1..m, NEW x \in UNION {ops[j].word : j \in 1..i}
               PROVE  x \in Words
    OBVIOUS
  <2>1. PICK j \in 1..i : x \in ops[j].word
    OBVIOUS
  <2>2. j \in DOMAIN ops
    BY <1>2, <2>1
  <2> QED
    BY <1>3, <2>1, <2>2
<1>5. w = [i \in 1..m |-> UNION {ops[j].word : j \in 1..i}]
  BY <1>2 DEF SpiWords
<1>6. w \in [1..m -> SUBSET Words]
  BY <1>4, <1>5
<1>7. w \in Seq(SUBSET Words) /\ Len(w) = m
  BY <1>2, <1>6
<1>8. w \in SeqsOf(SUBSET Words, MaxOps)
  BY <1>1, <1>6 DEF SeqsOf
<1>9. ASSUME \A i, j \in DOMAIN ops : ops[i].word = ops[j].word
      PROVE  w = [i \in DOMAIN ops |-> ops[i].word]
  <2>1. ASSUME NEW i \in 1..m
        PROVE  UNION {ops[j].word : j \in 1..i} = ops[i].word
    <3>1. \A j \in 1..i : j \in DOMAIN ops /\ i \in DOMAIN ops
      BY <1>2, <2>1
    <3>2. \A j \in 1..i : ops[j].word = ops[i].word
      BY <1>9, <3>1
    <3>3. i \in 1..i
      BY <2>1
    <3> QED
      BY <3>2, <3>3
  <2> QED
    BY <1>2, <1>5, <2>1
<1>10. SubSeq(w, 1, m) = w
  <2> HIDE DEF w
  <2> QED
    BY <1>7, SubSeqFull
<1> QED
  BY <1>2, <1>7, <1>8, <1>9, <1>10

LEMMA SpiHandled ==
  ASSUME NEW s, NEW r \in SpiRequests, NEW h \in SpiHandle(s, r)
  PROVE  /\ h[1] \in SeqsOf(SUBSET Words, MaxOps) /\ Answered(h[2])
         /\ Follows(BusShows(s), BusShows(h[1]), DOMAIN BusShows(s), SpiSettings(r),
                    BusDisturbs(r), h[2])
<1>1. CASE r.type # "transfer"
  <2>1. SpiSettings(r) = Only(<<"bus", 0>>, <<>>)
    BY <1>1 DEF SpiSettings
  <2>2. PICK x \in Answers : h = <<(<<>>), Reply(x)>>
    BY <1>1, Refusals DEF SpiRequests, SpiHandle
  <2> QED
    BY <2>1, <2>2, BusFollows, SeqsOfEmpty, NodeAssumption, Replies DEF Answered
<1>2. CASE r.type = "transfer"
  <2>1. r.ops \in SeqsOf(SpiOps, MaxOps)
    BY <1>2 DEF SpiRequests
  <2> DEFINE ops == r.ops
             w == SpiWords(ops)
  <2>2. /\ Len(ops) \in Nat /\ w \in SeqsOf(SUBSET Words, MaxOps) /\ Len(w) = Len(ops)
        /\ SubSeq(w, 1, Len(ops)) = w
    BY <2>1, SpiWordsAsAsked
  <2>3. \A k \in 0..Len(ops) : SubSeq(w, 1, k) \in SeqsOf(SUBSET Words, MaxOps)
    <3> HIDE DEF w, ops
    <3> QED
      BY <2>2, SeqsOfPrefix, NodeAssumption
  <2>4. SpiSettings(r) = NoSettings \/ SpiSettings(r) = Only(<<"bus", 0>>, w)
    BY <1>2, <2>1, SpiWordsAsAsked DEF SpiSettings
  <2>5. h \in SpiTransfer(ops)
    BY <1>2 DEF SpiHandle
  <2>6. \/ h = <<SubSeq(w, 1, Len(ops)), Reply(Ok)>>
        \/ \E k \in 0..Len(ops) - 1 :
             h = <<SubSeq(w, 1, k), Reply(Internal)>> \/
             /\ SpiRefusal(ops[k + 1].kind) # Ok
             /\ h = <<SubSeq(w, 1, k), Reply(SpiRefusal(ops[k + 1].kind))>>
    <3> DEFINE Made(k) == SubSeq(SpiWords(ops), 1, k)
               Accepted(k) == \A i \in 1..k : SpiRefusal(ops[i].kind) = Ok
    <3>1. \/ h \in {<<Made(k), Reply(Ok)>> : k \in {n \in {Len(ops)} : Accepted(n)}}
          \/ h \in {<<Made(k), Reply(SpiRefusal(ops[k + 1].kind))>> :
                      k \in {n \in 0..Len(ops) - 1 : Accepted(n) /\ ~Accepted(n + 1)}}
          \/ h \in {<<Made(k), Reply(Internal)>> :
                      k \in {n \in 0..Len(ops) - 1 : Accepted(n + 1)}}
      BY <2>5 DEF SpiTransfer
    <3>2. ASSUME NEW k \in 0..Len(ops) - 1, Accepted(k), ~Accepted(k + 1)
          PROVE  SpiRefusal(ops[k + 1].kind) # Ok
      <4>1. PICK i \in 1..k + 1 : SpiRefusal(ops[i].kind) # Ok
        BY <3>2
      <4>2. i = k + 1
        BY <2>2, <3>2, <4>1
      <4> QED
        BY <4>1, <4>2
    <3> HIDE DEF Accepted
    <3> QED
      BY <3>1, <3>2
  <2>7. CASE h = <<SubSeq(w, 1, Len(ops)), Reply(Ok)>>
    <3>1. h[1] = w /\ Told(h[2], Ok)
      BY <2>2, <2>7, Replies
    <3> QED
      BY <2>2, <2>4, <3>1, BusFollows, Refusals DEF Answered
  <2>8. ASSUME NEW k \in 0..Len(ops) - 1, NEW x \in {Internal, Invalid},
               h = <<SubSeq(w, 1, k), Reply(x)>>
        PROVE  /\ h[1] \in SeqsOf(SUBSET Words, MaxOps) /\ Answered(h[2])
               /\ Follows(BusShows(s), BusShows(h[1]), DOMAIN BusShows(s), SpiSettings(r),
                          BusDisturbs(r), h[2])
    <3>1. h[1] \in SeqsOf(SUBSET Words, MaxOps)
      <4>1. k \in 0..Len(ops)
        BY <2>2, <2>8
      <4>2. SubSeq(w, 1, k) \in SeqsOf(SUBSET Words, MaxOps)
        BY <2>3, <4>1
      <4> QED
        BY <2>8, <4>2
    <3>2. Told(h[2], x) /\ h[2].answers # <<Ok>> /\ x \in Answers
      BY <2>8, Replies, ToldOk, Refusals
    <3> QED
      BY <3>1, <3>2, BusFollows DEF Answered
  <2>9. \A kind : SpiRefusal(kind) \in {Ok, Internal, Invalid}
    BY DEF SpiRefusal
  <2>10. ASSUME NEW k \in 0..Len(ops) - 1, SpiRefusal(ops[k + 1].kind) # Ok,
                h = <<SubSeq(w, 1, k), Reply(SpiRefusal(ops[k + 1].kind))>>
         PROVE  \E x \in {Internal, Invalid} : h = <<SubSeq(w, 1, k), Reply(x)>>
    BY <2>9, <2>10
  <2> HIDE DEF w, ops
  <2> QED
    BY <2>6, <2>7, <2>8, <2>10
<1> QED
  BY <1>1, <1>2 DEF SpiRequests

-----------------------------------------------------------------------------
(* The older drivers                                                       *)

LEMMA LegacyFeatures ==
  ASSUME NEW s
  PROVE  DOMAIN LegacyShows(s) = {<<"conf", 0>>, <<"length", 0>>}
<1> DEFINE f == Only(<<"conf", 0>>, s.conf)
           g == Only(<<"length", 0>>, s.length)
<1>1. DOMAIN f = {<<"conf", 0>>}
  BY OnlyOne
<1>2. DOMAIN g = {<<"length", 0>>}
  BY OnlyOne
<1> HIDE DEF f, g
<1>3. DOMAIN Over(f, g) = {<<"conf", 0>>} \cup {<<"length", 0>>}
  BY <1>1, <1>2, OverDomain
<1>4. LegacyShows(s) = Over(f, g)
  BY DEF LegacyShows, f, g
<1> QED
  BY <1>3, <1>4

LEMMA LegacyShowsConf ==
  ASSUME NEW s
  PROVE  LegacyShows(s)[<<"conf", 0>>] = s.conf
<1> DEFINE f == Only(<<"conf", 0>>, s.conf)
<1>1. <<"conf", 0>> \in DOMAIN f /\ f[<<"conf", 0>>] = s.conf
  BY OnlyOne
<1> HIDE DEF f
<1>2. Over(f, Only(<<"length", 0>>, s.length))[<<"conf", 0>>] = s.conf
  BY <1>1, OverLeft
<1> QED
  BY <1>2 DEF LegacyShows, f

LEMMA LegacyShowsLength ==
  ASSUME NEW s
  PROVE  LegacyShows(s)[<<"length", 0>>] = s.length
<1> DEFINE f == Only(<<"conf", 0>>, s.conf)
           g == Only(<<"length", 0>>, s.length)
<1>1. DOMAIN f = {<<"conf", 0>>}
  BY OnlyOne
<1>2. <<"length", 0>> \in DOMAIN g /\ g[<<"length", 0>>] = s.length
  BY OnlyOne
<1> HIDE DEF f, g
<1>3. <<"length", 0>> \notin DOMAIN f
  BY <1>1
<1>4. Over(f, g)[<<"length", 0>>] = s.length
  BY <1>2, <1>3, OverRight
<1> QED
  BY <1>4 DEF LegacyShows, f, g

ConfOf(s, v) == [s EXCEPT !.conf = v]
LengthKnown(s) == [s EXCEPT !.length = "known"]

LEMMA LegacyConf ==
  ASSUME NEW s \in LegacyStates, NEW v \in Values \cup {"none", "on", "off"}
  PROVE  /\ ConfOf(s, v) \in LegacyStates /\ ConfOf(s, v).armed = s.armed
         /\ Moved(LegacyShows(s), LegacyShows(ConfOf(s, v)), <<"conf", 0>>, v)
<1> DEFINE t == ConfOf(s, v)
<1>1. t.conf = v /\ t.length = s.length /\ t.armed = s.armed /\ t \in LegacyStates
  BY DEF LegacyStates, ConfOf
<1> HIDE DEF t
<1>2. LegacyShows(t)[<<"conf", 0>>] = v
  BY <1>1, LegacyShowsConf
<1>3. LegacyShows(t)[<<"length", 0>>] = LegacyShows(s)[<<"length", 0>>]
  BY <1>1, LegacyShowsLength
<1>4. Moved(LegacyShows(s), LegacyShows(t), <<"conf", 0>>, v)
  BY <1>2, <1>3, LegacyFeatures DEF Moved
<1> QED
  BY <1>1, <1>4 DEF t

LEMMA LegacyLength ==
  ASSUME NEW s \in LegacyStates
  PROVE  /\ LengthKnown(s) \in LegacyStates /\ LengthKnown(s).armed = s.armed
         /\ Moved(LegacyShows(s), LegacyShows(LengthKnown(s)), <<"length", 0>>, "known")
<1> DEFINE t == LengthKnown(s)
<1>1. t.conf = s.conf /\ t.length = "known" /\ t.armed = s.armed /\ t \in LegacyStates
  BY DEF LegacyStates, LengthKnown
<1> HIDE DEF t
<1>2. LegacyShows(t)[<<"conf", 0>>] = LegacyShows(s)[<<"conf", 0>>]
  BY <1>1, LegacyShowsConf
<1>3. LegacyShows(t)[<<"length", 0>>] = "known"
  BY <1>1, LegacyShowsLength
<1>4. Moved(LegacyShows(s), LegacyShows(t), <<"length", 0>>, "known")
  BY <1>2, <1>3, LegacyFeatures DEF Moved
<1> QED
  BY <1>1, <1>4 DEF t

\* What a request makes of an older driver.
LegacyEnds(s, r, h) ==
  \/ \E x \in Answers : x # Ok /\ h = <<s, Reply(x)>>
  \/ h = <<s, Reply(Ok)>> /\ LegacySettings(r) = NoSettings
  \/ \E v \in Values \cup {"none", "on", "off"} :
       h = <<ConfOf(s, v), Reply(Ok)>> /\ LegacySettings(r) = Only(<<"conf", 0>>, v)
  \/ h = <<LengthKnown(s), Reply(Ok)>> /\ LegacySettings(r) = Only(<<"length", 0>>, "known")

LEMMA LegacyAccessed ==
  ASSUME NEW s, NEW r, NEW failures \in SUBSET (Answers \ {Ok}),
         NEW h \in Accessed(s, failures), LegacySettings(r) = NoSettings
  PROVE  LegacyEnds(s, r, h)
  BY DEF Accessed, LegacyEnds

LEMMA LegacyConfigured ==
  ASSUME NEW s, NEW r, NEW v \in Values \cup {"none", "on", "off"}, NEW x \in Answers \ {Ok},
         NEW h \in Configured(s, [s EXCEPT !.conf = v], x),
         LegacySettings(r) = Only(<<"conf", 0>>, v)
  PROVE  LegacyEnds(s, r, h)
<1>1. h = <<s, Reply(x)>> \/ h = <<ConfOf(s, v), Reply(Ok)>>
  BY DEF Configured, ConfOf
<1> QED
  BY <1>1 DEF LegacyEnds

LEMMA LegacyRefused ==
  ASSUME NEW s, NEW r, NEW x \in Answers \ {Ok}, NEW h \in Unchanged(s, x)
  PROVE  LegacyEnds(s, r, h)
  BY DEF Unchanged, LegacyEnds

LEMMA LegacyFailures ==
  /\ {NoMemory} \in SUBSET (Answers \ {Ok}) /\ {Failure, NoMemory} \in SUBSET (Answers \ {Ok})
  /\ {Failure, NoMemory, Invalid} \in SUBSET (Answers \ {Ok})
  /\ {NoMemory, Unknown} \in SUBSET (Answers \ {Ok}) /\ {Unknown} \in SUBSET (Answers \ {Ok})
  /\ Failure \in Answers \ {Ok} /\ Unknown \in Answers \ {Ok} /\ Invalid \in Answers \ {Ok}
  /\ NoMemory \in Answers \ {Ok}
  BY Refusals

LEMMA PowerSupplyHandled ==
  ASSUME NEW s, NEW r \in PowerSupplyRequests, NEW h \in PowerSupplyHandle(s, r)
  PROVE  LegacyEnds(s, r, h)
<1>1. CASE r.type = "version"
  <2>1. LegacySettings(r) = NoSettings /\ h \in Accessed(s, {NoMemory})
    BY <1>1 DEF LegacySettings, PowerSupplyHandle, Version
  <2> QED
    BY <2>1, LegacyAccessed, LegacyFailures
<1>2. CASE r.type = "set_property"
  <2>1. /\ LegacySettings(r) = Only(<<"conf", 0>>, r.value) /\ r.value \in Values
        /\ h \in Configured(s, [s EXCEPT !.conf = r.value], Failure)
    BY <1>2 DEF LegacySettings, PowerSupplyHandle, PowerSupplyRequests, SetProperty
  <2> QED
    BY <2>1, LegacyConfigured, LegacyFailures
<1>3. CASE r.type \in {"short", "unknown"}
  <2>1. h \in Unchanged(s, Invalid)
    BY <1>3 DEF PowerSupplyHandle
  <2> QED
    BY <2>1, LegacyRefused, LegacyFailures
<1>4. CASE r.type \in {"get_supplies", "get_description", "get_prop_descriptors", "get_property"}
  <2>1. LegacySettings(r) = NoSettings /\ h \in Accessed(s, {Failure, NoMemory})
    BY <1>4 DEF LegacySettings, PowerSupplyHandle, PowerSupplyRead
  <2> QED
    BY <2>1, LegacyAccessed, LegacyFailures
<1> QED
  BY <1>1, <1>2, <1>3, <1>4 DEF PowerSupplyRequests

LEMMA SdioHandled ==
  ASSUME NEW s, NEW r \in SdioRequests, NEW h \in SdioHandle(s, r)
  PROVE  LegacyEnds(s, r, h)
<1>1. CASE r.type = "version"
  <2>1. LegacySettings(r) = NoSettings /\ h \in Accessed(s, {NoMemory})
    BY <1>1 DEF LegacySettings, SdioHandle, Version
  <2> QED
    BY <2>1, LegacyAccessed, LegacyFailures
<1>2. CASE r.type = "set_ios"
  <2>1. /\ LegacySettings(r) = Only(<<"conf", 0>>, r.value) /\ r.value \in Values
        /\ h \in Configured(s, [s EXCEPT !.conf = r.value], Failure)
    BY <1>2 DEF LegacySettings, SdioHandle, SdioRequests, SetIos
  <2> QED
    BY <2>1, LegacyConfigured, LegacyFailures
<1>3. CASE r.type \in {"short", "unknown"}
  <2>1. h \in Unchanged(s, Invalid)
    BY <1>3 DEF SdioHandle
  <2> QED
    BY <2>1, LegacyRefused, LegacyFailures
<1>4. CASE r.type \in {"get_capabilities", "command"}
  <2>1. LegacySettings(r) = NoSettings /\ h \in Accessed(s, {Failure, NoMemory})
    BY <1>4 DEF LegacySettings, SdioHandle, GetCapabilities, Command
  <2> QED
    BY <2>1, LegacyAccessed, LegacyFailures
<1>5. CASE r.type = "transfer"
  <2>1. LegacySettings(r) = NoSettings /\ h \in Accessed(s, {Failure, NoMemory, Invalid})
    BY <1>5 DEF LegacySettings, SdioHandle, Transfer
  <2> QED
    BY <2>1, LegacyAccessed, LegacyFailures
<1> QED
  BY <1>1, <1>2, <1>3, <1>4, <1>5 DEF SdioRequests

LEMMA UsbHandled ==
  ASSUME NEW s, NEW r \in UsbRequests, NEW h \in UsbHandle(s, r)
  PROVE  LegacyEnds(s, r, h)
<1>1. CASE r.type = "version"
  <2>1. LegacySettings(r) = NoSettings /\ h \in Accessed(s, {NoMemory})
    BY <1>1 DEF LegacySettings, UsbHandle, Version
  <2> QED
    BY <2>1, LegacyAccessed, LegacyFailures
<1>2. CASE r.type = "stop"
  <2>1. LegacySettings(r) = Only(<<"conf", 0>>, "off") /\ h = <<ConfOf(s, "off"), Reply(Ok)>>
    BY <1>2 DEF LegacySettings, UsbHandle, UsbStop, ConfOf
  <2> QED
    BY <2>1 DEF LegacyEnds
<1>3. CASE r.type = "start"
  <2>1. /\ LegacySettings(r) = Only(<<"conf", 0>>, "on")
        /\ h \in Configured(s, [s EXCEPT !.conf = "on"], Unknown)
    BY <1>3 DEF LegacySettings, UsbHandle, UsbStart
  <2> QED
    BY <2>1, LegacyConfigured, LegacyFailures
<1>4. CASE r.type = "hub_control"
  <2>1. LegacySettings(r) = NoSettings /\ h \in Accessed(s, {NoMemory, Unknown})
    BY <1>4 DEF LegacySettings, UsbHandle, HubControl
  <2> QED
    BY <2>1, LegacyAccessed, LegacyFailures
<1>5. CASE r.type \in {"short", "unknown"}
  <2>1. h \in Unchanged(s, Invalid)
    BY <1>5 DEF UsbHandle
  <2> QED
    BY <2>1, LegacyRefused, LegacyFailures
<1> QED
  BY <1>1, <1>2, <1>3, <1>4, <1>5 DEF UsbRequests

LEMMA HidHandled ==
  ASSUME NEW s, NEW r \in HidRequests, NEW h \in HidHandle(s, r)
  PROVE  LegacyEnds(s, r, h)
<1>1. CASE r.type = "version"
  <2>1. LegacySettings(r) = NoSettings /\ h \in Accessed(s, {NoMemory})
    BY <1>1 DEF LegacySettings, HidHandle, Version
  <2> QED
    BY <2>1, LegacyAccessed, LegacyFailures
<1>2. CASE r.type = "get_descriptor"
  <2>1. LegacySettings(r) = Only(<<"length", 0>>, "known") /\ h \in GetDescriptor(s)
    BY <1>2 DEF LegacySettings, HidHandle
  <2>2. \/ h = <<s, Reply(Unknown)>> \/ h = <<s, Reply(NoMemory)>>
        \/ h = <<LengthKnown(s), Reply(Ok)>>
    BY <2>1 DEF GetDescriptor, Configured, Unchanged, LengthKnown
  <2> QED
    BY <2>1, <2>2, LegacyFailures DEF LegacyEnds
<1>3. CASE r.type \in {"get_report_descriptor", "get_report"}
  <2>1. LegacySettings(r) = NoSettings /\ h \in Accessed(s, {NoMemory, Unknown})
    BY <1>3 DEF LegacySettings, HidHandle, GetReportDescriptor, GetReport
  <2> QED
    BY <2>1, LegacyAccessed, LegacyFailures
<1>4. CASE r.type = "set_report"
  <2>1. LegacySettings(r) = NoSettings /\ h \in Accessed(s, {Unknown})
    BY <1>4 DEF LegacySettings, HidHandle, SetReport
  <2> QED
    BY <2>1, LegacyAccessed, LegacyFailures
<1>5. CASE r.type = "power_on"
  <2>1. /\ LegacySettings(r) = Only(<<"conf", 0>>, "on")
        /\ h \in Configured(s, [s EXCEPT !.conf = "on"], Unknown)
    BY <1>5 DEF LegacySettings, HidHandle, HidPowerOn
  <2> QED
    BY <2>1, LegacyConfigured, LegacyFailures
<1>6. CASE r.type = "power_off"
  <2>1. /\ LegacySettings(r) = Only(<<"conf", 0>>, "off")
        /\ h \in Configured(s, [s EXCEPT !.conf = "off"], Unknown)
    BY <1>6 DEF LegacySettings, HidHandle, HidPowerOff
  <2> QED
    BY <2>1, LegacyConfigured, LegacyFailures
<1>7. CASE r.type \in {"short", "unknown"}
  <2>1. h \in Unchanged(s, Invalid)
    BY <1>7 DEF HidHandle
  <2> QED
    BY <2>1, LegacyRefused, LegacyFailures
<1> QED
  BY <1>1, <1>2, <1>3, <1>4, <1>5, <1>6, <1>7 DEF HidRequests

LEMMA LegacyHandled ==
  ASSUME NEW driver \in LegacyDrivers, NEW s \in LegacyStates,
         NEW r \in LegacyRequests(driver), NEW h \in LegacyHandle(s, r, driver)
  PROVE  /\ h[1] \in LegacyStates /\ h[1].armed = s.armed
         /\ Ended(LegacyShows(s), LegacyShows(h[1]), LegacySettings(r), {}, h[2])
<1>1. LegacyEnds(s, r, h)
  <2>1. CASE driver = "power_supply"
    BY <2>1, PowerSupplyHandled DEF LegacyRequests, LegacyHandle
  <2>2. CASE driver = "sdio"
    BY <2>2, SdioHandled DEF LegacyRequests, LegacyHandle
  <2>3. CASE driver = "usb"
    BY <2>3, UsbHandled DEF LegacyRequests, LegacyHandle
  <2>4. CASE driver = "hid"
    BY <2>4, HidHandled DEF LegacyRequests, LegacyHandle
  <2> QED
    BY <2>1, <2>2, <2>3, <2>4 DEF LegacyDrivers
<1>2. ASSUME NEW x \in Answers, x # Ok, h = <<s, Reply(x)>>
      PROVE  /\ h[1] \in LegacyStates /\ h[1].armed = s.armed
             /\ Ended(LegacyShows(s), LegacyShows(h[1]), LegacySettings(r), {}, h[2])
  BY <1>2, EndsRefused
<1>3. ASSUME h = <<s, Reply(Ok)>>, LegacySettings(r) = NoSettings
      PROVE  /\ h[1] \in LegacyStates /\ h[1].armed = s.armed
             /\ Ended(LegacyShows(s), LegacyShows(h[1]), LegacySettings(r), {}, h[2])
  BY <1>3, EndsNothingSet
<1>4. ASSUME NEW v \in Values \cup {"none", "on", "off"}, h = <<ConfOf(s, v), Reply(Ok)>>,
             LegacySettings(r) = Only(<<"conf", 0>>, v)
      PROVE  /\ h[1] \in LegacyStates /\ h[1].armed = s.armed
             /\ Ended(LegacyShows(s), LegacyShows(h[1]), LegacySettings(r), {}, h[2])
  BY <1>4, LegacyConf, EndsDone
<1>5. ASSUME h = <<LengthKnown(s), Reply(Ok)>>,
             LegacySettings(r) = Only(<<"length", 0>>, "known")
      PROVE  /\ h[1] \in LegacyStates /\ h[1].armed = s.armed
             /\ Ended(LegacyShows(s), LegacyShows(h[1]), LegacySettings(r), {}, h[2])
  BY <1>5, LegacyLength, EndsDone
<1> QED
  BY <1>1, <1>2, <1>3, <1>4, <1>5 DEF LegacyEnds

-----------------------------------------------------------------------------
(* UART                                                                    *)

LEMMA UartFeatures ==
  ASSUME NEW s
  PROVE  /\ DOMAIN UartShows(s) = {<<"conf", 0>>, <<"dtr", 0>>, <<"rts", 0>>}
         /\ UartShows(s)[<<"conf", 0>>] = s.conf
         /\ UartShows(s)[<<"dtr", 0>>] = s.dtr
         /\ UartShows(s)[<<"rts", 0>>] = s.rts
<1> DEFINE f == Only(<<"conf", 0>>, s.conf)
           g == Only(<<"dtr", 0>>, s.dtr)
           h == Only(<<"rts", 0>>, s.rts)
<1>1. DOMAIN f = {<<"conf", 0>>} /\ f[<<"conf", 0>>] = s.conf
  BY OnlyOne
<1>2. DOMAIN g = {<<"dtr", 0>>} /\ g[<<"dtr", 0>>] = s.dtr
  BY OnlyOne
<1>3. DOMAIN h = {<<"rts", 0>>} /\ h[<<"rts", 0>>] = s.rts
  BY OnlyOne
<1>4. UartShows(s) = Over(f, Over(g, h))
  BY DEF UartShows
<1> HIDE DEF f, g, h
<1>5. DOMAIN Over(g, h) = {<<"dtr", 0>>} \cup {<<"rts", 0>>}
  BY <1>2, <1>3, OverDomain
<1>6. DOMAIN Over(f, Over(g, h)) = {<<"conf", 0>>} \cup ({<<"dtr", 0>>} \cup {<<"rts", 0>>})
  BY <1>1, <1>5, OverDomain
<1>7. <<"dtr", 0>> \notin DOMAIN f /\ <<"rts", 0>> \notin DOMAIN f /\ <<"rts", 0>> \notin DOMAIN g
  BY <1>1, <1>2
<1>8. Over(f, Over(g, h))[<<"conf", 0>>] = s.conf
  <2>1. <<"conf", 0>> \in DOMAIN f
    BY <1>1
  <2> QED
    BY <1>1, <2>1, OverLeft
<1>9. Over(f, Over(g, h))[<<"dtr", 0>>] = s.dtr
  <2>1. <<"dtr", 0>> \in DOMAIN g /\ <<"dtr", 0>> \in DOMAIN Over(g, h)
    BY <1>2, <1>5
  <2>2. Over(f, Over(g, h))[<<"dtr", 0>>] = Over(g, h)[<<"dtr", 0>>]
    BY <1>7, <2>1, OverRight
  <2>3. Over(g, h)[<<"dtr", 0>>] = g[<<"dtr", 0>>]
    BY <2>1, OverLeft
  <2> QED
    BY <1>2, <2>2, <2>3
<1>10. Over(f, Over(g, h))[<<"rts", 0>>] = s.rts
  <2>1. <<"rts", 0>> \in DOMAIN h /\ <<"rts", 0>> \in DOMAIN Over(g, h)
    BY <1>3, <1>5
  <2>2. Over(f, Over(g, h))[<<"rts", 0>>] = Over(g, h)[<<"rts", 0>>]
    BY <1>7, <2>1, OverRight
  <2>3. Over(g, h)[<<"rts", 0>>] = h[<<"rts", 0>>]
    BY <1>7, <2>1, OverRight
  <2> QED
    BY <1>3, <2>2, <2>3
<1>11. DOMAIN UartShows(s) = {<<"conf", 0>>, <<"dtr", 0>>, <<"rts", 0>>}
  BY <1>4, <1>6
<1> QED
  BY <1>4, <1>8, <1>9, <1>10, <1>11

\* Two devices that show what they are set to.
LEMMA UartMoved ==
  ASSUME NEW s, NEW t
  PROVE  /\ t.dtr = s.dtr /\ t.rts = s.rts =>
              Moved(UartShows(s), UartShows(t), <<"conf", 0>>, t.conf)
         /\ t.conf = s.conf /\ t.rts = s.rts =>
              Moved(UartShows(s), UartShows(t), <<"dtr", 0>>, t.dtr)
         /\ t.conf = s.conf =>
              Taken(UartShows(s), UartShows(t),
                    Over(Only(<<"dtr", 0>>, t.dtr), Only(<<"rts", 0>>, t.rts)))
<1> DEFINE before == UartShows(s)
           after == UartShows(t)
           features == {<<"conf", 0>>, <<"dtr", 0>>, <<"rts", 0>>}
<1>1. /\ DOMAIN before = features
      /\ before[<<"conf", 0>>] = s.conf /\ before[<<"dtr", 0>>] = s.dtr /\ before[<<"rts", 0>>] = s.rts
  BY UartFeatures
<1>2. /\ DOMAIN after = features
      /\ after[<<"conf", 0>>] = t.conf /\ after[<<"dtr", 0>>] = t.dtr /\ after[<<"rts", 0>>] = t.rts
  BY UartFeatures
<1> HIDE DEF before, after
<1>3. ASSUME t.dtr = s.dtr, t.rts = s.rts
      PROVE  Moved(before, after, <<"conf", 0>>, t.conf)
  BY <1>1, <1>2, <1>3 DEF Moved
<1>4. ASSUME t.conf = s.conf, t.rts = s.rts
      PROVE  Moved(before, after, <<"dtr", 0>>, t.dtr)
  BY <1>1, <1>2, <1>4 DEF Moved
<1>5. ASSUME t.conf = s.conf
      PROVE  Taken(before, after, Over(Only(<<"dtr", 0>>, t.dtr), Only(<<"rts", 0>>, t.rts)))
  <2> DEFINE g == Only(<<"dtr", 0>>, t.dtr)
             h == Only(<<"rts", 0>>, t.rts)
             set == Over(g, h)
  <2>1. DOMAIN g = {<<"dtr", 0>>} /\ g[<<"dtr", 0>>] = t.dtr
    BY OnlyOne
  <2>2. DOMAIN h = {<<"rts", 0>>} /\ h[<<"rts", 0>>] = t.rts
    BY OnlyOne
  <2> HIDE DEF g, h
  <2>3. DOMAIN set = {<<"dtr", 0>>} \cup {<<"rts", 0>>}
    BY <2>1, <2>2, OverDomain
  <2>4. set[<<"dtr", 0>>] = t.dtr
    <3>1. <<"dtr", 0>> \in DOMAIN g
      BY <2>1
    <3> QED
      BY <2>1, <3>1, OverLeft
  <2>5. set[<<"rts", 0>>] = t.rts
    <3>1. <<"rts", 0>> \in DOMAIN h /\ <<"rts", 0>> \notin DOMAIN g
      BY <2>1, <2>2
    <3> QED
      BY <2>2, <3>1, OverRight
  <2> HIDE DEF set
  <2>6. Taken(before, after, set)
    <3>1. \A f \in DOMAIN set : after[f] = set[f]
      BY <1>2, <2>3, <2>4, <2>5
    <3>2. \A f \in DOMAIN before : f \notin DOMAIN set => after[f] = before[f]
      BY <1>1, <1>2, <1>5, <2>3
    <3>3. DOMAIN set \subseteq DOMAIN before
      BY <1>1, <2>3
    <3> QED
      BY <1>1, <1>2, <3>1, <3>2, <3>3 DEF Taken
  <2> QED
    BY <2>6 DEF set, g, h
<1> QED
  BY <1>3, <1>4, <1>5 DEF before, after

CodingOf(s, v) == [s EXCEPT !.conf = v]
LinesOf(s, dtr, rts) == [s EXCEPT !.dtr = dtr, !.rts = rts]
DtrOf(s, dtr) == [s EXCEPT !.dtr = dtr]

LEMMA UartCoding ==
  ASSUME NEW s \in UartStates, NEW v \in LineCodings
  PROVE  /\ CodingOf(s, v) \in UartStates /\ CodingOf(s, v).rx = s.rx
         /\ Moved(UartShows(s), UartShows(CodingOf(s, v)), <<"conf", 0>>, v)
<1>1. /\ CodingOf(s, v) \in UartStates /\ CodingOf(s, v).rx = s.rx
      /\ CodingOf(s, v).dtr = s.dtr /\ CodingOf(s, v).rts = s.rts /\ CodingOf(s, v).conf = v
  BY DEF UartStates, CodingOf
<1> QED
  BY <1>1, UartMoved

LEMMA UartLines ==
  ASSUME NEW s \in UartStates, NEW dtr \in BOOLEAN, NEW rts \in BOOLEAN
  PROVE  /\ LinesOf(s, dtr, rts) \in UartStates /\ LinesOf(s, dtr, rts).rx = s.rx
         /\ Taken(UartShows(s), UartShows(LinesOf(s, dtr, rts)),
                  Over(Only(<<"dtr", 0>>, dtr), Only(<<"rts", 0>>, rts)))
<1>1. /\ LinesOf(s, dtr, rts) \in UartStates /\ LinesOf(s, dtr, rts).rx = s.rx
      /\ LinesOf(s, dtr, rts).conf = s.conf
      /\ LinesOf(s, dtr, rts).dtr = dtr /\ LinesOf(s, dtr, rts).rts = rts
  BY DEF UartStates, LinesOf
<1> QED
  BY <1>1, UartMoved

LEMMA UartDtr ==
  ASSUME NEW s \in UartStates, NEW dtr \in BOOLEAN
  PROVE  /\ DtrOf(s, dtr) \in UartStates /\ DtrOf(s, dtr).rx = s.rx
         /\ Moved(UartShows(s), UartShows(DtrOf(s, dtr)), <<"dtr", 0>>, dtr)
<1>1. /\ DtrOf(s, dtr) \in UartStates /\ DtrOf(s, dtr).rx = s.rx
      /\ DtrOf(s, dtr).conf = s.conf /\ DtrOf(s, dtr).rts = s.rts /\ DtrOf(s, dtr).dtr = dtr
  BY DEF UartStates, DtrOf
<1> QED
  BY <1>1, UartMoved

LEMMA UartHandled ==
  ASSUME NEW s \in UartStates, NEW r \in UartRequests, NEW h \in UartHandle(s, r)
  PROVE  /\ h[1] \in UartStates /\ h[1].rx = s.rx
         /\ Ended(UartShows(s), UartShows(h[1]), UartSettings(r), UartDisturbs(r), h[2])
<1>1. ASSUME NEW x \in Answers, x # Ok, h = <<s, Reply(x)>>
      PROVE  /\ h[1] \in UartStates /\ h[1].rx = s.rx
             /\ Ended(UartShows(s), UartShows(h[1]), UartSettings(r), UartDisturbs(r), h[2])
  BY <1>1, EndsRefused
<1>2. CASE r.type = "send_data"
  <2>1. UartSettings(r) = NoSettings
    BY <1>2 DEF UartSettings
  <2>2. h[1] = s /\ Told(h[2], Ok)
    BY <1>2 DEF UartHandle, UartSendData, Told, Outcome
  <2> QED
    BY <2>1, <2>2 DEF Ended, NothingSet
<1>3. CASE r.type \in {"send_break", "flush_fifos"}
  <2>1. UartSettings(r) = NoSettings /\ h = <<s, Reply(Ok)>>
    BY <1>3 DEF UartSettings, UartHandle, Unchanged
  <2> QED
    BY <2>1, EndsNothingSet
<1>4. CASE r.type = "unknown"
  <2>1. h = <<s, Reply(ProtocolBad)>>
    BY <1>4 DEF UartHandle, Unchanged
  <2> QED
    BY <1>1, <2>1, Refusals
<1>5. CASE r.type = "set_line_coding"
  <2>1. /\ UartSettings(r) = Only(<<"conf", 0>>, r.conf)
        /\ h \in SetLineCoding(s, r.conf, r.flow) /\ r.conf \in LineCodings \cup {"unknown"}
    BY <1>5 DEF UartSettings, UartHandle, UartRequests
  <2>2. CASE r.conf = "unknown" \/ r.flow # 0
    <3>1. h = <<s, Reply(Invalid)>>
      BY <2>1, <2>2 DEF SetLineCoding, Unchanged
    <3> QED
      BY <1>1, <3>1, Refusals
  <2>3. CASE ~(r.conf = "unknown" \/ r.flow # 0)
    <3>1. h = <<s, Reply(Failure)>> \/ h = <<CodingOf(s, r.conf), Reply(Ok)>>
      BY <2>1, <2>3 DEF SetLineCoding, Configured, CodingOf
    <3>2. CASE h = <<CodingOf(s, r.conf), Reply(Ok)>>
      <4>1. r.conf \in LineCodings
        BY <2>1, <2>3
      <4> QED
        BY <2>1, <3>2, <4>1, UartCoding, EndsDone
    <3> QED
      BY <1>1, <3>1, <3>2, Refusals
  <2> QED
    BY <2>2, <2>3
<1>6. CASE r.type = "set_control_line_state"
  <2>1. /\ r.dtr \in BOOLEAN /\ r.rts \in BOOLEAN
    BY <1>6 DEF UartRequests
  <2>2. /\ UartSettings(r) = Over(Only(<<"dtr", 0>>, r.dtr), Only(<<"rts", 0>>, r.rts))
        /\ UartDisturbs(r) = {<<"dtr", 0>>}
        /\ h \in SetControlLineState(s, r.dtr, r.rts)
    BY <1>6 DEF UartSettings, UartDisturbs, UartHandle
  <2>3. \/ h = <<s, Reply(Failure)>> \/ h = <<LinesOf(s, r.dtr, r.rts), Reply(Ok)>>
        \/ h = <<DtrOf(s, r.dtr), Reply(Failure)>>
    BY <2>2 DEF SetControlLineState, Configured, LinesOf, DtrOf
  <2>4. CASE h = <<LinesOf(s, r.dtr, r.rts), Reply(Ok)>>
    BY <2>1, <2>2, <2>4, UartLines, Replies DEF Ended, Complete
  <2>5. CASE h = <<DtrOf(s, r.dtr), Reply(Failure)>>
    BY <2>1, <2>2, <2>5, UartDtr, EndsHalfWay
  <2> QED
    BY <1>1, <2>3, <2>4, <2>5, Refusals
<1> QED
  BY <1>2, <1>3, <1>4, <1>5, <1>6 DEF UartRequests

-----------------------------------------------------------------------------
(* Audio                                                                   *)

CtlShows(s) == [f \in {"ctl"} \X Controls |-> s.ctl[f[2]]]

LEMMA CtlDomain ==
  ASSUME NEW s
  PROVE  DOMAIN CtlShows(s) = {<<"ctl", 1>>, <<"ctl", 2>>}
<1>1. DOMAIN CtlShows(s) = {"ctl"} \X {1, 2}
  BY DEF CtlShows, Controls
<1> QED
  BY <1>1

LEMMA CtlOf ==
  ASSUME NEW s, NEW c \in Controls
  PROVE  CtlShows(s)[<<"ctl", c>>] = s.ctl[c]
  BY DEF CtlShows

LEMMA AudioFeatures ==
  ASSUME NEW s
  PROVE  /\ DOMAIN AudioShows(s) = {<<"pcm", 0>>, <<"output", 0>>, <<"ctl", 1>>, <<"ctl", 2>>}
         /\ AudioShows(s)[<<"pcm", 0>>] = s.pcm
         /\ AudioShows(s)[<<"output", 0>>] = s.output
         /\ AudioShows(s)[<<"ctl", 1>>] = s.ctl[1]
         /\ AudioShows(s)[<<"ctl", 2>>] = s.ctl[2]
<1> DEFINE f == Only(<<"pcm", 0>>, s.pcm)
           g == Only(<<"output", 0>>, s.output)
           h == CtlShows(s)
           o == Over(f, g)
<1>1. DOMAIN f = {<<"pcm", 0>>} /\ f[<<"pcm", 0>>] = s.pcm
  BY OnlyOne
<1>2. DOMAIN g = {<<"output", 0>>} /\ g[<<"output", 0>>] = s.output
  BY OnlyOne
<1>3. DOMAIN h = {<<"ctl", 1>>, <<"ctl", 2>>}
  BY CtlDomain
<1>4. h[<<"ctl", 1>>] = s.ctl[1] /\ h[<<"ctl", 2>>] = s.ctl[2]
  BY CtlOf DEF Controls
<1>5. AudioShows(s) = Over(o, h)
  BY DEF AudioShows, CtlShows
<1> HIDE DEF f, g, h
<1>6. DOMAIN o = {<<"pcm", 0>>, <<"output", 0>>}
  <2>1. DOMAIN o = {<<"pcm", 0>>} \cup {<<"output", 0>>}
    BY <1>1, <1>2, OverDomain
  <2> QED
    BY <2>1
<1>7. o[<<"pcm", 0>>] = s.pcm
  <2>1. <<"pcm", 0>> \in DOMAIN f
    BY <1>1
  <2> QED
    BY <1>1, <2>1, OverLeft
<1>8. o[<<"output", 0>>] = s.output
  <2>1. <<"output", 0>> \in DOMAIN g /\ <<"output", 0>> \notin DOMAIN f
    BY <1>1, <1>2
  <2> QED
    BY <1>2, <2>1, OverRight
<1> HIDE DEF o
<1>9. DOMAIN Over(o, h) = {<<"pcm", 0>>, <<"output", 0>>, <<"ctl", 1>>, <<"ctl", 2>>}
  <2>1. DOMAIN Over(o, h) = DOMAIN o \cup DOMAIN h
    BY OverDomain
  <2> QED
    BY <1>3, <1>6, <2>1
<1>10. Over(o, h)[<<"pcm", 0>>] = s.pcm
  <2>1. <<"pcm", 0>> \in DOMAIN o
    BY <1>6
  <2> QED
    BY <1>7, <2>1, OverLeft
<1>11. Over(o, h)[<<"output", 0>>] = s.output
  <2>1. <<"output", 0>> \in DOMAIN o
    BY <1>6
  <2> QED
    BY <1>8, <2>1, OverLeft
<1>12. Over(o, h)[<<"ctl", 1>>] = s.ctl[1]
  <2>1. <<"ctl", 1>> \in DOMAIN h /\ <<"ctl", 1>> \notin DOMAIN o
    BY <1>3, <1>6
  <2>2. Over(o, h)[<<"ctl", 1>>] = h[<<"ctl", 1>>]
    BY <2>1, OverRight
  <2> QED
    BY <1>4, <2>2
<1>13. Over(o, h)[<<"ctl", 2>>] = s.ctl[2]
  <2>1. <<"ctl", 2>> \in DOMAIN h /\ <<"ctl", 2>> \notin DOMAIN o
    BY <1>3, <1>6
  <2>2. Over(o, h)[<<"ctl", 2>>] = h[<<"ctl", 2>>]
    BY <2>1, OverRight
  <2> QED
    BY <1>4, <2>2
<1> QED
  BY <1>5, <1>9, <1>10, <1>11, <1>12, <1>13

LEMMA AudioMoved ==
  ASSUME NEW s, NEW t
  PROVE  /\ t.output = s.output /\ t.ctl = s.ctl =>
              Moved(AudioShows(s), AudioShows(t), <<"pcm", 0>>, t.pcm)
         /\ t.pcm = s.pcm /\ t.ctl = s.ctl =>
              Moved(AudioShows(s), AudioShows(t), <<"output", 0>>, t.output)
         /\ t.pcm = s.pcm /\ t.output = s.output /\ t.ctl[2] = s.ctl[2] =>
              Moved(AudioShows(s), AudioShows(t), <<"ctl", 1>>, t.ctl[1])
         /\ t.pcm = s.pcm /\ t.output = s.output /\ t.ctl[1] = s.ctl[1] =>
              Moved(AudioShows(s), AudioShows(t), <<"ctl", 2>>, t.ctl[2])
<1> DEFINE before == AudioShows(s)
           after == AudioShows(t)
<1>1. /\ DOMAIN before = {<<"pcm", 0>>, <<"output", 0>>, <<"ctl", 1>>, <<"ctl", 2>>}
      /\ before[<<"pcm", 0>>] = s.pcm /\ before[<<"output", 0>>] = s.output
      /\ before[<<"ctl", 1>>] = s.ctl[1] /\ before[<<"ctl", 2>>] = s.ctl[2]
  BY AudioFeatures
<1>2. /\ DOMAIN after = {<<"pcm", 0>>, <<"output", 0>>, <<"ctl", 1>>, <<"ctl", 2>>}
      /\ after[<<"pcm", 0>>] = t.pcm /\ after[<<"output", 0>>] = t.output
      /\ after[<<"ctl", 1>>] = t.ctl[1] /\ after[<<"ctl", 2>>] = t.ctl[2]
  BY AudioFeatures
<1> HIDE DEF before, after
<1>3. ASSUME t.output = s.output, t.ctl = s.ctl
      PROVE  Moved(before, after, <<"pcm", 0>>, t.pcm)
  BY <1>1, <1>2, <1>3 DEF Moved
<1>4. ASSUME t.pcm = s.pcm, t.ctl = s.ctl
      PROVE  Moved(before, after, <<"output", 0>>, t.output)
  BY <1>1, <1>2, <1>4 DEF Moved
<1>5. ASSUME t.pcm = s.pcm, t.output = s.output, t.ctl[2] = s.ctl[2]
      PROVE  Moved(before, after, <<"ctl", 1>>, t.ctl[1])
  BY <1>1, <1>2, <1>5 DEF Moved
<1>6. ASSUME t.pcm = s.pcm, t.output = s.output, t.ctl[1] = s.ctl[1]
      PROVE  Moved(before, after, <<"ctl", 2>>, t.ctl[2])
  BY <1>1, <1>2, <1>6 DEF Moved
<1> QED
  BY <1>3, <1>4, <1>5, <1>6 DEF before, after

PcmOf(s, v) == [s EXCEPT !.pcm = v, !.state = "configured"]
ControlOf(s, c, v) == [s EXCEPT !.ctl[c] = v]
OutputOf(s, on) == [s EXCEPT !.output = on]

LEMMA AudioPcm ==
  ASSUME NEW s \in AudioStates, NEW v \in Rates
  PROVE  /\ PcmOf(s, v) \in AudioStates
         /\ Moved(AudioShows(s), AudioShows(PcmOf(s, v)), <<"pcm", 0>>, v)
<1>1. /\ PcmOf(s, v) \in AudioStates /\ PcmOf(s, v).pcm = v
      /\ PcmOf(s, v).output = s.output /\ PcmOf(s, v).ctl = s.ctl
  BY DEF AudioStates, PcmOf
<1> QED
  BY <1>1, AudioMoved

LEMMA AudioOutput ==
  ASSUME NEW s \in AudioStates, NEW v \in BOOLEAN
  PROVE  /\ OutputOf(s, v) \in AudioStates
         /\ Moved(AudioShows(s), AudioShows(OutputOf(s, v)), <<"output", 0>>, v)
<1>1. /\ OutputOf(s, v) \in AudioStates /\ OutputOf(s, v).output = v
      /\ OutputOf(s, v).pcm = s.pcm /\ OutputOf(s, v).ctl = s.ctl
  BY DEF AudioStates, OutputOf
<1> QED
  BY <1>1, AudioMoved

LEMMA AudioControl ==
  ASSUME NEW s \in AudioStates, NEW c \in Controls, NEW v \in Rates
  PROVE  /\ ControlOf(s, c, v) \in AudioStates
         /\ Moved(AudioShows(s), AudioShows(ControlOf(s, c, v)), <<"ctl", c>>, v)
<1> DEFINE t == ControlOf(s, c, v)
<1>1. /\ t \in AudioStates /\ t.output = s.output /\ t.pcm = s.pcm
      /\ t.ctl = [s.ctl EXCEPT ![c] = v]
  BY DEF AudioStates, ControlOf
<1>2. s.ctl \in [Controls -> Rates \cup {"none"}]
  BY DEF AudioStates
<1> HIDE DEF t
<1>3. t.ctl[c] = v /\ \A d \in Controls : d # c => t.ctl[d] = s.ctl[d]
  BY <1>1, <1>2
<1>4. CASE c = 1
  <2>1. t.ctl[2] = s.ctl[2]
    BY <1>3, <1>4 DEF Controls
  <2>2. Moved(AudioShows(s), AudioShows(t), <<"ctl", 1>>, t.ctl[1])
    BY <1>1, <2>1, AudioMoved
  <2> QED
    BY <1>1, <1>3, <1>4, <2>2 DEF t
<1>5. CASE c = 2
  <2>1. t.ctl[1] = s.ctl[1]
    BY <1>3, <1>5 DEF Controls
  <2>2. Moved(AudioShows(s), AudioShows(t), <<"ctl", 2>>, t.ctl[2])
    BY <1>1, <2>1, AudioMoved
  <2> QED
    BY <1>1, <1>3, <1>5, <2>2 DEF t
<1> QED
  BY <1>4, <1>5 DEF Controls

LEMMA AudioHandled ==
  ASSUME NEW s \in AudioStates, NEW r \in AudioRequests, NEW h \in AudioHandle(s, r)
  PROVE  /\ h[1] \in AudioStates
         /\ Ended(AudioShows(s), AudioShows(h[1]), AudioSettings(r), {}, h[2])
<1>1. ASSUME NEW x \in Answers, x # Ok, h = <<s, Reply(x)>>
      PROVE  /\ h[1] \in AudioStates
             /\ Ended(AudioShows(s), AudioShows(h[1]), AudioSettings(r), {}, h[2])
  BY <1>1, EndsRefused
<1>2. ASSUME h = <<s, Reply(Ok)>>, AudioSettings(r) = NoSettings
      PROVE  /\ h[1] \in AudioStates
             /\ Ended(AudioShows(s), AudioShows(h[1]), AudioSettings(r), {}, h[2])
  BY <1>2, EndsNothingSet
<1>3. CASE r.type = "set_pcm"
  <2>1. /\ AudioSettings(r) = Only(<<"pcm", 0>>, r.rate) /\ r.rate \in Rates \cup {"short"}
        /\ h \in SetPcm(s, r.rate)
    BY <1>3 DEF AudioSettings, AudioRequests, AudioHandle
  <2>2. CASE Removed(s) \/ r.rate = "short"
    <3>1. h = <<s, Reply(Invalid)>>
      BY <2>1, <2>2 DEF SetPcm, Unchanged
    <3> QED
      BY <1>1, <3>1, Refusals
  <2>3. CASE ~(Removed(s) \/ r.rate = "short")
    <3>1. h = <<s, Reply(Unknown)>> \/ h = <<PcmOf(s, r.rate), Reply(Ok)>>
      BY <2>1, <2>3 DEF SetPcm, Configured, PcmOf
    <3>2. CASE h = <<PcmOf(s, r.rate), Reply(Ok)>>
      <4>1. r.rate \in Rates
        BY <2>1, <2>3
      <4> QED
        BY <2>1, <3>2, <4>1, AudioPcm, EndsDone
    <3> QED
      BY <1>1, <3>1, <3>2, Refusals
  <2> QED
    BY <2>2, <2>3
<1>4. CASE r.type = "set_control"
  <2>1. /\ AudioSettings(r) = Only(<<"ctl", r.control>>, r.rate)
        /\ r.rate \in Rates \cup {"short"} /\ h \in SetControl(s, r.control, r.rate)
    BY <1>4 DEF AudioSettings, AudioRequests, AudioHandle
  <2>2. CASE Removed(s) \/ r.rate = "short" \/ r.control \notin Controls
    <3>1. h = <<s, Reply(Invalid)>>
      BY <2>1, <2>2 DEF SetControl, Unchanged
    <3> QED
      BY <1>1, <3>1, Refusals
  <2>3. CASE ~(Removed(s) \/ r.rate = "short" \/ r.control \notin Controls)
    <3>1. h = <<s, Reply(Unknown)>> \/ h = <<ControlOf(s, r.control, r.rate), Reply(Ok)>>
      BY <2>1, <2>3 DEF SetControl, Configured, ControlOf
    <3>2. CASE h = <<ControlOf(s, r.control, r.rate), Reply(Ok)>>
      <4>1. r.rate \in Rates /\ r.control \in Controls
        BY <2>1, <2>3
      <4> QED
        BY <2>1, <3>2, <4>1, AudioControl, EndsDone
    <3> QED
      BY <1>1, <3>1, <3>2, Refusals
  <2> QED
    BY <2>2, <2>3
<1>5. CASE r.type \in {"activate_tx", "deactivate_tx"}
  <2> DEFINE on == r.type = "activate_tx"
  <2>1. AudioSettings(r) = Only(<<"output", 0>>, on) /\ h \in Output(s, on)
    BY <1>5 DEF AudioSettings, AudioHandle
  <2>2. on \in BOOLEAN
    OBVIOUS
  <2> HIDE DEF on
  <2>3. h = <<s, Reply(Invalid)>> \/ h = <<OutputOf(s, on), Reply(Ok)>>
    BY <2>1 DEF Output, Unchanged, OutputOf
  <2>4. CASE h = <<OutputOf(s, on), Reply(Ok)>>
    BY <2>1, <2>2, <2>4, AudioOutput, EndsDone
  <2> QED
    BY <1>1, <2>3, <2>4, Refusals
<1>6. CASE r.type \in {"activate_rx", "deactivate_rx"}
  <2>1. AudioSettings(r) = NoSettings
    BY <1>6 DEF AudioSettings
  <2>2. h = <<s, Reply(Ok)>> \/ h = <<s, Reply(Invalid)>>
    BY <1>6 DEF AudioHandle, Unchanged
  <2> QED
    BY <1>1, <1>2, <2>1, <2>2, Refusals
<1>7. CASE r.type = "send_data"
  <2>1. AudioSettings(r) = NoSettings /\ h \in AudioSendData(s, r.rate)
    BY <1>7 DEF AudioSettings, AudioHandle
  <2>2. h = <<s, Reply(Ok)>> \/ h = <<s, Reply(Invalid)>> \/ h = <<s, Reply(Unknown)>>
    BY <2>1 DEF AudioSendData, Unchanged, Configured
  <2> QED
    BY <1>1, <1>2, <2>1, <2>2, Refusals
<1>8. CASE r.type = "unknown"
  <2>1. h = <<s, Reply(Invalid)>>
    BY <1>8 DEF AudioHandle, Unchanged
  <2> QED
    BY <1>1, <2>1, Refusals
<1>9. CASE r.type \in {"protocol_version", "get_topology_size", "get_topology", "enable_widget",
                       "disable_widget"}
  <2>1. AudioSettings(r) = NoSettings /\ h = <<s, Reply(Ok)>>
    BY <1>9 DEF AudioSettings, AudioHandle, Unchanged
  <2> QED
    BY <1>2, <2>1
<1> QED
  BY <1>3, <1>4, <1>5, <1>6, <1>7, <1>8, <1>9 DEF AudioRequests

-----------------------------------------------------------------------------
(* PWM                                                                     *)

PwmFeatures == {"duty", "inverted", "out"} \X Channels

LEMMA PwmDomain ==
  ASSUME NEW s
  PROVE  DOMAIN PwmShows(s) = PwmFeatures
  BY DEF PwmShows, PwmFeatures

LEMMA PwmShowsDuty ==
  ASSUME NEW s, NEW c \in Channels
  PROVE  PwmShows(s)[<<"duty", c>>] = s.data[c].duty
  BY DEF PwmShows

LEMMA PwmShowsInverted ==
  ASSUME NEW s, NEW c \in Channels
  PROVE  PwmShows(s)[<<"inverted", c>>] = s.data[c].inverted
  BY DEF PwmShows

LEMMA PwmShowsOut ==
  ASSUME NEW s, NEW c \in Channels
  PROVE  PwmShows(s)[<<"out", c>>] = s.out[c]
  BY DEF PwmShows

LEMMA PwmFeature ==
  ASSUME NEW f \in PwmFeatures
  PROVE  \E c \in Channels : f = <<"duty", c>> \/ f = <<"inverted", c>> \/ f = <<"out", c>>
  BY DEF PwmFeatures

\* Two devices whose channels other than c are alike.
Elsewhere(s, t, c) ==
  \A d \in Channels : d # c => t.data[d] = s.data[d] /\ t.out[d] = s.out[d]

LEMMA PwmElsewhere ==
  ASSUME NEW s, NEW t, NEW c \in Channels, Elsewhere(s, t, c),
         NEW f \in PwmFeatures, f \notin {<<"duty", c>>, <<"inverted", c>>, <<"out", c>>}
  PROVE  PwmShows(t)[f] = PwmShows(s)[f]
<1>1. PICK d \in Channels : f = <<"duty", d>> \/ f = <<"inverted", d>> \/ f = <<"out", d>>
  BY PwmFeature
<1>2. d # c
  BY <1>1
<1>3. t.data[d] = s.data[d] /\ t.out[d] = s.out[d]
  BY <1>2 DEF Elsewhere
<1>4. CASE f = <<"duty", d>>
  <2>1. PwmShows(t)[f] = t.data[d].duty /\ PwmShows(s)[f] = s.data[d].duty
    BY <1>4, PwmShowsDuty
  <2> QED
    BY <1>3, <2>1
<1>5. CASE f = <<"inverted", d>>
  <2>1. PwmShows(t)[f] = t.data[d].inverted /\ PwmShows(s)[f] = s.data[d].inverted
    BY <1>5, PwmShowsInverted
  <2> QED
    BY <1>3, <2>1
<1>6. CASE f = <<"out", d>>
  <2>1. PwmShows(t)[f] = t.out[d] /\ PwmShows(s)[f] = s.out[d]
    BY <1>6, PwmShowsOut
  <2> QED
    BY <1>3, <2>1
<1> QED
  BY <1>1, <1>4, <1>5, <1>6

LEMMA PwmMoved ==
  ASSUME NEW s, NEW t, NEW c \in Channels, Elsewhere(s, t, c)
  PROVE  /\ t.data[c].inverted = s.data[c].inverted /\ t.out[c] = s.out[c] =>
              Moved(PwmShows(s), PwmShows(t), <<"duty", c>>, t.data[c].duty)
         /\ t.data[c].duty = s.data[c].duty /\ t.out[c] = s.out[c] =>
              Moved(PwmShows(s), PwmShows(t), <<"inverted", c>>, t.data[c].inverted)
         /\ t.data[c] = s.data[c] =>
              Moved(PwmShows(s), PwmShows(t), <<"out", c>>, t.out[c])
<1> DEFINE before == PwmShows(s)
           after == PwmShows(t)
<1>1. /\ DOMAIN before = PwmFeatures /\ DOMAIN after = PwmFeatures
      /\ <<"duty", c>> \in PwmFeatures /\ <<"inverted", c>> \in PwmFeatures
      /\ <<"out", c>> \in PwmFeatures
  BY PwmDomain DEF PwmFeatures
<1>2. \A f \in PwmFeatures :
        f \notin {<<"duty", c>>, <<"inverted", c>>, <<"out", c>>} => after[f] = before[f]
  BY PwmElsewhere
<1>3. before[<<"duty", c>>] = s.data[c].duty /\ after[<<"duty", c>>] = t.data[c].duty
  BY PwmShowsDuty
<1>4. /\ before[<<"inverted", c>>] = s.data[c].inverted
      /\ after[<<"inverted", c>>] = t.data[c].inverted
  BY PwmShowsInverted
<1>5. before[<<"out", c>>] = s.out[c] /\ after[<<"out", c>>] = t.out[c]
  BY PwmShowsOut
<1> HIDE DEF before, after
<1>6. ASSUME t.data[c].inverted = s.data[c].inverted, t.out[c] = s.out[c]
      PROVE  Moved(before, after, <<"duty", c>>, t.data[c].duty)
  BY <1>1, <1>2, <1>3, <1>4, <1>5, <1>6 DEF Moved
<1>7. ASSUME t.data[c].duty = s.data[c].duty, t.out[c] = s.out[c]
      PROVE  Moved(before, after, <<"inverted", c>>, t.data[c].inverted)
  BY <1>1, <1>2, <1>3, <1>4, <1>5, <1>7 DEF Moved
<1>8. ASSUME t.data[c] = s.data[c]
      PROVE  Moved(before, after, <<"out", c>>, t.out[c])
  BY <1>1, <1>2, <1>3, <1>4, <1>5, <1>8 DEF Moved
<1> QED
  BY <1>6, <1>7, <1>8 DEF before, after

DutyOf(s, c, v) == [s EXCEPT !.data[c].duty = v]
PolarityOf(s, c, v) == [s EXCEPT !.data[c].inverted = v]
OutOf(s, c, v) == [s EXCEPT !.out[c] = v]

LEMMA PwmSettingOf ==
  ASSUME NEW v \in PwmSettingsOf
  PROVE  v = Setting(v.duty, v.inverted)
  BY DEF PwmSettingsOf, Setting

LEMMA PwmDuty ==
  ASSUME NEW s \in PwmStates, NEW c \in Channels, NEW v \in Duties
  PROVE  /\ DutyOf(s, c, v) \in PwmStates
         /\ Moved(PwmShows(s), PwmShows(DutyOf(s, c, v)), <<"duty", c>>, v)
<1> DEFINE t == DutyOf(s, c, v)
<1>1. s.data \in [Channels -> PwmSettingsOf] /\ s.data[c] \in PwmSettingsOf
  BY DEF PwmStates
<1>2. [s.data[c] EXCEPT !.duty = v] \in PwmSettingsOf
  BY <1>1 DEF PwmSettingsOf
<1>3. t.out = s.out /\ t.data = [s.data EXCEPT ![c] = [s.data[c] EXCEPT !.duty = v]]
  BY DEF PwmStates, DutyOf
<1>4. t.data \in [Channels -> PwmSettingsOf]
  BY <1>1, <1>2, <1>3
<1>5. t \in PwmStates
  <2>1. t = [s EXCEPT !.data = t.data]
    BY DEF PwmStates, DutyOf
  <2> QED
    BY <1>4, <2>1 DEF PwmStates
<1> HIDE DEF t
<1>6. t.data[c].duty = v /\ t.data[c].inverted = s.data[c].inverted
  BY <1>1, <1>3 DEF PwmSettingsOf
<1>7. Elsewhere(s, t, c)
  BY <1>1, <1>3 DEF Elsewhere
<1>8. Moved(PwmShows(s), PwmShows(t), <<"duty", c>>, t.data[c].duty)
  BY <1>3, <1>6, <1>7, PwmMoved
<1> QED
  BY <1>5, <1>6, <1>8 DEF t

LEMMA PwmPolarityOf ==
  ASSUME NEW s \in PwmStates, NEW c \in Channels, NEW v \in BOOLEAN
  PROVE  /\ PolarityOf(s, c, v) \in PwmStates
         /\ Moved(PwmShows(s), PwmShows(PolarityOf(s, c, v)), <<"inverted", c>>, v)
<1> DEFINE t == PolarityOf(s, c, v)
<1>1. s.data \in [Channels -> PwmSettingsOf] /\ s.data[c] \in PwmSettingsOf
  BY DEF PwmStates
<1>2. [s.data[c] EXCEPT !.inverted = v] \in PwmSettingsOf
  BY <1>1 DEF PwmSettingsOf
<1>3. t.out = s.out /\ t.data = [s.data EXCEPT ![c] = [s.data[c] EXCEPT !.inverted = v]]
  BY DEF PwmStates, PolarityOf
<1>4. t.data \in [Channels -> PwmSettingsOf]
  BY <1>1, <1>2, <1>3
<1>5. t \in PwmStates
  <2>1. t = [s EXCEPT !.data = t.data]
    BY DEF PwmStates, PolarityOf
  <2> QED
    BY <1>4, <2>1 DEF PwmStates
<1> HIDE DEF t
<1>6. t.data[c].inverted = v /\ t.data[c].duty = s.data[c].duty
  BY <1>1, <1>3 DEF PwmSettingsOf
<1>7. Elsewhere(s, t, c)
  BY <1>1, <1>3 DEF Elsewhere
<1>8. Moved(PwmShows(s), PwmShows(t), <<"inverted", c>>, t.data[c].inverted)
  BY <1>3, <1>6, <1>7, PwmMoved
<1> QED
  BY <1>5, <1>6, <1>8 DEF t

LEMMA PwmOut ==
  ASSUME NEW s \in PwmStates, NEW c \in Channels, NEW v \in PwmSettingsOf \cup {Off}
  PROVE  /\ OutOf(s, c, v) \in PwmStates
         /\ Moved(PwmShows(s), PwmShows(OutOf(s, c, v)), <<"out", c>>, v)
<1> DEFINE t == OutOf(s, c, v)
<1>1. s.out \in [Channels -> PwmSettingsOf \cup {Off}]
  BY DEF PwmStates
<1>2. t \in PwmStates /\ t.data = s.data /\ t.out = [s.out EXCEPT ![c] = v]
  BY DEF PwmStates, OutOf
<1> HIDE DEF t
<1>3. t.out[c] = v
  BY <1>1, <1>2
<1>4. Elsewhere(s, t, c)
  BY <1>1, <1>2 DEF Elsewhere
<1>5. Moved(PwmShows(s), PwmShows(t), <<"out", c>>, t.out[c])
  BY <1>2, <1>4, PwmMoved
<1> QED
  BY <1>2, <1>3, <1>5 DEF t

\* known is what the AP has been told.
LEMMA PwmHandled ==
  ASSUME NEW s \in PwmStates, NEW r \in PwmRequests, NEW h \in PwmHandle(s, r), NEW known,
         \A f \in PwmFeatures : known[f] = PwmShows(s)[f]
  PROVE  /\ h[1] \in PwmStates
         /\ Ended(PwmShows(s), PwmShows(h[1]), PwmAsked(known, r), {}, h[2])
<1>1. ASSUME NEW x \in Answers, x # Ok, h = <<s, Reply(x)>>
      PROVE  /\ h[1] \in PwmStates
             /\ Ended(PwmShows(s), PwmShows(h[1]), PwmAsked(known, r), {}, h[2])
  BY <1>1, EndsRefused
<1>2. CASE r.type = "unknown"
  <2>1. h = <<s, Reply(ProtocolBad)>>
    BY <1>2 DEF PwmHandle, Unchanged
  <2> QED
    BY <1>1, <2>1, Refusals
<1>3. CASE r.type \in {"count", "activate", "deactivate"}
  <2>1. PwmAsked(known, r) = NoSettings /\ h = <<s, Reply(Ok)>>
    BY <1>3 DEF PwmAsked, PwmHandle, Unchanged
  <2> QED
    BY <2>1, EndsNothingSet
<1>4. CASE r.type \in {"config", "polarity", "enable", "disable"} /\ r.which \notin Channels
  <2>1. h = <<s, Reply(Invalid)>>
    BY <1>4 DEF PwmHandle, Unchanged
  <2> QED
    BY <1>1, <2>1, Refusals
<1>5. CASE r.type = "config" /\ r.which \in Channels
  <2>1. /\ PwmAsked(known, r) = Only(<<"duty", r.which>>, r.duty) /\ r.duty \in Duties
        /\ h = <<DutyOf(s, r.which, r.duty), Reply(Ok)>>
    BY <1>5 DEF PwmAsked, PwmHandle, PwmRequests, DutyOf
  <2> QED
    BY <1>5, <2>1, PwmDuty, EndsDone
<1>6. CASE r.type = "polarity" /\ r.which \in Channels
  <2>1. PwmAsked(known, r) = Only(<<"inverted", r.which>>, r.inverted)
    BY <1>6 DEF PwmAsked
  <2>2. r.inverted \in BOOLEAN
    BY <1>6 DEF PwmRequests
  <2>3. h = <<PolarityOf(s, r.which, r.inverted), Reply(Ok)>>
    BY <1>6 DEF PwmHandle, PwmPolarity, PolarityOf
  <2> QED
    BY <1>6, <2>1, <2>2, <2>3, PwmPolarityOf, EndsDone
<1>7. CASE r.type = "enable" /\ r.which \in Channels
  <2> DEFINE c == r.which
  <2>1. PwmAsked(known, r) =
          Only(<<"out", c>>, Setting(known[<<"duty", c>>], known[<<"inverted", c>>]))
    BY <1>7 DEF PwmAsked
  <2>2. <<"duty", c>> \in PwmFeatures /\ <<"inverted", c>> \in PwmFeatures
    BY <1>7 DEF PwmFeatures
  <2>3. known[<<"duty", c>>] = s.data[c].duty /\ known[<<"inverted", c>>] = s.data[c].inverted
    BY <1>7, <2>2, PwmShowsDuty, PwmShowsInverted
  <2>4. s.data[c] \in PwmSettingsOf
    BY <1>7 DEF PwmStates
  <2>5. PwmAsked(known, r) = Only(<<"out", c>>, s.data[c])
    BY <2>1, <2>3, <2>4, PwmSettingOf
  <2>6. h = <<s, Reply(Failure)>> \/ h = <<OutOf(s, c, s.data[c]), Reply(Ok)>>
    BY <1>7 DEF PwmHandle, PwmEnable, Configured, OutOf
  <2>7. CASE h = <<OutOf(s, c, s.data[c]), Reply(Ok)>>
    BY <1>7, <2>4, <2>5, <2>7, PwmOut, EndsDone
  <2> QED
    BY <1>1, <2>6, <2>7, Refusals
<1>8. CASE r.type = "disable" /\ r.which \in Channels
  <2>1. PwmAsked(known, r) = Only(<<"out", r.which>>, Off)
    BY <1>8 DEF PwmAsked
  <2>2. h = <<s, Reply(Failure)>> \/ h = <<OutOf(s, r.which, Off), Reply(Ok)>>
    BY <1>8 DEF PwmHandle, Configured, OutOf
  <2>3. CASE h = <<OutOf(s, r.which, Off), Reply(Ok)>>
    BY <1>8, <2>1, <2>3, PwmOut, EndsDone
  <2> QED
    BY <1>1, <2>2, <2>3, Refusals
<1> QED
  BY <1>2, <1>3, <1>4, <1>5, <1>6, <1>7, <1>8 DEF PwmRequests

-----------------------------------------------------------------------------
(* Lights                                                                  *)

Colour == [rgb : Levels, level : Levels]
StripFeatures == {"rgb", "level", "strip"} \X StripChannels
StripShows(s) ==
  [f \in {"rgb", "level", "strip"} \X StripChannels |->
     CASE f[1] = "rgb" -> s.data[f[2]].rgb
       [] f[1] = "level" -> s.data[f[2]].level
       [] f[1] = "strip" -> s.strip[f[2]]]

LEMMA StripDomain ==
  ASSUME NEW s
  PROVE  DOMAIN StripShows(s) = StripFeatures
  BY DEF StripShows, StripFeatures

LEMMA StripShowsRgb ==
  ASSUME NEW s, NEW c \in StripChannels
  PROVE  StripShows(s)[<<"rgb", c>>] = s.data[c].rgb
  BY DEF StripShows

LEMMA StripShowsLevel ==
  ASSUME NEW s, NEW c \in StripChannels
  PROVE  StripShows(s)[<<"level", c>>] = s.data[c].level
  BY DEF StripShows

LEMMA StripShowsStrip ==
  ASSUME NEW s, NEW c \in StripChannels
  PROVE  StripShows(s)[<<"strip", c>>] = s.strip[c]
  BY DEF StripShows

LEMMA StripFeature ==
  ASSUME NEW f \in StripFeatures
  PROVE  \E c \in StripChannels : f = <<"rgb", c>> \/ f = <<"level", c>> \/ f = <<"strip", c>>
  BY DEF StripFeatures

LEMMA StripIsNotLed ==
  ASSUME NEW f \in StripFeatures
  PROVE  f # <<"led", 0>>
  BY DEF StripFeatures

LEMMA LightsDomain ==
  ASSUME NEW s
  PROVE  DOMAIN LightsShows(s) = {<<"led", 0>>} \cup StripFeatures
<1> DEFINE f == Only(<<"led", 0>>, s.led)
           g == StripShows(s)
<1>1. DOMAIN f = {<<"led", 0>>} /\ DOMAIN g = StripFeatures
  BY OnlyOne, StripDomain
<1>2. LightsShows(s) = Over(f, g)
  BY DEF LightsShows, StripShows
<1> HIDE DEF f, g
<1> QED
  BY <1>1, <1>2, OverDomain

LEMMA LightsShowsLed ==
  ASSUME NEW s
  PROVE  LightsShows(s)[<<"led", 0>>] = s.led
<1> DEFINE f == Only(<<"led", 0>>, s.led)
           g == StripShows(s)
<1>1. <<"led", 0>> \in DOMAIN f /\ f[<<"led", 0>>] = s.led
  BY OnlyOne
<1>2. LightsShows(s) = Over(f, g)
  BY DEF LightsShows, StripShows
<1> HIDE DEF f, g
<1>3. Over(f, g)[<<"led", 0>>] = f[<<"led", 0>>]
  BY <1>1, OverLeft
<1> QED
  BY <1>1, <1>2, <1>3

LEMMA LightsShowsStrip ==
  ASSUME NEW s, NEW f \in StripFeatures
  PROVE  LightsShows(s)[f] = StripShows(s)[f]
<1> DEFINE l == Only(<<"led", 0>>, s.led)
           g == StripShows(s)
<1>1. DOMAIN l = {<<"led", 0>>}
  BY OnlyOne
<1>2. LightsShows(s) = Over(l, g)
  BY DEF LightsShows, StripShows
<1>3. f \in DOMAIN g
  BY StripDomain
<1> HIDE DEF l, g
<1>4. f \notin DOMAIN l
  BY <1>1, StripIsNotLed
<1>5. Over(l, g)[f] = g[f]
  BY <1>3, <1>4, OverRight
<1> QED
  BY <1>2, <1>5 DEF g

\* Only led, or only what is stored and shown of a channel.
LEMMA ShownInLevels ==
  ASSUME NEW c \in Colour
  PROVE  Shown(c) \in Levels \X Levels
  BY NodeAssumption DEF Shown, Colour

LedOf(s, v) == [s EXCEPT !.led = v]
StoredOf(s, r) ==
  IF r.type = "set_color" THEN [s EXCEPT !.data[r.channel].rgb = r.value]
  ELSE [s EXCEPT !.data[r.channel].level = r.value]
ShownOf(t) == [t EXCEPT !.strip = [c \in StripChannels |-> Shown(t.data[c])]]

\* The strip shows what is stored for every channel of which the AP has been told.
Current(s, told) ==
  \A c \in StripChannels : <<"strip", c>> \in told => s.strip[c] = Shown(s.data[c])

LEMMA LightsLed ==
  ASSUME NEW s \in LightsStates, NEW v \in {"set_brightness", "set_blink"} \X Levels
  PROVE  /\ LedOf(s, v) \in LightsStates
         /\ LedOf(s, v).data = s.data /\ LedOf(s, v).strip = s.strip
         /\ Moved(LightsShows(s), LightsShows(LedOf(s, v)), <<"led", 0>>, v)
<1> DEFINE t == LedOf(s, v)
<1>1. t \in LightsStates /\ t.led = v /\ t.data = s.data /\ t.strip = s.strip
  BY DEF LightsStates, LedOf
<1> HIDE DEF t
<1>2. LightsShows(t)[<<"led", 0>>] = v
  BY <1>1, LightsShowsLed
<1>3. StripShows(t) = StripShows(s)
  BY <1>1 DEF StripShows
<1>4. \A f \in StripFeatures : LightsShows(t)[f] = LightsShows(s)[f]
  BY <1>3, LightsShowsStrip
<1>5. Moved(LightsShows(s), LightsShows(t), <<"led", 0>>, v)
  BY <1>2, <1>4, LightsDomain DEF Moved
<1> QED
  BY <1>1, <1>5 DEF t

StripRequest(r) ==
  /\ r.type \in {"set_brightness", "set_color"} /\ r.light = 1
  /\ r.channel \in StripChannels /\ r.value \in Levels

LEMMA LightsStored ==
  ASSUME NEW s \in LightsStates, NEW r, StripRequest(r)
  PROVE  LET t == StoredOf(s, r)
             c == r.channel
         IN  /\ t \in LightsStates /\ t.led = s.led /\ t.strip = s.strip
             /\ \A d \in StripChannels : d # c => t.data[d] = s.data[d]
             /\ t.data[c] = IF r.type = "set_color" THEN [s.data[c] EXCEPT !.rgb = r.value]
                            ELSE [s.data[c] EXCEPT !.level = r.value]
             /\ s.data[c] \in Colour /\ \A d \in StripChannels : t.data[d] \in Colour
<1> DEFINE t == StoredOf(s, r)
           c == r.channel
           n == IF r.type = "set_color" THEN [s.data[c] EXCEPT !.rgb = r.value]
                ELSE [s.data[c] EXCEPT !.level = r.value]
<1>1. s.data \in [StripChannels -> Colour] /\ c \in StripChannels /\ s.data[c] \in Colour
  BY DEF LightsStates, Colour, StripRequest
<1>2. n \in Colour
  BY <1>1 DEF Colour, StripRequest
<1>3. t.led = s.led /\ t.strip = s.strip /\ t.data = [s.data EXCEPT ![c] = n]
  BY DEF LightsStates, StoredOf
<1>4. t = [s EXCEPT !.data = t.data]
  BY DEF LightsStates, StoredOf
<1> HIDE DEF t, n
<1>5. t.data \in [StripChannels -> Colour] /\ t.data[c] = n
  BY <1>1, <1>2, <1>3
<1>6. \A d \in StripChannels : d # c => t.data[d] = s.data[d]
  BY <1>1, <1>3
<1>7. t \in LightsStates
  BY <1>4, <1>5 DEF LightsStates, Colour
<1> QED
  BY <1>1, <1>3, <1>5, <1>6, <1>7 DEF t, n

LEMMA LightsShownOf ==
  ASSUME NEW t \in LightsStates
  PROVE  /\ ShownOf(t) \in LightsStates /\ ShownOf(t).led = t.led /\ ShownOf(t).data = t.data
         /\ \A c \in StripChannels : ShownOf(t).strip[c] = Shown(t.data[c])
<1> DEFINE u == [c \in StripChannels |-> Shown(t.data[c])]
<1>1. \A c \in StripChannels : t.data[c] \in Colour
  BY DEF LightsStates, Colour
<1>2. u \in [StripChannels -> Levels \X Levels]
  BY <1>1, ShownInLevels
<1>3. ShownOf(t) = [t EXCEPT !.strip = u]
  BY DEF ShownOf
<1> HIDE DEF u
<1>4. /\ ShownOf(t) \in LightsStates /\ ShownOf(t).led = t.led /\ ShownOf(t).data = t.data
      /\ ShownOf(t).strip = u
  BY <1>2, <1>3 DEF LightsStates
<1> QED
  BY <1>4 DEF u

LEMMA StripFeaturesOf ==
  ASSUME NEW r, StripRequest(r)
  PROVE  /\ SetFeature(r) \in StripFeatures /\ OtherFeature(r) \in StripFeatures
         /\ <<"strip", r.channel>> \in StripFeatures
         /\ SetFeature(r) # <<"strip", r.channel>>
         /\ LightsDisturbs(r) = {<<"strip", r.channel>>, SetFeature(r)}
<1>1. CASE r.type = "set_color"
  BY <1>1 DEF StripRequest, SetFeature, OtherFeature, StripFeatures, LightsDisturbs
<1>2. CASE r.type = "set_brightness"
  BY <1>2 DEF StripRequest, SetFeature, OtherFeature, StripFeatures, LightsDisturbs
<1> QED
  BY <1>1, <1>2 DEF StripRequest

LEMMA StoredShows ==
  ASSUME NEW s \in LightsStates, NEW r, StripRequest(r)
  PROVE  /\ StripShows(StoredOf(s, r))[SetFeature(r)] = r.value
         /\ \A f \in StripFeatures :
              f # SetFeature(r) => StripShows(StoredOf(s, r))[f] = StripShows(s)[f]
<1> DEFINE t == StoredOf(s, r)
           c == r.channel
<1>1. /\ t.strip = s.strip /\ \A d \in StripChannels : d # c => t.data[d] = s.data[d]
      /\ t.data[c] = IF r.type = "set_color" THEN [s.data[c] EXCEPT !.rgb = r.value]
                     ELSE [s.data[c] EXCEPT !.level = r.value]
      /\ s.data[c] \in Colour
  BY LightsStored
<1>2. c \in StripChannels
  BY DEF StripRequest
<1> HIDE DEF t
<1>3. CASE r.type = "set_color"
  <2>1. t.data[c].rgb = r.value /\ t.data[c].level = s.data[c].level
    BY <1>1, <1>3 DEF Colour
  <2>2. SetFeature(r) = <<"rgb", c>>
    BY <1>3 DEF SetFeature
  <2>3. StripShows(t)[<<"rgb", c>>] = r.value
    BY <1>2, <2>1, StripShowsRgb
  <2>4. ASSUME NEW f \in StripFeatures, f # <<"rgb", c>>
        PROVE  StripShows(t)[f] = StripShows(s)[f]
    <3>1. PICK d \in StripChannels : f = <<"rgb", d>> \/ f = <<"level", d>> \/ f = <<"strip", d>>
      BY StripFeature
    <3>2. CASE f = <<"rgb", d>>
      <4>1. d # c
        BY <2>4, <3>2
      <4>2. StripShows(t)[f] = t.data[d].rgb /\ StripShows(s)[f] = s.data[d].rgb
        BY <3>2, StripShowsRgb
      <4> QED
        BY <1>1, <4>1, <4>2
    <3>3. CASE f = <<"level", d>>
      <4>1. StripShows(t)[f] = t.data[d].level /\ StripShows(s)[f] = s.data[d].level
        BY <3>3, StripShowsLevel
      <4>2. t.data[d].level = s.data[d].level
        BY <1>1, <2>1
      <4> QED
        BY <4>1, <4>2
    <3>4. CASE f = <<"strip", d>>
      <4>1. StripShows(t)[f] = t.strip[d] /\ StripShows(s)[f] = s.strip[d]
        BY <3>4, StripShowsStrip
      <4> QED
        BY <1>1, <4>1
    <3> QED
      BY <3>1, <3>2, <3>3, <3>4
  <2> QED
    BY <2>2, <2>3, <2>4 DEF t
<1>4. CASE r.type = "set_brightness"
  <2>1. t.data[c].level = r.value /\ t.data[c].rgb = s.data[c].rgb
    BY <1>1, <1>4 DEF Colour
  <2>2. SetFeature(r) = <<"level", c>>
    BY <1>4 DEF SetFeature
  <2>3. StripShows(t)[<<"level", c>>] = r.value
    BY <1>2, <2>1, StripShowsLevel
  <2>4. ASSUME NEW f \in StripFeatures, f # <<"level", c>>
        PROVE  StripShows(t)[f] = StripShows(s)[f]
    <3>1. PICK d \in StripChannels : f = <<"rgb", d>> \/ f = <<"level", d>> \/ f = <<"strip", d>>
      BY StripFeature
    <3>2. CASE f = <<"level", d>>
      <4>1. d # c
        BY <2>4, <3>2
      <4>2. StripShows(t)[f] = t.data[d].level /\ StripShows(s)[f] = s.data[d].level
        BY <3>2, StripShowsLevel
      <4> QED
        BY <1>1, <4>1, <4>2
    <3>3. CASE f = <<"rgb", d>>
      <4>1. StripShows(t)[f] = t.data[d].rgb /\ StripShows(s)[f] = s.data[d].rgb
        BY <3>3, StripShowsRgb
      <4>2. t.data[d].rgb = s.data[d].rgb
        BY <1>1, <2>1
      <4> QED
        BY <4>1, <4>2
    <3>4. CASE f = <<"strip", d>>
      <4>1. StripShows(t)[f] = t.strip[d] /\ StripShows(s)[f] = s.strip[d]
        BY <3>4, StripShowsStrip
      <4> QED
        BY <1>1, <4>1
    <3> QED
      BY <3>1, <3>2, <3>3, <3>4
  <2> QED
    BY <2>2, <2>3, <2>4 DEF t
<1> QED
  BY <1>3, <1>4 DEF StripRequest

\* What is to be shown with the other half that the AP knows of is what is stored.
LEMMA ShownWithStored ==
  ASSUME NEW s \in LightsStates, NEW r, StripRequest(r)
  PROVE  ShownWith(r, StripShows(s)[OtherFeature(r)]) = Shown(StoredOf(s, r).data[r.channel])
<1> DEFINE d == StoredOf(s, r).data[r.channel]
<1>1. /\ d = IF r.type = "set_color" THEN [s.data[r.channel] EXCEPT !.rgb = r.value]
              ELSE [s.data[r.channel] EXCEPT !.level = r.value]
      /\ s.data[r.channel] \in Colour /\ r.channel \in StripChannels
  BY LightsStored DEF StripRequest
<1> HIDE DEF d
<1>2. CASE r.type = "set_color"
  <2>1. StripShows(s)[OtherFeature(r)] = s.data[r.channel].level
    BY <1>1, <1>2, StripShowsLevel DEF OtherFeature
  <2>2. d = [rgb |-> r.value, level |-> s.data[r.channel].level]
    BY <1>1, <1>2 DEF Colour
  <2> QED
    BY <1>2, <2>1, <2>2 DEF ShownWith, d
<1>3. CASE r.type = "set_brightness"
  <2>1. StripShows(s)[OtherFeature(r)] = s.data[r.channel].rgb
    BY <1>1, <1>3, StripShowsRgb DEF OtherFeature
  <2>2. d = [rgb |-> s.data[r.channel].rgb, level |-> r.value]
    BY <1>1, <1>3 DEF Colour
  <2> QED
    BY <1>3, <2>1, <2>2 DEF ShownWith, d
<1> QED
  BY <1>2, <1>3 DEF StripRequest

\* What a request of the strip is to set.
LEMMA StripSet ==
  ASSUME NEW s \in LightsStates, NEW r, StripRequest(r), NEW known,
         \A f \in DOMAIN known : known[f] = LightsShows(s)[f]
  PROVE  /\ DOMAIN LightsAsked(known, r) \subseteq {SetFeature(r), <<"strip", r.channel>>}
         /\ SetFeature(r) \in DOMAIN LightsAsked(known, r)
         /\ LightsAsked(known, r)[SetFeature(r)] = r.value
         /\ <<"strip", r.channel>> \in DOMAIN LightsAsked(known, r) =>
              LightsAsked(known, r)[<<"strip", r.channel>>] = Shown(StoredOf(s, r).data[r.channel])
<1> DEFINE f == SetFeature(r)
           g == <<"strip", r.channel>>
           w == ShownWith(r, known[OtherFeature(r)])
           x == Only(f, r.value)
           y == IF OtherFeature(r) \notin DOMAIN known THEN NoSettings ELSE Only(g, w)
<1>1. LightsAsked(known, r) = Over(x, y)
  BY DEF StripRequest, LightsAsked
<1>2. DOMAIN x = {f} /\ x[f] = r.value
  BY OnlyOne
<1>3. f # g
  BY StripFeaturesOf
<1>4. \/ DOMAIN y = {}
      \/ DOMAIN y = {g} /\ y[g] = w /\ OtherFeature(r) \in DOMAIN known
  <2>1. DOMAIN NoSettings = {}
    BY DEF NoSettings
  <2>2. DOMAIN Only(g, w) = {g} /\ Only(g, w)[g] = w
    BY OnlyOne
  <2> QED
    BY <2>1, <2>2
<1>5. OtherFeature(r) \in DOMAIN known => w = Shown(StoredOf(s, r).data[r.channel])
  <2> SUFFICES ASSUME OtherFeature(r) \in DOMAIN known
               PROVE  w = Shown(StoredOf(s, r).data[r.channel])
    OBVIOUS
  <2>1. known[OtherFeature(r)] = LightsShows(s)[OtherFeature(r)]
    OBVIOUS
  <2>2. LightsShows(s)[OtherFeature(r)] = StripShows(s)[OtherFeature(r)]
    BY StripFeaturesOf, LightsShowsStrip
  <2> QED
    BY <2>1, <2>2, ShownWithStored
<1> HIDE DEF x, y, w, f, g
<1>6. DOMAIN Over(x, y) = DOMAIN x \cup DOMAIN y
  BY OverDomain
<1>7. Over(x, y)[f] = r.value
  <2>1. f \in DOMAIN x
    BY <1>2
  <2> QED
    BY <1>2, <2>1, OverLeft
<1>8. g \in DOMAIN y => Over(x, y)[g] = w /\ OtherFeature(r) \in DOMAIN known
  <2> SUFFICES ASSUME g \in DOMAIN y
               PROVE  Over(x, y)[g] = w /\ OtherFeature(r) \in DOMAIN known
    OBVIOUS
  <2>1. g \notin DOMAIN x
    BY <1>2, <1>3
  <2>2. Over(x, y)[g] = y[g]
    BY <2>1, OverRight
  <2> QED
    BY <1>4, <2>2
<1>9. /\ DOMAIN Over(x, y) \subseteq {f, g} /\ f \in DOMAIN Over(x, y)
      /\ g \in DOMAIN Over(x, y) => g \in DOMAIN y
  BY <1>2, <1>3, <1>4, <1>6
<1>10. g \in DOMAIN Over(x, y) => Over(x, y)[g] = Shown(StoredOf(s, r).data[r.channel])
  BY <1>5, <1>8, <1>9
<1> QED
  BY <1>1, <1>7, <1>9, <1>10 DEF f, g

\* Stored and not shown: the device has failed.
LEMMA StripFailed ==
  ASSUME NEW s \in LightsStates, NEW r, StripRequest(r), NEW told, NEW set, NEW x, x # Ok,
         told \subseteq DOMAIN LightsShows(s), Current(s, told)
  PROVE  /\ Follows(LightsShows(s), LightsShows(StoredOf(s, r)), told, set, LightsDisturbs(r),
                    Reply(x))
         /\ Current(StoredOf(s, r), told \ LightsDisturbs(r))
<1> DEFINE t == StoredOf(s, r)
<1>1. /\ t.led = s.led /\ t.strip = s.strip
      /\ \A d \in StripChannels : d # r.channel => t.data[d] = s.data[d]
  BY LightsStored
<1>2. \A f \in StripFeatures : f # SetFeature(r) => StripShows(t)[f] = StripShows(s)[f]
  BY StoredShows
<1>3. LightsDisturbs(r) = {<<"strip", r.channel>>, SetFeature(r)}
  BY StripFeaturesOf
<1> HIDE DEF t
<1>4. \A f \in StripFeatures : f \notin LightsDisturbs(r) => LightsShows(t)[f] = LightsShows(s)[f]
  BY <1>2, <1>3, LightsShowsStrip
<1>5. LightsShows(t)[<<"led", 0>>] = LightsShows(s)[<<"led", 0>>]
  BY <1>1, LightsShowsLed
<1>6. \A f \in told : f \in LightsDisturbs(r) \/ LightsShows(t)[f] = LightsShows(s)[f]
  BY <1>4, <1>5, LightsDomain
<1>7. DOMAIN LightsShows(t) = DOMAIN LightsShows(s)
  BY LightsDomain
<1>8. Reply(x).answers # <<Ok>>
  BY Replies, ToldOk
<1>9. Follows(LightsShows(s), LightsShows(t), told, set, LightsDisturbs(r), Reply(x))
  BY <1>6, <1>7, <1>8 DEF Follows
<1>10. Current(t, told \ LightsDisturbs(r))
  <2> SUFFICES ASSUME NEW c \in StripChannels, <<"strip", c>> \in told \ LightsDisturbs(r)
               PROVE  t.strip[c] = Shown(t.data[c])
    BY DEF Current
  <2>1. c # r.channel
    BY <1>3
  <2>2. s.strip[c] = Shown(s.data[c])
    BY DEF Current
  <2> QED
    BY <1>1, <2>1, <2>2
<1> QED
  BY <1>9, <1>10 DEF t

\* Stored, and everything that is stored shown.
LEMMA StripUpdated ==
  ASSUME NEW s \in LightsStates, NEW r, StripRequest(r), NEW known,
         DOMAIN known \subseteq DOMAIN LightsShows(s),
         \A f \in DOMAIN known : known[f] = LightsShows(s)[f], Current(s, DOMAIN known)
  PROVE  /\ Follows(LightsShows(s), LightsShows(ShownOf(StoredOf(s, r))), DOMAIN known,
                    LightsAsked(known, r), LightsDisturbs(r), Reply(Ok))
         /\ \A c \in StripChannels :
              ShownOf(StoredOf(s, r)).strip[c] = Shown(ShownOf(StoredOf(s, r)).data[c])
<1> DEFINE t == StoredOf(s, r)
           u == ShownOf(t)
           set == LightsAsked(known, r)
           f0 == SetFeature(r)
           g0 == <<"strip", r.channel>>
<1>1. /\ t \in LightsStates /\ t.led = s.led
      /\ \A d \in StripChannels : d # r.channel => t.data[d] = s.data[d]
  BY LightsStored, ZenonT(60)
<1>2. /\ u.led = t.led /\ u.data = t.data
      /\ \A c \in StripChannels : u.strip[c] = Shown(t.data[c])
  BY <1>1, LightsShownOf
<1>3. StripShows(t)[f0] = r.value
  BY StoredShows
<1>4. \A f \in StripFeatures : f # f0 => StripShows(t)[f] = StripShows(s)[f]
  BY StoredShows
<1>5. /\ f0 \in StripFeatures /\ g0 \in StripFeatures /\ f0 # g0
      /\ LightsDisturbs(r) = {g0, f0}
  BY StripFeaturesOf
<1>6. /\ DOMAIN set \subseteq {f0, g0} /\ set[f0] = r.value
      /\ g0 \in DOMAIN set => set[g0] = Shown(t.data[r.channel])
  BY StripSet
<1>7. r.channel \in StripChannels
  BY DEF StripRequest
<1> HIDE DEF t, u, set
<1>8. ASSUME NEW f \in StripFeatures, f \notin {g0, f0}, f \in DOMAIN known
      PROVE  StripShows(u)[f] = StripShows(s)[f]
  <2>1. PICK c \in StripChannels : f = <<"rgb", c>> \/ f = <<"level", c>> \/ f = <<"strip", c>>
    BY StripFeature
  <2>2. StripShows(t)[f] = StripShows(s)[f]
    BY <1>4, <1>8
  <2>3. CASE f = <<"rgb", c>>
    <3>1. StripShows(u)[f] = u.data[c].rgb /\ StripShows(t)[f] = t.data[c].rgb
      BY <2>3, StripShowsRgb
    <3> QED
      BY <1>2, <2>2, <3>1
  <2>4. CASE f = <<"level", c>>
    <3>1. StripShows(u)[f] = u.data[c].level /\ StripShows(t)[f] = t.data[c].level
      BY <2>4, StripShowsLevel
    <3> QED
      BY <1>2, <2>2, <3>1
  <2>5. CASE f = <<"strip", c>>
    <3>1. StripShows(u)[f] = u.strip[c] /\ StripShows(s)[f] = s.strip[c]
      BY <2>5, StripShowsStrip
    <3>2. c # r.channel
      BY <1>8, <2>5
    <3>3. s.strip[c] = Shown(s.data[c])
      BY <1>8, <2>5 DEF Current
    <3>4. u.strip[c] = Shown(s.data[c])
      BY <1>1, <1>2, <3>2
    <3> QED
      BY <3>1, <3>3, <3>4
  <2> QED
    BY <2>1, <2>3, <2>4, <2>5
<1>9. StripShows(u)[f0] = r.value
  <2>1. PICK c \in StripChannels : f0 = <<"rgb", c>> \/ f0 = <<"level", c>>
    BY <1>7 DEF SetFeature
  <2>2. CASE f0 = <<"rgb", c>>
    <3>1. StripShows(u)[f0] = u.data[c].rgb /\ StripShows(t)[f0] = t.data[c].rgb
      BY <2>2, StripShowsRgb
    <3> QED
      BY <1>2, <1>3, <3>1
  <2>3. CASE f0 = <<"level", c>>
    <3>1. StripShows(u)[f0] = u.data[c].level /\ StripShows(t)[f0] = t.data[c].level
      BY <2>3, StripShowsLevel
    <3> QED
      BY <1>2, <1>3, <3>1
  <2> QED
    BY <2>1, <2>2, <2>3
<1>10. StripShows(u)[g0] = Shown(t.data[r.channel])
  <2>1. StripShows(u)[g0] = u.strip[r.channel]
    BY <1>7, StripShowsStrip
  <2> QED
    BY <1>2, <1>7, <2>1
<1> HIDE DEF f0, g0
<1>11. LightsShows(u)[<<"led", 0>>] = LightsShows(s)[<<"led", 0>>]
  BY <1>1, <1>2, LightsShowsLed
<1>12. \A f \in DOMAIN known : f \in LightsDisturbs(r) \/ LightsShows(u)[f] = LightsShows(s)[f]
  BY <1>5, <1>8, <1>11, LightsDomain, LightsShowsStrip
<1>13. LightsShows(u)[f0] = r.value /\ LightsShows(u)[g0] = Shown(t.data[r.channel])
  BY <1>5, <1>9, <1>10, LightsShowsStrip
<1>14. \A f \in DOMAIN set : f \in DOMAIN LightsShows(s) /\ LightsShows(u)[f] = set[f]
  BY <1>5, <1>6, <1>13, LightsDomain
<1>15. DOMAIN LightsShows(u) = DOMAIN LightsShows(s)
  BY LightsDomain
<1>16. Follows(LightsShows(s), LightsShows(u), DOMAIN known, set, LightsDisturbs(r), Reply(Ok))
  BY <1>12, <1>14, <1>15 DEF Follows
<1> QED
  BY <1>2, <1>16 DEF t, u, set

\* known is what the AP has been told.
LEMMA LightsHandled ==
  ASSUME NEW s \in LightsStates, NEW r \in LightsRequests, NEW h \in LightsHandle(s, r),
         NEW known, DOMAIN known \subseteq DOMAIN LightsShows(s),
         \A f \in DOMAIN known : known[f] = LightsShows(s)[f], Current(s, DOMAIN known)
  PROVE  /\ h[1] \in LightsStates /\ Answered(h[2])
         /\ Follows(LightsShows(s), LightsShows(h[1]), DOMAIN known, LightsAsked(known, r),
                    LightsDisturbs(r), h[2])
         /\ Current(h[1], DOMAIN known \ LightsDisturbs(r))
         /\ h[2].answers = <<Ok>> => Current(h[1], DOMAIN LightsAsked(known, r))
<1> DEFINE Good(t, o) ==
             /\ t \in LightsStates /\ Answered(o)
             /\ Follows(LightsShows(s), LightsShows(t), DOMAIN known, LightsAsked(known, r),
                        LightsDisturbs(r), o)
             /\ Current(t, DOMAIN known \ LightsDisturbs(r))
             /\ o.answers = <<Ok>> => Current(t, DOMAIN LightsAsked(known, r))
<1>1. Current(s, DOMAIN known \ LightsDisturbs(r))
  BY DEF Current
<1>2. ASSUME NEW x \in Answers, x # Ok
      PROVE  Good(s, Reply(x))
  <2>1. Ended(LightsShows(s), LightsShows(s), LightsAsked(known, r), LightsDisturbs(r), Reply(x))
    BY <1>2, EndsRefused
  <2>2. /\ Answered(Reply(x))
        /\ Follows(LightsShows(s), LightsShows(s), DOMAIN known, LightsAsked(known, r),
                   LightsDisturbs(r), Reply(x))
    BY <2>1, EndedFollows
  <2>3. Reply(x).answers # <<Ok>>
    BY <1>2, Replies, ToldOk
  <2> QED
    BY <1>1, <2>2, <2>3
<1>3. ASSUME r.type \notin {"set_brightness", "set_blink", "set_color"}
      PROVE  Good(s, Reply(Ok))
  <2>1. LightsAsked(known, r) = NoSettings /\ DOMAIN NoSettings = {}
    BY <1>3 DEF LightsAsked, NoSettings
  <2>2. Ended(LightsShows(s), LightsShows(s), LightsAsked(known, r), LightsDisturbs(r), Reply(Ok))
    BY <2>1, EndsNothingSet
  <2>3. /\ Answered(Reply(Ok))
        /\ Follows(LightsShows(s), LightsShows(s), DOMAIN known, LightsAsked(known, r),
                   LightsDisturbs(r), Reply(Ok))
    BY <2>2, EndedFollows
  <2>4. Current(s, DOMAIN LightsAsked(known, r))
    BY <2>1 DEF Current
  <2> QED
    BY <1>1, <2>3, <2>4
<1>4. ASSUME r.type \in {"set_brightness", "set_blink"}, r.light = 0, r.value \in Levels
      PROVE  Good(LedOf(s, <<r.type, r.value>>), Reply(Ok))
  <2> DEFINE v == <<r.type, r.value>>
             t == LedOf(s, v)
  <2>1. v \in {"set_brightness", "set_blink"} \X Levels
    BY <1>4
  <2>2. LightsAsked(known, r) = Only(<<"led", 0>>, v)
    BY <1>4 DEF LightsAsked
  <2> HIDE DEF v
  <2>3. /\ t \in LightsStates /\ t.data = s.data /\ t.strip = s.strip
        /\ Moved(LightsShows(s), LightsShows(t), <<"led", 0>>, v)
    BY <2>1, LightsLed
  <2> HIDE DEF t
  <2>4. Ended(LightsShows(s), LightsShows(t), LightsAsked(known, r), LightsDisturbs(r), Reply(Ok))
    BY <2>2, <2>3, EndsDone
  <2>5. /\ Answered(Reply(Ok))
        /\ Follows(LightsShows(s), LightsShows(t), DOMAIN known, LightsAsked(known, r),
                   LightsDisturbs(r), Reply(Ok))
    BY <2>4, EndedFollows
  <2>6. Current(t, DOMAIN known \ LightsDisturbs(r))
    BY <1>1, <2>3 DEF Current
  <2>7. Current(t, DOMAIN LightsAsked(known, r))
    <3>1. DOMAIN LightsAsked(known, r) = {<<"led", 0>>}
      BY <2>2, OnlyOne
    <3> QED
      BY <3>1 DEF Current
  <2> QED
    BY <2>3, <2>5, <2>6, <2>7 DEF t, v
<1>5. ASSUME StripRequest(r)
      PROVE  /\ Good(StoredOf(s, r), Reply(Failure))
             /\ Good(ShownOf(StoredOf(s, r)), Reply(Ok))
  <2>1. StoredOf(s, r) \in LightsStates
    BY <1>5, LightsStored
  <2>2. ShownOf(StoredOf(s, r)) \in LightsStates
    BY <2>1, LightsShownOf
  <2>3. /\ Failure # Ok /\ Answered(Reply(Failure)) /\ Answered(Reply(Ok))
        /\ Reply(Failure).answers # <<Ok>>
    BY Refusals, Replies, ToldOk DEF Answered
  <2>4. /\ Follows(LightsShows(s), LightsShows(StoredOf(s, r)), DOMAIN known,
                   LightsAsked(known, r), LightsDisturbs(r), Reply(Failure))
        /\ Current(StoredOf(s, r), DOMAIN known \ LightsDisturbs(r))
    BY <1>5, <2>3, StripFailed
  <2>5. /\ Follows(LightsShows(s), LightsShows(ShownOf(StoredOf(s, r))), DOMAIN known,
                   LightsAsked(known, r), LightsDisturbs(r), Reply(Ok))
        /\ \A c \in StripChannels :
             ShownOf(StoredOf(s, r)).strip[c] = Shown(ShownOf(StoredOf(s, r)).data[c])
    BY <1>5, StripUpdated
  <2>6. /\ Current(ShownOf(StoredOf(s, r)), DOMAIN known \ LightsDisturbs(r))
        /\ Current(ShownOf(StoredOf(s, r)), DOMAIN LightsAsked(known, r))
    BY <2>5 DEF Current
  <2> QED
    BY <2>1, <2>2, <2>3, <2>4, <2>5, <2>6
<1>6. CASE r.type \in {"get_lights", "get_light_config", "get_channel_config"}
  <2>1. h = <<s, Reply(Ok)>>
    BY <1>6 DEF LightsHandle, Unchanged
  <2> QED
    BY <1>3, <1>6, <2>1
<1>7. CASE r.type = "unknown"
  <2>1. h = <<s, Reply(ProtocolBad)>>
    BY <1>7 DEF LightsHandle, Unchanged
  <2> QED
    BY <1>2, <2>1, Refusals
<1>8. CASE r.type \in {"set_fade", "get_channel_flash_config", "set_flash_intensity",
                       "set_flash_strobe", "set_flash_timeout", "get_flash_fault"}
  <2>1. h = <<s, Reply(Internal)>>
    BY <1>8 DEF LightsHandle, Unchanged
  <2> QED
    BY <1>2, <2>1, Refusals
<1>9. CASE r.type \in {"set_brightness", "set_blink"} /\ r.light = 0
  <2>1. h \in Led(s, r) /\ r.value \in Levels
    BY <1>9 DEF LightsHandle, LightsRequests, SetBrightness, SetBlink
  <2>2. h = <<s, Reply(Failure)>> \/ h = <<LedOf(s, <<r.type, r.value>>), Reply(Ok)>>
    BY <2>1 DEF Led, Configured, LedOf
  <2>3. CASE h = <<s, Reply(Failure)>>
    BY <1>2, <2>3, Refusals
  <2>4. CASE h = <<LedOf(s, <<r.type, r.value>>), Reply(Ok)>>
    <3>1. Good(LedOf(s, <<r.type, r.value>>), Reply(Ok))
      BY <1>4, <1>9, <2>1
    <3> QED
      BY <2>4, <3>1
  <2> QED
    BY <2>2, <2>3, <2>4
<1>10. CASE \/ r.type = "set_color" /\ r.light = 0
            \/ r.type = "set_blink" /\ r.light = 1
  <2>1. h = <<s, Reply(Invalid)>>
    BY <1>10 DEF LightsHandle, SetColor, SetBlink, Unchanged
  <2> QED
    BY <1>2, <2>1, Refusals
<1>11. CASE r.type \in {"set_brightness", "set_color"} /\ r.light = 1
  <2>1. StripRequest(r)
    BY <1>11 DEF LightsRequests, StripRequest
  <2>2. h \in StripUpdate(StoredOf(s, r))
    BY <1>11 DEF LightsHandle, SetBrightness, SetColor, StoredOf
  <2>3. h = <<StoredOf(s, r), Reply(Failure)>> \/ h = <<ShownOf(StoredOf(s, r)), Reply(Ok)>>
    BY <2>2 DEF StripUpdate, Configured, ShownOf
  <2>4. Good(StoredOf(s, r), Reply(Failure)) /\ Good(ShownOf(StoredOf(s, r)), Reply(Ok))
    BY <1>5, <2>1
  <2> HIDE DEF Good
  <2>5. Good(h[1], h[2])
    BY <2>3, <2>4
  <2> QED
    BY <2>5 DEF Good
<1> QED
  BY <1>6, <1>7, <1>8, <1>9, <1>10, <1>11 DEF LightsRequests

-----------------------------------------------------------------------------
(* Raw                                                                     *)

\* A thread that has passed its test is at a slot, which is taken from the first
\* write on; what a slot holds, a thread that stopped there has written.
RawInv(s) ==
  /\ \A t \in Threads : s.pc[t] \in {"cb", "priv", "done"} => s.at[t] \in 1..Slots
  /\ \A t \in Threads : s.pc[t] \in {"priv", "done"} => s.cb[s.at[t]] # "NULL"
  /\ \A i \in 1..Slots : s.cb[i] # "NULL" =>
       s.cb[i] \in Threads /\ s.at[s.cb[i]] = i /\ s.pc[s.cb[i]] \in {"priv", "done"}
  /\ \A i \in 1..Slots : s.cb_priv[i] # "NULL" =>
       s.cb_priv[i] \in Threads /\ s.at[s.cb_priv[i]] = i /\ s.pc[s.cb_priv[i]] = "done"
RawOK(s) == s \in RawStates /\ RawInv(s) /\ RawCallsMatch(s)

LEMMA RawStarts == RawOK(RawInit)
<1>1. Slots \in Nat /\ "NULL" \notin Threads
  BY NodeAssumption
<1>2. RawInit \in RawStates
  BY <1>1 DEF RawInit, RawStates, Owners
<1>3. RawInv(RawInit)
  BY DEF RawInit, RawInv
<1>4. RawCallsMatch(RawInit)
  BY DEF RawInit, RawCallsMatch
<1> QED
  BY <1>2, <1>3, <1>4 DEF RawOK

\* Two threads that are in one slot stay there.
LEMMA CollidedStays ==
  ASSUME NEW s, NEW t, NEW u \in Threads, s.called = t.called,
         \A v \in Threads : v # u => t.at[v] = s.at[v] /\ t.pc[v] = s.pc[v],
         t.at[u] = s.at[u] \/ s.pc[u] = "test",
         s.pc[u] \in {"cb", "priv", "done"} => t.pc[u] \in {"priv", "done"},
         RawCallsMatch(s)
  PROVE  RawCallsMatch(t)
<1>1. CASE Collided(s)
  <2>1. PICK v, w \in Threads :
          /\ v # w /\ s.at[v] = s.at[w]
          /\ s.pc[v] \in {"priv", "done"} /\ s.pc[w] \in {"cb", "priv", "done"}
    BY <1>1 DEF Collided
  <2>2. \A x \in {v, w} : t.at[x] = s.at[x]
    BY <2>1
  <2>3. t.pc[v] \in {"priv", "done"} /\ t.pc[w] \in {"cb", "priv", "done"}
    BY <2>1
  <2> QED
    BY <2>1, <2>2, <2>3 DEF RawCallsMatch, Collided
<1>2. CASE ~Collided(s)
  BY <1>2 DEF RawCallsMatch
<1> QED
  BY <1>1, <1>2

LEMMA RawTest ==
  ASSUME NEW s, RawOK(s), NEW u \in Threads, s.pc[u] = "test"
  PROVE  RawOK(RegisterTest(s, u))
<1> DEFINE t == RegisterTest(s, u)
<1>1. Slots \in Nat /\ "NULL" \notin Threads
  BY NodeAssumption
<1>2. s \in RawStates /\ RawInv(s) /\ RawCallsMatch(s)
  BY DEF RawOK
<1>3. /\ t.cb = s.cb /\ t.cb_priv = s.cb_priv /\ t.called = s.called
      /\ \/ t.at = s.at /\ t.pc = [s.pc EXCEPT ![u] = "ENODEV"]
         \/ t.at = s.at /\ s.at[u] \in 1..Slots /\ t.pc = [s.pc EXCEPT ![u] = "cb"]
         \/ t.pc = s.pc /\ s.at[u] \in 1..Slots /\ t.at = [s.at EXCEPT ![u] = @ + 1]
      /\ t \in [cb : {t.cb}, cb_priv : {t.cb_priv}, pc : {t.pc}, at : {t.at}, called : {t.called}]
  <2>1. CASE s.at[u] > Slots
    <3>1. t = [s EXCEPT !.pc[u] = "ENODEV"]
      BY <1>1, <1>2, <2>1 DEF RegisterTest, RawStates
    <3> QED
      BY <1>2, <3>1 DEF RawStates
  <2>2. CASE s.at[u] <= Slots /\ s.cb[s.at[u]] = "NULL"
    <3>1. t = [s EXCEPT !.pc[u] = "cb"] /\ s.at[u] \in 1..Slots
      BY <1>1, <1>2, <2>2 DEF RegisterTest, RawStates
    <3> QED
      BY <1>2, <3>1 DEF RawStates
  <2>3. CASE s.at[u] <= Slots /\ s.cb[s.at[u]] # "NULL"
    <3>1. t = [s EXCEPT !.at[u] = @ + 1] /\ s.at[u] \in 1..Slots
      BY <1>1, <1>2, <2>3 DEF RegisterTest, RawStates
    <3> QED
      BY <1>2, <3>1 DEF RawStates
  <2> QED
    BY <1>1, <1>2, <2>1, <2>2, <2>3 DEF RawStates
<1> HIDE DEF t
<1>4. t.pc \in [Threads -> {"test", "cb", "priv", "done", "ENODEV"}]
  BY <1>2, <1>3 DEF RawStates
<1>5. t.at \in [Threads -> 1..Slots + 1]
  BY SMTT(20), <1>1, <1>2, <1>3 DEF RawStates
<1>6. t \in RawStates
  BY <1>2, <1>3, <1>4, <1>5 DEF RawStates
<1>7. /\ \A v \in Threads : v # u => t.at[v] = s.at[v] /\ t.pc[v] = s.pc[v]
      /\ t.pc[u] \in {"ENODEV", "test", "cb"}
      /\ t.pc[u] = "cb" => t.at[u] \in 1..Slots
  BY <1>2, <1>3 DEF RawStates
<1>8. RawInv(t)
  BY <1>2, <1>3, <1>7 DEF RawInv
<1>9. RawCallsMatch(t)
  BY <1>2, <1>3, <1>7, CollidedStays
<1> QED
  BY <1>6, <1>8, <1>9 DEF RawOK, t

LEMMA RawCb ==
  ASSUME NEW s, RawOK(s), NEW u \in Threads, s.pc[u] = "cb"
  PROVE  RawOK(RegisterCb(s, u))
<1> DEFINE t == RegisterCb(s, u)
           i == s.at[u]
<1>1. Slots \in Nat /\ "NULL" \notin Threads
  BY NodeAssumption
<1>2. s \in RawStates /\ RawInv(s) /\ RawCallsMatch(s) /\ i \in 1..Slots
  BY DEF RawOK, RawInv
<1>3. /\ t.cb = [s.cb EXCEPT ![i] = u] /\ t.cb_priv = s.cb_priv /\ t.called = s.called
      /\ t.at = s.at /\ t.pc = [s.pc EXCEPT ![u] = "priv"]
      /\ t \in [cb : {t.cb}, cb_priv : {t.cb_priv}, pc : {t.pc}, at : {t.at}, called : {t.called}]
  BY <1>2 DEF RegisterCb, RawStates
<1> HIDE DEF t, i
<1>4. t \in RawStates
  <2>1. t.cb \in [1..Slots -> Owners]
    BY <1>2, <1>3 DEF RawStates, Owners
  <2>2. t.pc \in [Threads -> {"test", "cb", "priv", "done", "ENODEV"}]
    BY <1>2, <1>3 DEF RawStates
  <2> QED
    BY <1>2, <1>3, <2>1, <2>2 DEF RawStates
<1>5. /\ \A v \in Threads : v # u => t.at[v] = s.at[v] /\ t.pc[v] = s.pc[v]
      /\ t.pc[u] = "priv" /\ t.at[u] = i /\ t.cb[i] = u
      /\ \A j \in 1..Slots : j # i => t.cb[j] = s.cb[j]
  BY <1>2, <1>3 DEF RawStates, i
<1>6. RawInv(t)
  <2>1. \A v \in Threads : t.pc[v] \in {"cb", "priv", "done"} => t.at[v] \in 1..Slots
    BY <1>2, <1>5 DEF RawInv
  <2>2. \A v \in Threads : t.pc[v] \in {"priv", "done"} => t.cb[t.at[v]] # "NULL"
    <3> SUFFICES ASSUME NEW v \in Threads, t.pc[v] \in {"priv", "done"}
                 PROVE  t.cb[t.at[v]] # "NULL"
      OBVIOUS
    <3>1. CASE t.at[v] = i
      BY <1>1, <1>5, <3>1
    <3>2. CASE t.at[v] # i
      BY <1>2, <1>5, <3>2, <2>1 DEF RawInv
    <3> QED
      BY <3>1, <3>2
  <2>3. \A j \in 1..Slots : t.cb[j] # "NULL" =>
          t.cb[j] \in Threads /\ t.at[t.cb[j]] = j /\ t.pc[t.cb[j]] \in {"priv", "done"}
    <3> SUFFICES ASSUME NEW j \in 1..Slots, t.cb[j] # "NULL"
                 PROVE  /\ t.cb[j] \in Threads /\ t.at[t.cb[j]] = j
                        /\ t.pc[t.cb[j]] \in {"priv", "done"}
      OBVIOUS
    <3>1. CASE j = i
      BY <1>5, <3>1
    <3>2. CASE j # i
      BY <1>2, <1>5, <3>2 DEF RawInv
    <3> QED
      BY <3>1, <3>2
  <2>4. \A j \in 1..Slots : t.cb_priv[j] # "NULL" =>
          t.cb_priv[j] \in Threads /\ t.at[t.cb_priv[j]] = j /\ t.pc[t.cb_priv[j]] = "done"
    BY <1>2, <1>3, <1>5 DEF RawInv
  <2> QED
    BY <2>1, <2>2, <2>3, <2>4 DEF RawInv
<1>7. RawCallsMatch(t)
  BY <1>2, <1>3, <1>5, CollidedStays
<1> QED
  BY <1>4, <1>6, <1>7 DEF RawOK, t

LEMMA RawPriv ==
  ASSUME NEW s, RawOK(s), NEW u \in Threads, s.pc[u] = "priv"
  PROVE  RawOK(RegisterPriv(s, u))
<1> DEFINE t == RegisterPriv(s, u)
           i == s.at[u]
<1>1. Slots \in Nat /\ "NULL" \notin Threads
  BY NodeAssumption
<1>2. s \in RawStates /\ RawInv(s) /\ RawCallsMatch(s) /\ i \in 1..Slots
  BY DEF RawOK, RawInv
<1>3. /\ t.cb = s.cb /\ t.cb_priv = [s.cb_priv EXCEPT ![i] = u] /\ t.called = s.called
      /\ t.at = s.at /\ t.pc = [s.pc EXCEPT ![u] = "done"]
      /\ t \in [cb : {t.cb}, cb_priv : {t.cb_priv}, pc : {t.pc}, at : {t.at}, called : {t.called}]
  BY <1>2 DEF RegisterPriv, RawStates
<1> HIDE DEF t, i
<1>4. t \in RawStates
  <2>1. t.cb_priv \in [1..Slots -> Owners]
    BY <1>2, <1>3 DEF RawStates, Owners
  <2>2. t.pc \in [Threads -> {"test", "cb", "priv", "done", "ENODEV"}]
    BY <1>2, <1>3 DEF RawStates
  <2> QED
    BY <1>2, <1>3, <2>1, <2>2 DEF RawStates
<1>5. /\ \A v \in Threads : v # u => t.at[v] = s.at[v] /\ t.pc[v] = s.pc[v]
      /\ t.pc[u] = "done" /\ t.at[u] = i /\ t.cb_priv[i] = u
      /\ \A j \in 1..Slots : j # i => t.cb_priv[j] = s.cb_priv[j]
  BY <1>2, <1>3 DEF RawStates, i
<1>6. RawInv(t)
  <2>1. \A v \in Threads : t.pc[v] \in {"cb", "priv", "done"} => t.at[v] \in 1..Slots
    BY <1>2, <1>5 DEF RawInv
  <2>2. \A v \in Threads : t.pc[v] \in {"priv", "done"} => t.cb[t.at[v]] # "NULL"
    BY <1>2, <1>3, <1>5 DEF RawInv, i
  <2>3. \A j \in 1..Slots : t.cb[j] # "NULL" =>
          t.cb[j] \in Threads /\ t.at[t.cb[j]] = j /\ t.pc[t.cb[j]] \in {"priv", "done"}
    BY <1>2, <1>3, <1>5 DEF RawInv
  <2>4. \A j \in 1..Slots : t.cb_priv[j] # "NULL" =>
          t.cb_priv[j] \in Threads /\ t.at[t.cb_priv[j]] = j /\ t.pc[t.cb_priv[j]] = "done"
    <3> SUFFICES ASSUME NEW j \in 1..Slots, t.cb_priv[j] # "NULL"
                 PROVE  /\ t.cb_priv[j] \in Threads /\ t.at[t.cb_priv[j]] = j
                        /\ t.pc[t.cb_priv[j]] = "done"
      OBVIOUS
    <3>1. CASE j = i
      BY <1>5, <3>1
    <3>2. CASE j # i
      BY <1>2, <1>5, <3>2 DEF RawInv
    <3> QED
      BY <3>1, <3>2
  <2> QED
    BY <2>1, <2>2, <2>3, <2>4 DEF RawInv
<1>7. RawCallsMatch(t)
  BY <1>2, <1>3, <1>5, CollidedStays
<1> QED
  BY <1>4, <1>6, <1>7 DEF RawOK, t

\* A step of a thread of the application keeps no memory and answers nothing.
Silent(o) == o.answers = <<>> /\ o.released = 0 /\ o.kept = 0

LEMMA EventSilent ==
  ASSUME NEW requests
  PROVE  Silent(Event(requests, 0))
  BY DEF Silent, Event, Outcome

LEMMA NothingSilent == Silent(Nothing)
  BY EventSilent DEF Nothing

LEMMA RawStepped ==
  ASSUME NEW s, RawOK(s), NEW h \in RawSteps(s)
  PROVE  RawOK(h[1]) /\ Silent(h[2])
<1>1. CASE \E u \in Threads : s.pc[u] = "test" /\ h = <<RegisterTest(s, u), Nothing>>
  BY <1>1, RawTest, NothingSilent
<1>2. CASE \E u \in Threads : s.pc[u] = "cb" /\ h = <<RegisterCb(s, u), Nothing>>
  BY <1>2, RawCb, NothingSilent
<1>3. CASE \E u \in Threads : s.pc[u] = "priv" /\ h = <<RegisterPriv(s, u), Nothing>>
  BY <1>3, RawPriv, NothingSilent
<1>4. CASE h = <<s, Event(<<"send">>, 0)>>
  BY <1>4, EventSilent
<1> QED
  BY <1>1, <1>2, <1>3, <1>4 DEF RawSteps

CalledOf(s, i) == [s EXCEPT !.called = <<s.cb[i], s.cb_priv[i]>>]

\* The callback of a slot is called with its own data, or with none as yet, unless
\* another thread has written one of the two.
LEMMA RawCalled ==
  ASSUME NEW s, RawOK(s), NEW i \in 1..Slots, s.cb[i] # "NULL"
  PROVE  RawOK(CalledOf(s, i))
<1> DEFINE t == CalledOf(s, i)
<1>1. s \in RawStates /\ RawInv(s)
  BY DEF RawOK
<1>2. /\ t.cb = s.cb /\ t.cb_priv = s.cb_priv /\ t.at = s.at /\ t.pc = s.pc
      /\ t.called = <<s.cb[i], s.cb_priv[i]>>
      /\ t \in [cb : {t.cb}, cb_priv : {t.cb_priv}, pc : {t.pc}, at : {t.at}, called : {t.called}]
  BY <1>1 DEF CalledOf, RawStates
<1> HIDE DEF t
<1>3. t \in RawStates
  <2>1. s.cb[i] \in Owners /\ s.cb_priv[i] \in Owners
    BY <1>1 DEF RawStates
  <2>2. t.called \in Owners \X Owners
    BY <1>2, <2>1
  <2> QED
    BY <1>1, <1>2, <2>2 DEF RawStates
<1>4. RawInv(t)
  BY <1>1, <1>2 DEF RawInv
<1>5. CASE s.cb_priv[i] = "NULL" \/ s.cb_priv[i] = s.cb[i]
  BY <1>2, <1>3, <1>4, <1>5 DEF RawOK, RawCallsMatch, t
<1>6. CASE s.cb_priv[i] # "NULL" /\ s.cb_priv[i] # s.cb[i]
  <2>1. /\ s.cb[i] \in Threads /\ s.at[s.cb[i]] = i /\ s.pc[s.cb[i]] \in {"priv", "done"}
        /\ s.cb_priv[i] \in Threads /\ s.at[s.cb_priv[i]] = i /\ s.pc[s.cb_priv[i]] = "done"
    BY <1>1, <1>6 DEF RawInv
  <2>2. Collided(t)
    BY <1>2, <1>6, <2>1 DEF Collided
  <2> QED
    BY <1>3, <1>4, <2>2 DEF RawOK, RawCallsMatch, t
<1> QED
  BY <1>5, <1>6

LEMMA RawHandled ==
  ASSUME NEW s, RawOK(s), NEW r \in RawRequests, NEW h \in RawHandle(s, r)
  PROVE  RawOK(h[1]) /\ Answered(h[2])
<1>1. r.type \in {"send", "unknown"} /\ r.slot \in 1..Slots
  BY DEF RawRequests
<1>2. \/ h = <<s, Reply(Internal)>> \/ h = <<s, Reply(ProtocolBad)>>
      \/ /\ s.cb[r.slot] # "NULL"
         /\ h = <<CalledOf(s, r.slot), Reply(Ok)>> \/ h = <<CalledOf(s, r.slot), Reply(Failure)>>
  <2>1. CASE s.cb[r.slot] = "NULL"
    BY <2>1 DEF RawHandle, Unchanged
  <2>2. CASE s.cb[r.slot] # "NULL" /\ r.type = "send"
    BY <2>2 DEF RawHandle, CalledOf
  <2>3. CASE s.cb[r.slot] # "NULL" /\ r.type = "unknown"
    BY <2>3 DEF RawHandle, Unchanged
  <2> QED
    BY <1>1, <2>1, <2>2, <2>3
<1>3. \A x \in Answers : Answered(Reply(x))
  BY Replies DEF Answered
<1> QED
  BY <1>1, <1>2, <1>3, Refusals, RawCalled

\* The slot of a thread that sends has its callback: the response is only released.
LEMMA RawResponded ==
  ASSUME NEW s, RawOK(s), NEW r \in RawResponses(s), NEW h \in RawHandle(s, r)
  PROVE  h = <<s, Consume>>
<1>1. PICK u \in Threads : s.pc[u] = "done" /\ r.slot = s.at[u] /\ r.type = "send response"
  BY DEF RawResponses
<1>2. s.cb[r.slot] # "NULL"
  BY <1>1 DEF RawOK, RawInv
<1> QED
  BY <1>1, <1>2 DEF RawHandle

-----------------------------------------------------------------------------
(* What the AP has been told, and what is kept true of each driver         *)

\* What a is about is shown, and as a has it.
Agrees(shown, a) == DOMAIN a \subseteq DOMAIN shown /\ \A f \in DOMAIN a : shown[f] = a[f]
After(a, set, open, o) ==
  IF o.answers = <<Ok>> THEN Over(set, But(a, open)) ELSE But(a, open)

LEMMA ButDomain ==
  ASSUME NEW f, NEW S
  PROVE  DOMAIN But(f, S) = DOMAIN f \ S
  BY DEF But

LEMMA ButValue ==
  ASSUME NEW f, NEW S, NEW x \in DOMAIN f \ S
  PROVE  But(f, S)[x] = f[x]
  BY DEF But

LEMMA AfterDomain ==
  ASSUME NEW a, NEW set, NEW open, NEW o, NEW f
  PROVE  f \in DOMAIN After(a, set, open, o) <=>
           (o.answers = <<Ok>> /\ f \in DOMAIN set) \/ (f \in DOMAIN a /\ f \notin open)
<1>1. DOMAIN But(a, open) = DOMAIN a \ open
  BY ButDomain
<1>2. DOMAIN Over(set, But(a, open)) = DOMAIN set \cup (DOMAIN a \ open)
  BY <1>1, OverDomain
<1> QED
  BY <1>1, <1>2 DEF After

LEMMA FollowsAgrees ==
  ASSUME NEW before, NEW after, NEW a, NEW set, NEW open, NEW o, Agrees(before, a),
         Follows(before, after, DOMAIN a, set, open, o)
  PROVE  Agrees(after, After(a, set, open, o))
<1> DEFINE b == But(a, open)
           t == After(a, set, open, o)
<1>1. DOMAIN b = DOMAIN a \ open
  BY ButDomain
<1>2. ASSUME NEW f \in DOMAIN b
      PROVE  b[f] = a[f]
  BY <1>1, ButValue
<1>3. DOMAIN after = DOMAIN before
  BY DEF Follows
<1> HIDE DEF b
<1>4. CASE o.answers = <<Ok>>
  <2>1. t = Over(set, b)
    BY <1>4 DEF After, b
  <2>2. DOMAIN t = DOMAIN set \cup DOMAIN b
    BY <2>1, OverDomain
  <2> HIDE DEF t
  <2>3. ASSUME NEW f \in DOMAIN set
        PROVE  f \in DOMAIN after /\ after[f] = t[f]
    BY <1>3, <1>4, <2>1, <2>3, OverLeft DEF Follows
  <2>4. ASSUME NEW f \in DOMAIN b, f \notin DOMAIN set
        PROVE  f \in DOMAIN after /\ after[f] = t[f]
    <3>1. t[f] = a[f]
      BY <1>2, <2>1, <2>4, OverRight
    <3> QED
      BY <1>1, <1>3, <2>4, <3>1 DEF Follows, Agrees
  <2>5. Agrees(after, t)
    BY <2>2, <2>3, <2>4 DEF Agrees
  <2> QED
    BY <2>5 DEF t
<1>5. CASE o.answers # <<Ok>>
  <2>1. t = b
    BY <1>5 DEF After, b
  <2> HIDE DEF t
  <2>2. \A f \in DOMAIN b : after[f] = before[f]
    BY <1>1, <1>5 DEF Follows
  <2>3. Agrees(after, t)
    BY <1>1, <1>2, <1>3, <2>1, <2>2 DEF Agrees
  <2> QED
    BY <2>3 DEF t
<1> QED
  BY <1>4, <1>5

LEMMA EndedAgrees ==
  ASSUME NEW before, NEW after, NEW a, NEW set, NEW open, NEW o, Agrees(before, a),
         Ended(before, after, set, open, o)
  PROVE  Answered(o) /\ Agrees(after, After(a, set, open, o))
<1>1. Answered(o) /\ Follows(before, after, DOMAIN a, set, open, o)
  BY EndedFollows DEF Agrees
<1> QED
  BY <1>1, FollowsAgrees

LEMMA ButAgrees ==
  ASSUME NEW shown, NEW a, NEW S, Agrees(shown, a)
  PROVE  Agrees(shown, But(a, S))
<1> DEFINE b == But(a, S)
<1>1. DOMAIN b = DOMAIN a \ S
  BY ButDomain
<1>2. ASSUME NEW f \in DOMAIN b
      PROVE  b[f] = a[f]
  BY <1>1, ButValue
<1> HIDE DEF b
<1>3. Agrees(shown, b)
  BY <1>1, <1>2 DEF Agrees
<1> QED
  BY <1>3 DEF b

\* A device is heard only while its cport is connected; a channel of the PWM and of
\* the strip is told of as a whole.
GpioOK(s, c) == s \in GpioStates /\ (s.armed => c)
UartOK(s, c) == s \in UartStates /\ (s.rx => c)
LegacyOK(s, c) == s \in LegacyStates /\ (s.armed => c)
PwmOK(s, told) == s \in PwmStates /\ told = PwmFeatures
LightsOK(s, told) == s \in LightsStates /\ Current(s, told)
DriverOK(p, s, c, told) ==
  CASE p = "gpio" -> GpioOK(s, c)
    [] p = "audio" -> s \in AudioStates
    [] p = "pwm" -> PwmOK(s, told)
    [] p = "vibrator" -> s \in {"on", "off"}
    [] p = "lights" -> LightsOK(s, told)
    [] p = "i2c" -> s \in SeqsOf(Ops, MaxOps)
    [] p = "spi" -> s \in SeqsOf(SUBSET Words, MaxOps)
    [] p = "uart" -> UartOK(s, c)
    [] p = "raw" -> RawOK(s)
    [] p \in LegacyDrivers -> LegacyOK(s, c)
    [] OTHER -> s = <<>>

AgreesOK(p, s, c, a) == Agrees(Shows(p, s), a) /\ DriverOK(p, s, c, DOMAIN a)

\* The outcome of a message or an event of a cport of protocol p.
OutcomeOK(o) ==
  Range(o.answers) \subseteq Results \cup {NoMemory} /\ o.released \in Nat /\ o.kept \in Nat
LastOK == OutcomeOK(last.outcome) /\ EveryRequestSettled /\ QuietWhenDisconnected

Inv ==
  /\ build \in Builds /\ protocol \in Modelled \cup LegacyDrivers /\ connected \in BOOLEAN
  /\ AgreesOK(protocol, drv, connected, asked)
  /\ LastOK

\* The same for each protocol.
LEMMA GpioCportOK ==
  ASSUME NEW s, NEW c, NEW a
  PROVE  AgreesOK("gpio", s, c, a) <=> Agrees(GpioShows(s), a) /\ GpioOK(s, c)
  BY DEF AgreesOK, Shows, DriverOK, LegacyDrivers

LEMMA AudioCportOK ==
  ASSUME NEW s, NEW c, NEW a
  PROVE  AgreesOK("audio", s, c, a) <=> Agrees(AudioShows(s), a) /\ s \in AudioStates
  BY DEF AgreesOK, Shows, DriverOK, LegacyDrivers

LEMMA PwmCportOK ==
  ASSUME NEW s, NEW c, NEW a
  PROVE  AgreesOK("pwm", s, c, a) <=> Agrees(PwmShows(s), a) /\ PwmOK(s, DOMAIN a)
  BY DEF AgreesOK, Shows, DriverOK, LegacyDrivers

LEMMA VibratorCportOK ==
  ASSUME NEW s, NEW c, NEW a
  PROVE  AgreesOK("vibrator", s, c, a) <=> Agrees(VibratorShows(s), a) /\ s \in {"on", "off"}
  BY DEF AgreesOK, Shows, DriverOK, LegacyDrivers

LEMMA LightsCportOK ==
  ASSUME NEW s, NEW c, NEW a
  PROVE  AgreesOK("lights", s, c, a) <=> Agrees(LightsShows(s), a) /\ LightsOK(s, DOMAIN a)
  BY DEF AgreesOK, Shows, DriverOK, LegacyDrivers

LEMMA I2cCportOK ==
  ASSUME NEW s, NEW c, NEW a
  PROVE  AgreesOK("i2c", s, c, a) <=> Agrees(BusShows(s), a) /\ s \in SeqsOf(Ops, MaxOps)
  BY DEF AgreesOK, Shows, DriverOK, LegacyDrivers

LEMMA SpiCportOK ==
  ASSUME NEW s, NEW c, NEW a
  PROVE  AgreesOK("spi", s, c, a) <=> Agrees(BusShows(s), a) /\ s \in SeqsOf(SUBSET Words, MaxOps)
  BY DEF AgreesOK, Shows, DriverOK, LegacyDrivers

LEMMA UartCportOK ==
  ASSUME NEW s, NEW c, NEW a
  PROVE  AgreesOK("uart", s, c, a) <=> Agrees(UartShows(s), a) /\ UartOK(s, c)
  BY DEF AgreesOK, Shows, DriverOK, LegacyDrivers

LEMMA RawCportOK ==
  ASSUME NEW s, NEW c, NEW a
  PROVE  AgreesOK("raw", s, c, a) <=> Agrees(NoSettings, a) /\ RawOK(s)
  BY DEF AgreesOK, Shows, DriverOK, LegacyDrivers

LEMMA SoftCportOK ==
  ASSUME NEW p \in {"log", "loopback"}, NEW s, NEW c, NEW a
  PROVE  AgreesOK(p, s, c, a) <=> Agrees(NoSettings, a) /\ s = <<>>
  BY DEF AgreesOK, Shows, DriverOK, LegacyDrivers

LEMMA LegacyCportOK ==
  ASSUME NEW p \in LegacyDrivers, NEW s, NEW c, NEW a
  PROVE  AgreesOK(p, s, c, a) <=> Agrees(LegacyShows(s), a) /\ LegacyOK(s, c)
  BY DEF AgreesOK, Shows, DriverOK, LegacyDrivers

\* Two devices that show the same agree with the same; a driver that shows nothing
\* agrees with nothing only.
LEMMA NothingAgrees ==
  ASSUME NEW a, Agrees(NoSettings, a), NEW o
  PROVE  Agrees(NoSettings, After(a, NoSettings, {}, o))
<1>1. DOMAIN NoSettings = {}
  BY DEF NoSettings
<1>2. Follows(NoSettings, NoSettings, DOMAIN a, NoSettings, {}, o)
  BY <1>1 DEF Follows
<1> QED
  BY <1>2, FollowsAgrees

-----------------------------------------------------------------------------
(* The first state                                                         *)

LEMMA AgreesSelf ==
  ASSUME NEW f
  PROVE  Agrees(f, f)
  BY DEF Agrees

LEMMA DriverStarts ==
  ASSUME NEW p \in Modelled \cup LegacyDrivers
  PROVE  AgreesOK(p, DriverInit(p), FALSE, Shows(p, DriverInit(p)))
<1> DEFINE s == DriverInit(p)
           a == Shows(p, s)
<1>1. Agrees(Shows(p, s), a)
  BY AgreesSelf
<1> HIDE DEF a
<1>2. DriverOK(p, s, FALSE, DOMAIN a)
  <2>1. CASE p = "gpio"
    <3>1. GpioOK(GpioInit, FALSE)
      BY DEF GpioOK, GpioInit, GpioStates, Types
    <3>2. s = GpioInit
      BY <2>1 DEF DriverInit, LegacyDrivers
    <3> HIDE DEF s
    <3> QED
      BY <2>1, <3>1, <3>2 DEF DriverOK, LegacyDrivers
  <2>2. CASE p = "audio"
    <3>1. AudioInit \in AudioStates
      BY DEF AudioInit, AudioStates
    <3>2. s = AudioInit
      BY <2>2 DEF DriverInit, LegacyDrivers
    <3> HIDE DEF s
    <3> QED
      BY <2>2, <3>1, <3>2 DEF DriverOK, LegacyDrivers
  <2>3. CASE p = "pwm"
    <3>1. DOMAIN a = PwmFeatures
      BY <2>3, PwmDomain DEF Shows, LegacyDrivers, a
    <3>2. PwmInit \in PwmStates
      BY DEF PwmInit, PwmStates, PwmSettingsOf, Setting, Off
    <3>3. PwmOK(PwmInit, DOMAIN a)
      BY <3>1, <3>2 DEF PwmOK
    <3>4. s = PwmInit
      BY <2>3 DEF DriverInit, LegacyDrivers
    <3> HIDE DEF s
    <3> QED
      BY <2>3, <3>3, <3>4 DEF DriverOK, LegacyDrivers
  <2>4. CASE p = "vibrator"
    <3>1. s = "off"
      BY <2>4 DEF DriverInit, LegacyDrivers
    <3> HIDE DEF s
    <3> QED
      BY <2>4, <3>1 DEF DriverOK, LegacyDrivers
  <2>5. CASE p = "lights"
    <3>1. Shown(Dark) \in Levels \X Levels
      BY NodeAssumption DEF Shown, Dark
    <3>2. LightsInit \in LightsStates
      BY <3>1, NodeAssumption DEF LightsInit, LightsStates, Dark
    <3>3. Current(LightsInit, DOMAIN a)
      BY DEF Current, LightsInit
    <3>4. LightsOK(LightsInit, DOMAIN a)
      BY <3>2, <3>3 DEF LightsOK
    <3>5. s = LightsInit
      BY <2>5 DEF DriverInit, LegacyDrivers
    <3> HIDE DEF s
    <3> QED
      BY <2>5, <3>4, <3>5 DEF DriverOK, LegacyDrivers
  <2>6. CASE p = "i2c"
    <3>1. <<>> \in SeqsOf(Ops, MaxOps)
      BY SeqsOfEmpty, NodeAssumption
    <3>2. s = <<>>
      BY <2>6 DEF DriverInit, LegacyDrivers
    <3> HIDE DEF s
    <3> QED
      BY <2>6, <3>1, <3>2 DEF DriverOK, LegacyDrivers
  <2>7. CASE p = "spi"
    <3>1. <<>> \in SeqsOf(SUBSET Words, MaxOps)
      BY SeqsOfEmpty, NodeAssumption
    <3>2. s = <<>>
      BY <2>7 DEF DriverInit, LegacyDrivers
    <3> HIDE DEF s
    <3> QED
      BY <2>7, <3>1, <3>2 DEF DriverOK, LegacyDrivers
  <2>8. CASE p = "uart"
    <3>1. UartOK(UartInit, FALSE)
      BY DEF UartOK, UartInit, UartStates
    <3>2. s = UartInit
      BY <2>8 DEF DriverInit, LegacyDrivers
    <3> HIDE DEF s
    <3> QED
      BY <2>8, <3>1, <3>2 DEF DriverOK, LegacyDrivers
  <2>9. CASE p = "raw"
    <3>1. s = RawInit
      BY <2>9 DEF DriverInit, LegacyDrivers
    <3> HIDE DEF s
    <3> QED
      BY <2>9, <3>1, RawStarts DEF DriverOK, LegacyDrivers
  <2>10. CASE p \in {"log", "loopback"}
    BY <2>10 DEF DriverOK, DriverInit, LegacyDrivers
  <2>11. CASE p \in LegacyDrivers
    <3>1. LegacyOK(LegacyInit, FALSE)
      BY DEF LegacyOK, LegacyInit, LegacyStates
    <3>2. s = LegacyInit
      BY <2>11 DEF DriverInit, LegacyDrivers
    <3> HIDE DEF s
    <3> QED
      BY <2>11, <3>1, <3>2 DEF DriverOK, LegacyDrivers
  <2> QED
    BY <2>1, <2>2, <2>3, <2>4, <2>5, <2>6, <2>7, <2>8, <2>9, <2>10, <2>11 DEF Modelled
<1> QED
  BY <1>1, <1>2 DEF AgreesOK, a

LEMMA AnsweredOutcome ==
  ASSUME NEW o, Answered(o)
  PROVE  OutcomeOK(o) /\ Len(o.answers) = 1 /\ o.released = 1 /\ o.kept = 0
<1>1. PICK x \in Answers : o.answers = <<x>> /\ o.released = 1 /\ o.kept = 0
  BY DEF Answered, Told
<1>2. Range(o.answers) = {x} /\ Len(o.answers) = 1
  BY <1>1 DEF Range
<1> QED
  BY <1>1, <1>2 DEF OutcomeOK, Answers

LEMMA EmptyOutcome ==
  ASSUME NEW o, o.answers = <<>>, o.released \in Nat, o.kept \in Nat
  PROVE  OutcomeOK(o) /\ Len(o.answers) = 0
<1>1. Range(o.answers) = {}
  BY DEF Range
<1> QED
  BY <1>1 DEF OutcomeOK

LEMMA KeptOutcome == OutcomeOK(ReplyAndKeep(Ok))
<1>1. /\ ReplyAndKeep(Ok).answers = <<Ok>> /\ ReplyAndKeep(Ok).released = 0
      /\ ReplyAndKeep(Ok).kept = 1
  BY DEF ReplyAndKeep, Outcome
<1>2. Range(<<Ok>>) = {Ok}
  BY DEF Range
<1> QED
  BY <1>1, <1>2 DEF OutcomeOK, Results

LEMMA Starts == Init => Inv
<1> SUFFICES ASSUME Init
             PROVE  Inv
  OBVIOUS
<1>1. /\ build \in Builds /\ protocol \in Modelled \cup LegacyDrivers /\ connected = FALSE
      /\ drv = DriverInit(protocol) /\ asked = Shows(protocol, drv)
      /\ last.what = "none" /\ last.outcome = Nothing
  BY DEF Init, Seen
<1>2. AgreesOK(protocol, drv, connected, asked)
  BY <1>1, DriverStarts
<1>3. OutcomeOK(last.outcome)
  BY <1>1, NothingSilent, EmptyOutcome DEF Silent
<1>4. LastOK
  BY <1>1, <1>3 DEF LastOK, EveryRequestSettled, QuietWhenDisconnected
<1> QED
  BY <1>1, <1>2, <1>4 DEF Inv

-----------------------------------------------------------------------------
(* Requests                                                                *)

\* A request of a driver whose handler ends each request in one of the four ways.
\* known is what the AP has been told of when it comes.
LEMMA GpioAsked ==
  ASSUME NEW s, NEW c, NEW known, AgreesOK("gpio", s, c, known),
         NEW r \in GpioRequests, NEW h \in GpioHandle(s, r)
  PROVE  /\ Answered(h[2])
         /\ AgreesOK("gpio", h[1], c, After(known, GpioSettings(r), GpioDisturbs(r), h[2]))
<1>1. Agrees(GpioShows(s), known) /\ GpioOK(s, c)
  BY GpioCportOK
<1>2. /\ h[1] \in GpioStates /\ h[1].armed = s.armed
      /\ Ended(GpioShows(s), GpioShows(h[1]), GpioSettings(r), GpioDisturbs(r), h[2])
  BY <1>1, GpioHandled DEF GpioOK
<1>3. /\ Answered(h[2])
      /\ Agrees(GpioShows(h[1]), After(known, GpioSettings(r), GpioDisturbs(r), h[2]))
  BY <1>1, <1>2, EndedAgrees
<1> QED
  BY <1>1, <1>2, <1>3, GpioCportOK DEF GpioOK

LEMMA AudioAsked ==
  ASSUME NEW s, NEW c, NEW known, AgreesOK("audio", s, c, known),
         NEW r \in AudioRequests, NEW h \in AudioHandle(s, r)
  PROVE  /\ Answered(h[2])
         /\ AgreesOK("audio", h[1], c, After(known, AudioSettings(r), {}, h[2]))
<1>1. Agrees(AudioShows(s), known) /\ s \in AudioStates
  BY AudioCportOK
<1>2. /\ h[1] \in AudioStates
      /\ Ended(AudioShows(s), AudioShows(h[1]), AudioSettings(r), {}, h[2])
  BY <1>1, AudioHandled
<1>3. Answered(h[2]) /\ Agrees(AudioShows(h[1]), After(known, AudioSettings(r), {}, h[2]))
  BY <1>1, <1>2, EndedAgrees
<1> QED
  BY <1>2, <1>3, AudioCportOK

\* The AP has been told of the duty and the polarity of every channel.
LEMMA PwmKnown ==
  ASSUME NEW s, NEW known, Agrees(PwmShows(s), known), DOMAIN known = PwmFeatures
  PROVE  \A f \in PwmFeatures : known[f] = PwmShows(s)[f]
  BY DEF Agrees

LEMMA PwmAskedAfter ==
  ASSUME NEW s, NEW c, NEW known, AgreesOK("pwm", s, c, known),
         NEW r \in PwmRequests, NEW h \in PwmHandle(s, r)
  PROVE  /\ Answered(h[2])
         /\ AgreesOK("pwm", h[1], c, After(known, PwmAsked(known, r), {}, h[2]))
<1> DEFINE after == After(known, PwmAsked(known, r), {}, h[2])
<1>1. Agrees(PwmShows(s), known) /\ s \in PwmStates /\ DOMAIN known = PwmFeatures
  BY PwmCportOK DEF PwmOK
<1>2. \A f \in PwmFeatures : known[f] = PwmShows(s)[f]
  BY <1>1, PwmKnown
<1>3. /\ h[1] \in PwmStates
      /\ Ended(PwmShows(s), PwmShows(h[1]), PwmAsked(known, r), {}, h[2])
  BY <1>1, <1>2, PwmHandled
<1>4. Answered(h[2]) /\ Agrees(PwmShows(h[1]), after)
  BY <1>1, <1>3, EndedAgrees
<1>5. DOMAIN after = PwmFeatures
  <2>1. ASSUME NEW f \in PwmFeatures
        PROVE  f \in DOMAIN after
    BY <1>1, AfterDomain
  <2>2. DOMAIN after \subseteq PwmFeatures
    BY <1>4, PwmDomain DEF Agrees
  <2> QED
    BY <2>1, <2>2
<1> HIDE DEF after
<1>6. AgreesOK("pwm", h[1], c, after)
  BY <1>3, <1>4, <1>5, PwmCportOK DEF PwmOK
<1> QED
  BY <1>4, <1>6 DEF after

LEMMA VibratorAsked ==
  ASSUME NEW s, NEW c, NEW known, AgreesOK("vibrator", s, c, known),
         NEW r \in VibratorRequests, NEW h \in VibratorHandle(s, r)
  PROVE  /\ Answered(h[2])
         /\ AgreesOK("vibrator", h[1], c, After(known, VibratorSettings(r), {}, h[2]))
<1>1. Agrees(VibratorShows(s), known) /\ s \in {"on", "off"}
  BY VibratorCportOK
<1>2. /\ h[1] \in {"on", "off"}
      /\ Ended(VibratorShows(s), VibratorShows(h[1]), VibratorSettings(r), {}, h[2])
  BY <1>1, VibratorHandled
<1>3. Answered(h[2]) /\ Agrees(VibratorShows(h[1]), After(known, VibratorSettings(r), {}, h[2]))
  BY <1>1, <1>2, EndedAgrees
<1> QED
  BY <1>2, <1>3, VibratorCportOK

LEMMA LightsAskedAfter ==
  ASSUME NEW s, NEW c, NEW known, AgreesOK("lights", s, c, known),
         NEW r \in LightsRequests, NEW h \in LightsHandle(s, r)
  PROVE  /\ Answered(h[2])
         /\ AgreesOK("lights", h[1], c,
                     After(known, LightsAsked(known, r), LightsDisturbs(r), h[2]))
<1> DEFINE set == LightsAsked(known, r)
           open == LightsDisturbs(r)
           after == After(known, set, open, h[2])
<1>1. Agrees(LightsShows(s), known) /\ s \in LightsStates /\ Current(s, DOMAIN known)
  BY LightsCportOK DEF LightsOK
<1>2. /\ DOMAIN known \subseteq DOMAIN LightsShows(s)
      /\ \A f \in DOMAIN known : known[f] = LightsShows(s)[f]
  BY <1>1 DEF Agrees
<1>3. /\ h[1] \in LightsStates /\ Answered(h[2])
      /\ Follows(LightsShows(s), LightsShows(h[1]), DOMAIN known, set, open, h[2])
      /\ Current(h[1], DOMAIN known \ open)
      /\ h[2].answers = <<Ok>> => Current(h[1], DOMAIN set)
  BY <1>1, <1>2, LightsHandled
<1> HIDE DEF set, open
<1>4. Agrees(LightsShows(h[1]), after)
  BY <1>1, <1>3, FollowsAgrees
<1>5. Current(h[1], DOMAIN after)
  <2>1. ASSUME NEW d \in StripChannels, <<"strip", d>> \in DOMAIN after
        PROVE  \/ h[2].answers = <<Ok>> /\ <<"strip", d>> \in DOMAIN set
               \/ <<"strip", d>> \in DOMAIN known \ open
    BY <2>1, AfterDomain
  <2> QED
    BY <1>3, <2>1 DEF Current
<1> HIDE DEF after
<1>6. AgreesOK("lights", h[1], c, after)
  BY <1>3, <1>4, <1>5, LightsCportOK DEF LightsOK
<1> QED
  BY <1>3, <1>6 DEF after, set, open

LEMMA I2cAsked ==
  ASSUME NEW s, NEW c, NEW known, AgreesOK("i2c", s, c, known),
         NEW r \in I2cRequests, NEW h \in I2cHandle(s, r)
  PROVE  /\ Answered(h[2]) \/ h[2] = ReplyAndKeep(Ok)
         /\ AgreesOK("i2c", h[1], c, After(known, I2cSettings(r), BusDisturbs(r), h[2]))
<1>1. Agrees(BusShows(s), known)
  BY I2cCportOK
<1>2. /\ h[1] \in SeqsOf(Ops, MaxOps)
      /\ Answered(h[2]) \/ h[2] = ReplyAndKeep(Ok)
      /\ Follows(BusShows(s), BusShows(h[1]), DOMAIN BusShows(s), I2cSettings(r),
                 BusDisturbs(r), h[2])
  BY I2cHandled
<1>3. Follows(BusShows(s), BusShows(h[1]), DOMAIN known, I2cSettings(r), BusDisturbs(r), h[2])
  BY <1>1, <1>2 DEF Follows, Agrees
<1>4. Agrees(BusShows(h[1]), After(known, I2cSettings(r), BusDisturbs(r), h[2]))
  BY <1>1, <1>3, FollowsAgrees
<1> QED
  BY <1>2, <1>4, I2cCportOK

LEMMA SpiAsked ==
  ASSUME NEW s, NEW c, NEW known, AgreesOK("spi", s, c, known),
         NEW r \in SpiRequests, NEW h \in SpiHandle(s, r)
  PROVE  /\ Answered(h[2])
         /\ AgreesOK("spi", h[1], c, After(known, SpiSettings(r), BusDisturbs(r), h[2]))
<1>1. Agrees(BusShows(s), known)
  BY SpiCportOK
<1>2. /\ h[1] \in SeqsOf(SUBSET Words, MaxOps) /\ Answered(h[2])
      /\ Follows(BusShows(s), BusShows(h[1]), DOMAIN BusShows(s), SpiSettings(r),
                 BusDisturbs(r), h[2])
  BY SpiHandled
<1>3. Follows(BusShows(s), BusShows(h[1]), DOMAIN known, SpiSettings(r), BusDisturbs(r), h[2])
  BY <1>1, <1>2 DEF Follows, Agrees
<1>4. Agrees(BusShows(h[1]), After(known, SpiSettings(r), BusDisturbs(r), h[2]))
  BY <1>1, <1>3, FollowsAgrees
<1> QED
  BY <1>2, <1>4, SpiCportOK

LEMMA UartAsked ==
  ASSUME NEW s, NEW c, NEW known, AgreesOK("uart", s, c, known),
         NEW r \in UartRequests, NEW h \in UartHandle(s, r)
  PROVE  /\ Answered(h[2])
         /\ AgreesOK("uart", h[1], c, After(known, UartSettings(r), UartDisturbs(r), h[2]))
<1>1. Agrees(UartShows(s), known) /\ UartOK(s, c)
  BY UartCportOK
<1>2. /\ h[1] \in UartStates /\ h[1].rx = s.rx
      /\ Ended(UartShows(s), UartShows(h[1]), UartSettings(r), UartDisturbs(r), h[2])
  BY <1>1, UartHandled DEF UartOK
<1>3. /\ Answered(h[2])
      /\ Agrees(UartShows(h[1]), After(known, UartSettings(r), UartDisturbs(r), h[2]))
  BY <1>1, <1>2, EndedAgrees
<1> QED
  BY <1>1, <1>2, <1>3, UartCportOK DEF UartOK

LEMMA RawAsked ==
  ASSUME NEW s, NEW c, NEW known, AgreesOK("raw", s, c, known),
         NEW r \in RawRequests, NEW h \in RawHandle(s, r)
  PROVE  Answered(h[2]) /\ AgreesOK("raw", h[1], c, After(known, NoSettings, {}, h[2]))
<1>1. Agrees(NoSettings, known) /\ RawOK(s)
  BY RawCportOK
<1>2. RawOK(h[1]) /\ Answered(h[2])
  BY <1>1, RawHandled
<1>3. Agrees(NoSettings, After(known, NoSettings, {}, h[2]))
  BY <1>1, NothingAgrees
<1> QED
  BY <1>2, <1>3, RawCportOK

LEMMA SoftAsked ==
  ASSUME NEW p \in {"log", "loopback"}, NEW s, NEW c, NEW known, AgreesOK(p, s, c, known),
         NEW r, NEW h,
         \/ p = "log" /\ r \in LogRequests /\ h \in LogHandle(s, r)
         \/ p = "loopback" /\ r \in LoopbackRequests /\ h \in LoopbackHandle(s, r)
  PROVE  Answered(h[2]) /\ AgreesOK(p, h[1], c, After(known, NoSettings, {}, h[2]))
<1>1. Agrees(NoSettings, known) /\ s = <<>>
  BY SoftCportOK
<1>2. h = <<s, Reply(ProtocolBad)>> \/ h = <<s, Reply(Invalid)>> \/ h = <<s, Reply(Ok)>>
  BY DEF LogRequests, LogHandle, LoopbackHandle, Unchanged
<1>3. \A x \in Answers : Answered(Reply(x))
  BY Replies DEF Answered
<1>4. h[1] = s /\ Answered(h[2])
  BY <1>2, <1>3, Refusals
<1>5. Agrees(NoSettings, After(known, NoSettings, {}, h[2]))
  BY <1>1, NothingAgrees
<1> QED
  BY <1>1, <1>4, <1>5, SoftCportOK

LEMMA LegacyAsked ==
  ASSUME NEW p \in LegacyDrivers, NEW s, NEW c, NEW known, AgreesOK(p, s, c, known),
         NEW r \in LegacyRequests(p), NEW h \in LegacyHandle(s, r, p)
  PROVE  /\ Answered(h[2])
         /\ AgreesOK(p, h[1], c, After(known, LegacySettings(r), {}, h[2]))
<1>1. Agrees(LegacyShows(s), known) /\ LegacyOK(s, c)
  BY LegacyCportOK
<1>2. /\ h[1] \in LegacyStates /\ h[1].armed = s.armed
      /\ Ended(LegacyShows(s), LegacyShows(h[1]), LegacySettings(r), {}, h[2])
  BY <1>1, LegacyHandled DEF LegacyOK
<1>3. Answered(h[2]) /\ Agrees(LegacyShows(h[1]), After(known, LegacySettings(r), {}, h[2]))
  BY <1>1, <1>2, EndedAgrees
<1> QED
  BY <1>1, <1>2, <1>3, LegacyCportOK DEF LegacyOK

\* Whatever the cport, a request is answered, once, and what the AP is told then is
\* what the device shows.
LEMMA RequestAsked ==
  ASSUME protocol \in Modelled \cup LegacyDrivers, AgreesOK(protocol, drv, connected, asked),
         NEW r \in Requests, NEW h \in Handle(r)
  PROVE  /\ Answered(h[2]) \/ (protocol = "i2c" /\ h[2] = ReplyAndKeep(Ok))
         /\ AgreesOK(protocol, h[1], connected, AskedAfter(r, h[2]))
<1> USE DEF Legacies, LegacyDrivers
<1>1. AskedAfter(r, h[2]) = After(asked, Settings(r), Disturbs(r), h[2])
  BY DEF AskedAfter, After
<1>2. CASE protocol = "gpio"
  <2>1. r \in GpioRequests /\ h \in GpioHandle(drv, r)
    BY <1>2 DEF Requests, Handle
  <2>2. Settings(r) = GpioSettings(r) /\ Disturbs(r) = GpioDisturbs(r)
    BY <1>2 DEF Settings, Disturbs
  <2> QED
    BY <1>1, <1>2, <2>1, <2>2, GpioAsked
<1>3. CASE protocol = "audio"
  <2>1. r \in AudioRequests /\ h \in AudioHandle(drv, r)
    BY <1>3 DEF Requests, Handle
  <2>2. Settings(r) = AudioSettings(r) /\ Disturbs(r) = {}
    BY <1>3 DEF Settings, Disturbs
  <2> QED
    BY <1>1, <1>3, <2>1, <2>2, AudioAsked
<1>4. CASE protocol = "pwm"
  <2>1. r \in PwmRequests /\ h \in PwmHandle(drv, r)
    BY <1>4 DEF Requests, Handle
  <2>2. Settings(r) = PwmAsked(asked, r) /\ Disturbs(r) = {}
    BY <1>4 DEF Settings, Disturbs
  <2> QED
    BY <1>1, <1>4, <2>1, <2>2, PwmAskedAfter
<1>5. CASE protocol = "vibrator"
  <2>1. r \in VibratorRequests /\ h \in VibratorHandle(drv, r)
    BY <1>5 DEF Requests, Handle
  <2>2. Settings(r) = VibratorSettings(r) /\ Disturbs(r) = {}
    BY <1>5 DEF Settings, Disturbs
  <2> QED
    BY <1>1, <1>5, <2>1, <2>2, VibratorAsked
<1>6. CASE protocol = "lights"
  <2>1. r \in LightsRequests /\ h \in LightsHandle(drv, r)
    BY <1>6 DEF Requests, Handle
  <2>2. Settings(r) = LightsAsked(asked, r) /\ Disturbs(r) = LightsDisturbs(r)
    BY <1>6 DEF Settings, Disturbs
  <2> QED
    BY <1>1, <1>6, <2>1, <2>2, LightsAskedAfter
<1>7. CASE protocol = "i2c"
  <2>1. r \in I2cRequests /\ h \in I2cHandle(drv, r)
    BY <1>7 DEF Requests, Handle
  <2>2. Settings(r) = I2cSettings(r) /\ Disturbs(r) = BusDisturbs(r)
    BY <1>7 DEF Settings, Disturbs
  <2> QED
    BY <1>1, <1>7, <2>1, <2>2, I2cAsked
<1>8. CASE protocol = "spi"
  <2>1. r \in SpiRequests /\ h \in SpiHandle(drv, r)
    BY <1>8 DEF Requests, Handle
  <2>2. Settings(r) = SpiSettings(r) /\ Disturbs(r) = BusDisturbs(r)
    BY <1>8 DEF Settings, Disturbs
  <2> QED
    BY <1>1, <1>8, <2>1, <2>2, SpiAsked
<1>9. CASE protocol = "uart"
  <2>1. r \in UartRequests /\ h \in UartHandle(drv, r)
    BY <1>9 DEF Requests, Handle
  <2>2. Settings(r) = UartSettings(r) /\ Disturbs(r) = UartDisturbs(r)
    BY <1>9 DEF Settings, Disturbs
  <2> QED
    BY <1>1, <1>9, <2>1, <2>2, UartAsked
<1>10. CASE protocol = "raw"
  <2>1. r \in RawRequests /\ h \in RawHandle(drv, r)
    BY <1>10 DEF Requests, Handle
  <2>2. Settings(r) = NoSettings /\ Disturbs(r) = {}
    BY <1>10 DEF Settings, Disturbs
  <2> QED
    BY <1>1, <1>10, <2>1, <2>2, RawAsked
<1>11. CASE protocol = "log"
  <2>1. r \in LogRequests /\ h \in LogHandle(drv, r)
    BY <1>11 DEF Requests, Handle
  <2>2. Settings(r) = NoSettings /\ Disturbs(r) = {}
    BY <1>11 DEF Settings, Disturbs
  <2> QED
    BY <1>1, <1>11, <2>1, <2>2, SoftAsked
<1>12. CASE protocol = "loopback"
  <2>1. r \in LoopbackRequests /\ h \in LoopbackHandle(drv, r)
    BY <1>12 DEF Requests, Handle
  <2>2. Settings(r) = NoSettings /\ Disturbs(r) = {}
    BY <1>12 DEF Settings, Disturbs
  <2> QED
    BY <1>1, <1>12, <2>1, <2>2, SoftAsked
<1>13. CASE protocol \in LegacyDrivers
  <2>1. r \in LegacyRequests(protocol) /\ h \in LegacyHandle(drv, r, protocol)
    BY <1>13 DEF Requests, Handle
  <2>2. Settings(r) = LegacySettings(r) /\ Disturbs(r) = {}
    BY <1>13 DEF Settings, Disturbs
  <2> QED
    BY <1>1, <1>13, <2>1, <2>2, LegacyAsked
<1> QED
  BY <1>2, <1>3, <1>4, <1>5, <1>6, <1>7, <1>8, <1>9, <1>10, <1>11, <1>12, <1>13 DEF Modelled

LEMMA RequestKeeps ==
  ASSUME Inv, Request
  PROVE  Inv'
<1>0. PICK r \in Requests : \E h \in Handle(r) :
        /\ drv' = h[1] /\ asked' = AskedAfter(r, h[2]) /\ last' = Seen("request", h[2])
        /\ UNCHANGED <<build, protocol, connected>>
  BY DEF Request
<1>1. PICK h \in Handle(r) :
        /\ drv' = h[1] /\ asked' = AskedAfter(r, h[2]) /\ last' = Seen("request", h[2])
        /\ UNCHANGED <<build, protocol, connected>>
  BY <1>0
<1>2. /\ Answered(h[2]) \/ (protocol = "i2c" /\ h[2] = ReplyAndKeep(Ok))
      /\ AgreesOK(protocol, h[1], connected, AskedAfter(r, h[2]))
  BY RequestAsked DEF Inv
<1>3. last'.what = "request" /\ last'.outcome = h[2]
  BY <1>1 DEF Seen
<1>4. LastOK'
  <2>1. CASE Answered(h[2])
    <3>1. OutcomeOK(h[2]) /\ Len(h[2].answers) = 1 /\ h[2].released = 1 /\ h[2].kept = 0
      BY <2>1, AnsweredOutcome
    <3> QED
      BY <1>3, <3>1 DEF LastOK, EveryRequestSettled, Settled, QuietWhenDisconnected
  <2>2. CASE protocol = "i2c" /\ h[2] = ReplyAndKeep(Ok)
    <3>1. OutcomeOK(h[2])
      BY <2>2, KeptOutcome
    <3>2. Keeps'
      BY <1>1, <1>3, <2>2 DEF Keeps
    <3> QED
      BY <1>3, <3>1, <3>2 DEF LastOK, EveryRequestSettled, QuietWhenDisconnected
  <2> QED
    BY <1>2, <2>1, <2>2
<1> QED
  BY <1>1, <1>2, <1>4 DEF Inv

-----------------------------------------------------------------------------
(* The other steps                                                         *)

\* What the core and the control driver answer.
LEMMA AnsweredSettles ==
  ASSUME NEW o, last'.what = "request", last'.outcome = o, Answered(o)
  PROVE  LastOK'
<1>1. OutcomeOK(o) /\ Len(o.answers) = 1 /\ o.released = 1 /\ o.kept = 0
  BY AnsweredOutcome
<1> QED
  BY <1>1 DEF LastOK, EveryRequestSettled, Settled, QuietWhenDisconnected

LEMMA Answering ==
  ASSUME NEW x \in {Ok, Invalid}
  PROVE  Answered(Reply(x))
  BY Replies, Refusals DEF Answered

\* What comes of an event that asks for nothing.
LEMMA EventSettles ==
  ASSUME NEW o, last'.outcome = o, o.answers = <<>>, o.released = 0, o.kept \in Nat,
         \/ last'.what \in {"interrupt", "call"} /\ (o.kept = 0 \/ protocol' = "audio")
         \/ last'.what = "exit" /\ (o.kept = 0 \/ protocol' \in {"power_supply", "sdio"}),
         last'.what = "interrupt" => connected'
  PROVE  LastOK'
<1>1. OutcomeOK(o)
  BY EmptyOutcome
<1> QED
  BY <1>1 DEF LastOK, EveryRequestSettled, QuietWhenDisconnected

LEMMA ResponseKeeps ==
  ASSUME Inv, Response
  PROVE  Inv'
<1> USE DEF Legacies, LegacyDrivers
<1>1. PICK r \in Responses : \E h \in Handle(r) :
        /\ drv' = h[1] /\ last' = Seen("response", h[2])
        /\ UNCHANGED <<build, protocol, connected, asked>>
  BY DEF Response
<1>2. PICK h \in Handle(r) :
        /\ drv' = h[1] /\ last' = Seen("response", h[2])
        /\ UNCHANGED <<build, protocol, connected, asked>>
  BY <1>1
<1>3. last'.what = "response" /\ last'.outcome = h[2]
  BY <1>2 DEF Seen
<1>4. \/ h = <<drv, Consume>> /\ protocol # "audio"
      \/ h = <<drv, Reply(Invalid)>> /\ protocol = "audio"
  <2>1. CASE protocol = "raw"
    <3>1. RawOK(drv)
      BY <2>1, RawCportOK DEF Inv
    <3>2. r \in RawResponses(drv) /\ h \in RawHandle(drv, r)
      BY <2>1 DEF Responses, Handle
    <3> QED
      BY <2>1, <3>1, <3>2, RawResponded
  <2>2. CASE protocol = "log"
    <3>1. r \in LogResponses /\ h \in LogHandle(drv, r)
      BY <2>2 DEF Responses, Handle
    <3> QED
      BY <2>2, <3>1 DEF LogResponses, LogHandle
  <2>3. CASE protocol = "audio"
    <3>1. r \in [type : {"unknown"}] /\ h \in AudioHandle(drv, r)
      BY <2>3 DEF Responses, Handle
    <3> QED
      BY <2>3, <3>1 DEF AudioHandle, Unchanged
  <2>4. CASE protocol \notin {"raw", "log", "audio"}
    BY <2>4 DEF Responses
  <2> QED
    BY <2>1, <2>2, <2>3, <2>4
<1>5. LastOK'
  <2>1. CASE h = <<drv, Consume>> /\ protocol # "audio"
    <3>1. /\ last'.outcome.answers = <<>> /\ last'.outcome.released = 1
          /\ last'.outcome.kept = 0
      BY <1>3, <2>1 DEF Consume, Outcome
    <3>2. OutcomeOK(last'.outcome) /\ Len(last'.outcome.answers) = 0
      BY <3>1, EmptyOutcome
    <3> QED
      BY <1>2, <1>3, <2>1, <3>1, <3>2
      DEF LastOK, EveryRequestSettled, Settled, QuietWhenDisconnected
  <2>2. CASE h = <<drv, Reply(Invalid)>> /\ protocol = "audio"
    <3>1. Answered(last'.outcome)
      BY <1>3, <2>2, Answering
    <3>2. /\ OutcomeOK(last'.outcome) /\ Len(last'.outcome.answers) = 1
          /\ last'.outcome.released = 1 /\ last'.outcome.kept = 0
      BY <3>1, AnsweredOutcome
    <3> QED
      BY <1>2, <1>3, <2>2, <3>2
      DEF LastOK, EveryRequestSettled, Settled, QuietWhenDisconnected
  <2> QED
    BY <1>4, <2>1, <2>2
<1>6. drv' = drv
  BY <1>2, <1>4
<1> QED
  BY <1>2, <1>5, <1>6 DEF Inv

LEMMA CoreKeeps ==
  ASSUME Inv, Ping \/ Control \/ GetManifest
  PROVE  Inv'
<1>1. UNCHANGED <<build, protocol, connected, drv, asked>>
  BY DEF Ping, Control, GetManifest
<1>2. CASE Ping
  <2>1. last'.what = "request" /\ last'.outcome = Reply(Ok)
    BY <1>2 DEF Ping, Seen
  <2>2. LastOK'
    BY <2>1, Answering, AnsweredSettles
  <2> QED
    BY <1>1, <2>2 DEF Inv
<1>3. CASE Control
  <2>1. PICK a \in ControlAnswers : last' = Seen("request", Reply(a[2]))
    BY <1>3 DEF Control
  <2>2. a[2] \in {Ok, Invalid}
    BY DEF ControlAnswers
  <2>3. last'.what = "request" /\ last'.outcome = Reply(a[2])
    BY <2>1 DEF Seen
  <2>4. LastOK'
    BY <2>2, <2>3, Answering, AnsweredSettles
  <2> QED
    BY <1>1, <2>4 DEF Inv
<1>4. CASE GetManifest
  <2>1. last'.what = "get_manifest" /\ last'.outcome = ReplyAndKeep(Ok)
    BY <1>4 DEF GetManifest, Seen
  <2>2. LastOK'
    BY <2>1, KeptOutcome DEF LastOK, EveryRequestSettled, Keeps, QuietWhenDisconnected
  <2> QED
    BY <1>1, <2>2 DEF Inv
<1> QED
  BY <1>2, <1>3, <1>4

\* To be connected arms a driver and, for hid, forgets the length of the report
\* descriptor: nothing else that the AP has been told of changes.
LEMMA GpioArmed ==
  ASSUME NEW s \in GpioStates, NEW c \in BOOLEAN
  PROVE  LET t == [s EXCEPT !.armed = c]
         IN  t \in GpioStates /\ t.armed = c /\ GpioShows(t) = GpioShows(s)
  BY DEF GpioStates, GpioShows

LEMMA UartReceives ==
  ASSUME NEW s \in UartStates, NEW c \in BOOLEAN
  PROVE  LET t == [s EXCEPT !.rx = c]
         IN  t \in UartStates /\ t.rx = c /\ UartShows(t) = UartShows(s)
  BY DEF UartStates, UartShows

LEMMA AudioState ==
  ASSUME NEW s \in AudioStates, NEW state \in {"removed", "unconfigured"}
  PROVE  LET t == [s EXCEPT !.state = state]
         IN  t \in AudioStates /\ AudioShows(t) = AudioShows(s)
  BY DEF AudioStates, AudioShows

LEMMA LegacyOpens ==
  ASSUME NEW p, NEW s \in LegacyStates, NEW h \in LegacyOpen(s, p)
  PROVE  /\ h[1] \in LegacyStates /\ h[1].conf = s.conf
         /\ h[1] = s \/ h[1].length = "none"
<1>1. CASE h = <<s, Nothing>>
  BY <1>1
<1>2. CASE h = <<[s EXCEPT !.open = TRUE, !.armed = p # "usb", !.length = "none"], Nothing>>
  BY <1>2 DEF LegacyStates
<1> QED
  BY <1>1, <1>2 DEF LegacyOpen

LEMMA LegacyCloses ==
  ASSUME NEW p, NEW s \in LegacyStates, NEW h \in LegacyClose(s, p)
  PROVE  /\ h[1] \in LegacyStates /\ ~h[1].armed /\ LegacyShows(h[1]) = LegacyShows(s)
         /\ h[2] = Event(<<>>, IF p \in {"power_supply", "sdio"} THEN 1 ELSE 0)
<1>1. h = <<[s EXCEPT !.open = FALSE, !.armed = FALSE],
            Event(<<>>, IF p \in {"power_supply", "sdio"} THEN 1 ELSE 0)>>
  BY DEF LegacyClose
<1> QED
  BY <1>1 DEF LegacyStates, LegacyShows

\* The drivers without init and exit that do anything.
Plain == {"pwm", "vibrator", "lights", "i2c", "spi", "raw", "log", "loopback"}

LEMMA PlainKeeps ==
  ASSUME NEW p \in Plain, NEW s, NEW c, NEW d, NEW known, AgreesOK(p, s, c, known)
  PROVE  AgreesOK(p, s, d, known)
<1>1. DriverOK(p, s, d, DOMAIN known)
  BY DEF AgreesOK, DriverOK, Plain, LegacyDrivers
<1> QED
  BY <1>1 DEF AgreesOK

LEMMA PlainConnected ==
  ASSUME NEW p \in Plain, NEW s, NEW c, NEW known, AgreesOK(p, s, c, known)
  PROVE  AgreesOK(p, s, TRUE, But(known, {<<"length", 0>>}))
<1> DEFINE a == But(known, {<<"length", 0>>})
<1>1. AgreesOK(p, s, TRUE, known)
  BY PlainKeeps
<1>2. Agrees(Shows(p, s), a)
  BY ButAgrees DEF AgreesOK
<1>3. DOMAIN a = DOMAIN known \ {<<"length", 0>>}
  BY ButDomain
<1> HIDE DEF a
<1>4. CASE p = "pwm"
  <2>1. Agrees(PwmShows(s), known) /\ PwmOK(s, DOMAIN known)
    BY <1>1, <1>4, PwmCportOK
  <2>2. <<"length", 0>> \notin PwmFeatures
    BY DEF PwmFeatures
  <2>3. PwmOK(s, DOMAIN a)
    BY <1>3, <2>1, <2>2 DEF PwmOK
  <2>4. Agrees(PwmShows(s), a)
    BY <1>2, <1>4 DEF Shows, LegacyDrivers
  <2>5. AgreesOK(p, s, TRUE, a)
    BY <1>4, <2>3, <2>4, PwmCportOK
  <2> QED
    BY <2>5 DEF a
<1>5. CASE p = "lights"
  <2>1. LightsOK(s, DOMAIN known)
    BY <1>1, <1>5, LightsCportOK
  <2>2. LightsOK(s, DOMAIN a)
    BY <1>3, <2>1 DEF LightsOK, Current
  <2>3. Agrees(LightsShows(s), a)
    BY <1>2, <1>5 DEF Shows, LegacyDrivers
  <2>4. AgreesOK(p, s, TRUE, a)
    BY <1>5, <2>2, <2>3, LightsCportOK
  <2> QED
    BY <2>4 DEF a
<1>6. CASE p \notin {"pwm", "lights"}
  <2>1. DriverOK(p, s, TRUE, DOMAIN a)
    BY <1>1, <1>6 DEF AgreesOK, DriverOK, Plain, LegacyDrivers
  <2> QED
    BY <1>2, <2>1 DEF AgreesOK, a
<1> QED
  BY <1>4, <1>5, <1>6

LEMMA LegacyConnected ==
  ASSUME NEW p \in LegacyDrivers, NEW s, NEW c, NEW known, AgreesOK(p, s, c, known),
         NEW h \in LegacyOpen(s, p)
  PROVE  AgreesOK(p, h[1], TRUE, But(known, {<<"length", 0>>}))
<1> DEFINE a == But(known, {<<"length", 0>>})
<1>1. Agrees(LegacyShows(s), known) /\ s \in LegacyStates
  BY LegacyCportOK DEF LegacyOK
<1>2. h[1] \in LegacyStates /\ h[1].conf = s.conf
  BY <1>1, LegacyOpens
<1>3. Agrees(LegacyShows(s), a)
  BY <1>1, ButAgrees
<1>4. DOMAIN a = DOMAIN known \ {<<"length", 0>>}
  BY ButDomain
<1> HIDE DEF a
<1>5. LegacyShows(h[1])[<<"conf", 0>>] = LegacyShows(s)[<<"conf", 0>>]
  <2>1. LegacyShows(h[1])[<<"conf", 0>>] = h[1].conf
    BY LegacyShowsConf
  <2>2. LegacyShows(s)[<<"conf", 0>>] = s.conf
    BY LegacyShowsConf
  <2> QED
    BY <1>2, <2>1, <2>2
<1>6. DOMAIN a \subseteq {<<"conf", 0>>}
  <2>1. DOMAIN LegacyShows(s) = {<<"conf", 0>>, <<"length", 0>>}
    BY LegacyFeatures
  <2> QED
    BY <1>3, <1>4, <2>1 DEF Agrees
<1>7. <<"conf", 0>> \in DOMAIN LegacyShows(h[1])
  BY LegacyFeatures
<1>8. Agrees(LegacyShows(h[1]), a)
  BY <1>3, <1>5, <1>6, <1>7 DEF Agrees
<1>9. AgreesOK(p, h[1], TRUE, a)
  BY <1>2, <1>8, LegacyCportOK DEF LegacyOK
<1> QED
  BY <1>9 DEF a

LEMMA ConnectedKeeps ==
  ASSUME Inv, Connected
  PROVE  Inv'
<1> USE DEF Legacies
<1> DEFINE a == But(asked, {<<"length", 0>>})
<1>1. PICK h \in Connect : drv' = h[1] /\ last' = Seen("request", Reply(Ok))
  BY DEF Connected
<1>2. connected' = TRUE /\ asked' = a /\ UNCHANGED <<build, protocol>>
  BY DEF Connected
<1>3. AgreesOK(protocol, drv, connected, asked) /\ protocol \in Modelled \cup LegacyDrivers
  BY DEF Inv
<1>4. LastOK'
  <2>1. last'.what = "request" /\ last'.outcome = Reply(Ok)
    BY <1>1 DEF Seen
  <2> QED
    BY <2>1, Answering, AnsweredSettles
<1>5. AgreesOK(protocol, h[1], TRUE, a)
  <2>1. CASE protocol = "gpio"
    <3>1. h[1] = [drv EXCEPT !.armed = TRUE]
      BY <1>1, <2>1 DEF Connect, GpioConnected, LegacyDrivers
    <3>2. Agrees(GpioShows(drv), asked) /\ drv \in GpioStates
      BY <1>3, <2>1, GpioCportOK DEF GpioOK
    <3>3. h[1] \in GpioStates /\ GpioShows(h[1]) = GpioShows(drv)
      BY <3>1, <3>2, GpioArmed
    <3>4. Agrees(GpioShows(h[1]), a)
      BY <3>2, <3>3, ButAgrees
    <3> QED
      BY <2>1, <3>3, <3>4, GpioCportOK DEF GpioOK
  <2>2. CASE protocol = "audio"
    <3>1. h[1] = drv \/ h[1] = [drv EXCEPT !.state = "unconfigured"]
      BY <1>1, <2>2 DEF Connect, AudioConnected, LegacyDrivers
    <3>2. Agrees(AudioShows(drv), asked) /\ drv \in AudioStates
      BY <1>3, <2>2, AudioCportOK
    <3>3. h[1] \in AudioStates /\ AudioShows(h[1]) = AudioShows(drv)
      BY <3>1, <3>2, AudioState
    <3>4. Agrees(AudioShows(h[1]), a)
      BY <3>2, <3>3, ButAgrees
    <3> QED
      BY <2>2, <3>3, <3>4, AudioCportOK
  <2>3. CASE protocol = "uart"
    <3>1. h[1] = [drv EXCEPT !.rx = TRUE]
      BY <1>1, <2>3 DEF Connect, UartConnected, LegacyDrivers
    <3>2. Agrees(UartShows(drv), asked) /\ drv \in UartStates
      BY <1>3, <2>3, UartCportOK DEF UartOK
    <3>3. h[1] \in UartStates /\ UartShows(h[1]) = UartShows(drv)
      BY <3>1, <3>2, UartReceives
    <3>4. Agrees(UartShows(h[1]), a)
      BY <3>2, <3>3, ButAgrees
    <3> QED
      BY <2>3, <3>3, <3>4, UartCportOK DEF UartOK
  <2>4. CASE protocol \in LegacyDrivers
    <3>1. h \in LegacyOpen(drv, protocol)
      BY <1>1, <2>4 DEF Connect, LegacyDrivers
    <3> QED
      BY <1>3, <2>4, <3>1, LegacyConnected
  <2>5. CASE protocol \in Plain
    <3>1. h[1] = drv
      BY <1>1, <2>5 DEF Connect, Plain, LegacyDrivers
    <3> QED
      BY <1>3, <2>5, <3>1, PlainConnected
  <2> QED
    BY <1>3, <2>1, <2>2, <2>3, <2>4, <2>5 DEF Modelled, Plain
<1> QED
  BY <1>1, <1>2, <1>4, <1>5 DEF Inv

LEMMA DisconnectedKeeps ==
  ASSUME Inv, Disconnected
  PROVE  Inv'
<1> USE DEF Legacies
<1>1. PICK h \in Disconnect :
        /\ drv' = h[1]
        /\ last' = IF Legacies THEN Seen("exit", h[2]) ELSE Seen("request", Reply(Ok))
  BY DEF Disconnected
<1>2. connected' = FALSE /\ UNCHANGED <<build, protocol, asked>>
  BY DEF Disconnected
<1>3. AgreesOK(protocol, drv, connected, asked) /\ protocol \in Modelled \cup LegacyDrivers
  BY DEF Inv
<1>4. ASSUME ~Legacies
      PROVE  LastOK'
  <2>1. last'.what = "request" /\ last'.outcome = Reply(Ok)
    BY <1>1, <1>4 DEF Seen
  <2> QED
    BY <2>1, Answering, AnsweredSettles
<1>5. AgreesOK(protocol, h[1], FALSE, asked) /\ LastOK'
  <2>1. CASE protocol = "gpio"
    <3>1. h[1] = [drv EXCEPT !.armed = FALSE]
      BY <1>1, <2>1 DEF Disconnect, GpioDisconnected, LegacyDrivers
    <3>2. Agrees(GpioShows(drv), asked) /\ drv \in GpioStates
      BY <1>3, <2>1, GpioCportOK DEF GpioOK
    <3>3. h[1] \in GpioStates /\ ~h[1].armed /\ GpioShows(h[1]) = GpioShows(drv)
      BY <3>1, <3>2, GpioArmed
    <3>4. AgreesOK(protocol, h[1], FALSE, asked)
      BY <2>1, <3>2, <3>3, GpioCportOK DEF GpioOK
    <3> QED
      BY <1>4, <2>1, <3>4 DEF LegacyDrivers
  <2>2. CASE protocol = "audio"
    <3>1. h[1] = [drv EXCEPT !.state = "removed"]
      BY <1>1, <2>2 DEF Disconnect, AudioDisconnected, LegacyDrivers
    <3>2. Agrees(AudioShows(drv), asked) /\ drv \in AudioStates
      BY <1>3, <2>2, AudioCportOK
    <3>3. h[1] \in AudioStates /\ AudioShows(h[1]) = AudioShows(drv)
      BY <3>1, <3>2, AudioState
    <3>4. AgreesOK(protocol, h[1], FALSE, asked)
      BY <2>2, <3>2, <3>3, AudioCportOK
    <3> QED
      BY <1>4, <2>2, <3>4 DEF LegacyDrivers
  <2>3. CASE protocol = "uart"
    <3>1. h[1] = [drv EXCEPT !.rx = FALSE]
      BY <1>1, <2>3 DEF Disconnect, UartDisconnected, LegacyDrivers
    <3>2. Agrees(UartShows(drv), asked) /\ drv \in UartStates
      BY <1>3, <2>3, UartCportOK DEF UartOK
    <3>3. h[1] \in UartStates /\ ~h[1].rx /\ UartShows(h[1]) = UartShows(drv)
      BY <3>1, <3>2, UartReceives
    <3>4. AgreesOK(protocol, h[1], FALSE, asked)
      BY <2>3, <3>2, <3>3, UartCportOK DEF UartOK
    <3> QED
      BY <1>4, <2>3, <3>4 DEF LegacyDrivers
  <2>4. CASE protocol \in LegacyDrivers
    <3>1. h \in LegacyClose(drv, protocol)
      BY <1>1, <2>4 DEF Disconnect, LegacyDrivers
    <3>2. Agrees(LegacyShows(drv), asked) /\ drv \in LegacyStates
      BY <1>3, <2>4, LegacyCportOK DEF LegacyOK
    <3>3. /\ h[1] \in LegacyStates /\ ~h[1].armed /\ LegacyShows(h[1]) = LegacyShows(drv)
          /\ h[2] = Event(<<>>, IF protocol \in {"power_supply", "sdio"} THEN 1 ELSE 0)
      BY <3>1, <3>2, LegacyCloses
    <3>4. AgreesOK(protocol, h[1], FALSE, asked)
      BY <2>4, <3>2, <3>3, LegacyCportOK DEF LegacyOK
    <3>5. last'.what = "exit" /\ last'.outcome = h[2]
      BY <1>1, <2>4 DEF Seen
    <3>6. /\ h[2].answers = <<>> /\ h[2].released = 0 /\ h[2].kept \in Nat
          /\ h[2].kept = 0 \/ protocol' \in {"power_supply", "sdio"}
      BY <1>2, <3>3 DEF Event, Outcome
    <3>7. LastOK'
      BY <3>5, <3>6, EventSettles
    <3> QED
      BY <3>4, <3>7
  <2>5. CASE protocol \in Plain
    <3>1. h[1] = drv /\ ~Legacies
      BY <1>1, <2>5 DEF Disconnect, Plain, LegacyDrivers
    <3> QED
      BY <1>3, <1>4, <2>5, <3>1, PlainKeeps
  <2> QED
    BY <1>3, <2>1, <2>2, <2>3, <2>4, <2>5 DEF Modelled, Plain
<1> QED
  BY <1>1, <1>2, <1>5 DEF Inv

UartReceived(n) == Event(IF n = 0 THEN <<>> ELSE <<<<"receive_data", n>>>>, 0)

\* An interrupt, or a call of the application, leaves the driver as it was, but for
\* the slots of raw.
LEMMA InterruptKeeps ==
  ASSUME Inv, Interrupt
  PROVE  Inv'
<1> USE DEF Legacies
<1>1. PICK h \in Interrupts : drv' = h[1] /\ last' = Seen("interrupt", h[2])
  BY DEF Interrupt
<1>2. UNCHANGED <<build, protocol, connected, asked>>
  BY DEF Interrupt
<1>3. AgreesOK(protocol, drv, connected, asked) /\ protocol \in Modelled \cup LegacyDrivers
  BY DEF Inv
<1>4. h[1] = drv /\ Silent(h[2]) /\ connected
  <2>1. CASE protocol = "gpio"
    <3>1. h \in GpioInterrupts(drv)
      BY <1>1, <2>1 DEF Interrupts, LegacyDrivers
    <3>2. drv.armed => connected
      BY <1>3, <2>1, GpioCportOK DEF GpioOK
    <3>3. PICK pins : h = <<drv, Event([i \in 1..Cardinality(pins) |-> "irq_event"], 0)>>
      BY <3>1 DEF GpioInterrupts
    <3>4. drv.armed
      BY <3>1, Zenon DEF GpioInterrupts
    <3>5. Silent(h[2])
      BY <3>3, EventSilent
    <3> QED
      BY <3>2, <3>3, <3>4, <3>5
  <2>2. CASE protocol = "uart"
    <3>1. h \in UartInterrupts(drv)
      BY <1>1, <2>2 DEF Interrupts, LegacyDrivers
    <3>2. drv.rx => connected
      BY <1>3, <2>2, UartCportOK DEF UartOK
    <3>3. PICK n \in IF drv.rx THEN 0..MaxData ELSE {} :
            h = <<drv, UartReceived(n)>>
      BY <3>1 DEF UartInterrupts, UartReceived
    <3>4. drv.rx
      BY <3>3
    <3>5. Silent(h[2])
      BY <3>3, EventSilent DEF UartReceived
    <3> QED
      BY <3>2, <3>3, <3>4, <3>5
  <2>3. CASE protocol \in LegacyDrivers
    <3>1. h \in LegacyEvents(drv, protocol)
      BY <1>1, <2>3 DEF Interrupts, LegacyDrivers
    <3>2. drv.armed => connected
      BY <1>3, <2>3, LegacyCportOK DEF LegacyOK
    <3>3. h[1] = drv /\ drv.armed /\ (h[2] = Nothing \/ h[2] = Event(<<"event">>, 0))
      BY <3>1 DEF LegacyEvents
    <3> QED
      BY <3>2, <3>3, EventSilent, NothingSilent
  <2>4. CASE protocol \notin {"gpio", "uart"} \cup LegacyDrivers
    BY <1>1, <2>4 DEF Interrupts
  <2> QED
    BY <2>1, <2>2, <2>3, <2>4
<1>5. last'.what = "interrupt" /\ last'.outcome = h[2]
  BY <1>1 DEF Seen
<1>6. LastOK'
  BY <1>2, <1>4, <1>5, EventSettles DEF Silent
<1> QED
  BY <1>1, <1>2, <1>4, <1>6 DEF Inv

LEMMA CallKeeps ==
  ASSUME Inv, Call
  PROVE  Inv'
<1>1. PICK h \in Calls : drv' = h[1] /\ last' = Seen("call", h[2])
  BY DEF Call
<1>2. UNCHANGED <<build, protocol, connected, asked>>
  BY DEF Call
<1>3. AgreesOK(protocol, drv, connected, asked)
  BY DEF Inv
<1>4. /\ AgreesOK(protocol, h[1], connected, asked)
      /\ h[2].answers = <<>> /\ h[2].released = 0 /\ h[2].kept \in Nat
      /\ h[2].kept = 0 \/ protocol = "audio"
  <2>1. CASE protocol = "audio"
    <3>1. h[1] = drv /\ \E requests : h[2] = Event(requests, 1)
      BY <1>1, <2>1 DEF Calls, AudioEvents
    <3>2. h[2].answers = <<>> /\ h[2].released = 0 /\ h[2].kept = 1
      BY <3>1 DEF Event, Outcome
    <3> QED
      BY <1>3, <2>1, <3>1, <3>2
  <2>2. CASE protocol = "raw"
    <3>1. Agrees(NoSettings, asked) /\ RawOK(drv)
      BY <1>3, <2>2, RawCportOK
    <3>2. h \in RawSteps(drv)
      BY <1>1, <2>2 DEF Calls
    <3>3. RawOK(h[1]) /\ Silent(h[2])
      BY <3>1, <3>2, RawStepped
    <3> QED
      BY <2>2, <3>1, <3>3, RawCportOK DEF Silent
  <2>3. CASE protocol = "log"
    <3>1. h[1] = drv /\ (h[2] = Nothing \/ h[2] = Event(<<"send_log">>, 0))
      BY <1>1, <2>3 DEF Calls, LogEvents
    <3>2. Silent(h[2])
      BY <3>1, EventSilent, NothingSilent
    <3> QED
      BY <1>3, <3>1, <3>2 DEF Silent
  <2>4. CASE protocol \notin {"audio", "raw", "log"}
    BY <1>1, <2>4 DEF Calls
  <2> QED
    BY <2>1, <2>2, <2>3, <2>4
<1>5. last'.what = "call" /\ last'.outcome = h[2]
  BY <1>1 DEF Seen
<1>6. LastOK'
  BY <1>2, <1>4, <1>5, EventSettles
<1> QED
  BY <1>1, <1>2, <1>4, <1>6 DEF Inv

-----------------------------------------------------------------------------
(* Theorems                                                                *)

LEMMA StutterKeeps ==
  ASSUME Inv, UNCHANGED vars
  PROVE  Inv'
<1>1. UNCHANGED <<build, protocol, connected, drv, asked, last>>
  BY DEF vars
<1>2. LastOK'
  BY <1>1 DEF Inv, LastOK, EveryRequestSettled, Settled, Keeps, QuietWhenDisconnected
<1> QED
  BY <1>1, <1>2 DEF Inv

\* Each driver's state and what the AP has been told of it stay as Inv says: the
\* invariant of the core, the control driver and whichever driver the cport has.
THEOREM Invariance == Spec => []Inv
<1>1. Init => Inv
  BY Starts
<1>2. Inv /\ [Next]_vars => Inv'
  <2> SUFFICES ASSUME Inv, [Next]_vars
               PROVE  Inv'
    OBVIOUS
  <2>1. CASE Request
    BY <2>1, RequestKeeps
  <2>2. CASE Response
    BY <2>2, ResponseKeeps
  <2>3. CASE Ping \/ Control \/ GetManifest
    BY <2>3, CoreKeeps
  <2>4. CASE Connected
    BY <2>4, ConnectedKeeps
  <2>5. CASE Disconnected
    BY <2>5, DisconnectedKeeps
  <2>6. CASE Interrupt
    BY <2>6, InterruptKeeps
  <2>7. CASE Call
    BY <2>7, CallKeeps
  <2>8. CASE UNCHANGED vars
    BY <2>8, StutterKeeps
  <2> QED
    BY <2>1, <2>2, <2>3, <2>4, <2>5, <2>6, <2>7, <2>8 DEF Next
<1> QED
  BY <1>1, <1>2, PTL DEF Spec

\* Every driver stays within its states, whatever it is asked to do, whatever fails
\* and whatever interrupts it: indices of slots, settings of channels, transfers of
\* a bus and all else are what the code can hold.
THEOREM TypeCorrect == Spec => []TypeOK
<1>1. Inv => TypeOK
  <2> SUFFICES ASSUME Inv
               PROVE  TypeOK
    OBVIOUS
  <2>1. /\ protocol \in Modelled \cup LegacyDrivers
        /\ DriverOK(protocol, drv, connected, DOMAIN asked)
    BY DEF Inv, AgreesOK
  <2>2. drv \in DriverStates
    BY <2>1 DEF DriverOK, GpioOK, PwmOK, LightsOK, UartOK, RawOK, LegacyOK, DriverStates,
                Legacies, LegacyDrivers, Modelled
  <2>3. DOMAIN asked \subseteq DOMAIN Shows(protocol, drv)
    BY DEF Inv, AgreesOK, Agrees
  <2> QED
    BY <2>2, <2>3 DEF Inv, LastOK, OutcomeOK, TypeOK
<1> QED
  BY <1>1, Invariance, PTL

\* Whichever step of a handler fails, of any of the drivers, its request is answered
\* once and released once, but for the exceptions that EveryRequestSettled names.
THEOREM RequestsSettled == Spec => []EveryRequestSettled
<1>1. Inv => EveryRequestSettled
  BY DEF Inv, LastOK
<1> QED
  BY <1>1, Invariance, PTL

\* What the AP has been told is done is what the device of the cport shows, and a
\* callback of raw is called with its own data, or none as yet, unless two threads
\* have been in one slot.
THEOREM DevicesAsAsked == Spec => []DeviceAsAsked
<1>1. Inv => DeviceAsAsked
  <2> SUFFICES ASSUME Inv
               PROVE  DeviceAsAsked
    OBVIOUS
  <2>1. AgreesOK(protocol, drv, connected, asked)
    BY DEF Inv
  <2>2. protocol = "raw" => RawCallsMatch(drv)
    BY <2>1, RawCportOK DEF RawOK
  <2>3. \A f \in DOMAIN asked : Shows(protocol, drv)[f] = asked[f]
    BY <2>1 DEF AgreesOK, Agrees
  <2> QED
    BY <2>2, <2>3 DEF DeviceAsAsked
<1> QED
  BY <1>1, Invariance, PTL

\* Only a connected cport has an interrupt: each driver with a callback disarms it
\* when it is disconnected, and arms it only when it is connected.
THEOREM NodeQuiet == Spec => []QuietWhenDisconnected
<1>1. Inv => QuietWhenDisconnected
  BY DEF Inv, LastOK
<1> QED
  BY <1>1, Invariance, PTL

-----------------------------------------------------------------------------
(* Flattened sequences                                                     *)

(***************************************************************************)
(* Induction over the natural numbers, for a set in the place of a         *)
(* predicate.  Were some number missing from S, the smallest 1..n with n   *)
(* missing would have a smaller one.                                       *)
(***************************************************************************)
LEMMA Induction ==
  ASSUME NEW S, 0 \in S, \A n \in Nat : n \in S => n + 1 \in S
  PROVE  Nat \subseteq S
<1> DEFINE T == {1..n : n \in Nat \ S}
           R == StrictSubsetOrdering(Nat)
<1>1. IsWellFoundedOn(R, FiniteSubsetsOf(Nat))
  BY FS_StrictSubsetOrderingWellFounded
<1>2. T \subseteq FiniteSubsetsOf(Nat)
  <2>1. ASSUME NEW n \in Nat
        PROVE  1..n \subseteq Nat /\ IsFiniteSet(1..n)
    BY FS_Interval
  <2> QED
    BY <2>1 DEF FiniteSubsetsOf
<1> SUFFICES ASSUME T # {}
             PROVE  FALSE
  OBVIOUS
<1> HIDE DEF T, R
<1>3. PICK x \in T : \A y \in T : ~(<<y, x>> \in R)
  BY <1>1, <1>2, WFMin
<1>4. PICK n \in Nat : n \notin S /\ x = 1..n
  BY DEF T
<1>5. n # 0
  BY <1>4
<1>6. n - 1 \in Nat /\ n - 1 \notin S
  BY <1>4, <1>5
<1>7. 1..n - 1 \in T
  BY <1>6 DEF T
<1>8. 1..n - 1 \subseteq 1..n /\ 1..n - 1 # 1..n
  <2>1. n \in 1..n /\ n \notin 1..n - 1
    BY <1>5
  <2> QED
    BY <2>1
<1>9. <<1..n - 1, 1..n>> \in R
  BY <1>4, <1>6, <1>8 DEF R, StrictSubsetOrdering
<1> QED
  BY <1>3, <1>4, <1>7, <1>9

\* The function that FlattenSeq defines by recursion.
Flattens(f, s, n) == f = [i \in 1..n |-> IF i = 1 THEN s[i] ELSE f[i - 1] \o s[i]]

LEMMA FlattensExists ==
  ASSUME NEW s, NEW n \in Nat
  PROVE  \E f : Flattens(f, s, n)
<1> DEFINE S == {m \in Nat : \E f : Flattens(f, s, m)}
<1>1. 0 \in S
  <2>1. Flattens([i \in 1..0 |-> <<>>], s, 0)
    BY DEF Flattens
  <2> QED
    BY <2>1
<1>2. ASSUME NEW m \in Nat, m \in S
      PROVE  m + 1 \in S
  <2>1. PICK f : Flattens(f, s, m)
    BY <1>2
  <2> DEFINE g == [i \in 1..m + 1 |-> IF i \in 1..m THEN f[i]
                                      ELSE IF i = 1 THEN s[i] ELSE f[i - 1] \o s[i]]
  <2>2. ASSUME NEW i \in 1..m + 1
        PROVE  g[i] = IF i = 1 THEN s[i] ELSE g[i - 1] \o s[i]
    <3>1. CASE i \in 1..m
      <4>1. f[i] = IF i = 1 THEN s[i] ELSE f[i - 1] \o s[i]
        BY <2>1, <3>1 DEF Flattens
      <4>2. g[i] = f[i] /\ (i # 1 => g[i - 1] = f[i - 1])
        BY <3>1
      <4> QED
        BY <4>1, <4>2
    <3>2. CASE i = m + 1
      <4>1. g[i] = IF i = 1 THEN s[i] ELSE f[i - 1] \o s[i]
        BY <3>2
      <4>2. i # 1 => g[i - 1] = f[i - 1]
        BY <3>2
      <4> QED
        BY <4>1, <4>2
    <3> QED
      BY <3>1, <3>2
  <2>3. g = [i \in 1..m + 1 |-> IF i = 1 THEN s[i] ELSE g[i - 1] \o s[i]]
    BY <2>2
  <2> HIDE DEF g
  <2>4. Flattens(g, s, m + 1)
    BY <2>3 DEF Flattens
  <2> QED
    BY <2>4
<1> HIDE DEF S
<1>3. Nat \subseteq S
  BY <1>1, <1>2, Induction
<1> QED
  BY <1>3 DEF S

LEMMA FlattenEmpty == FlattenSeq(<<>>) = <<>>
BY DEF FlattenSeq

LEMMA FlattenIs ==
  ASSUME NEW s, Len(s) \in Nat, Len(s) # 0
  PROVE  \E f : Flattens(f, s, Len(s)) /\ FlattenSeq(s) = f[Len(s)]
<1>1. \E f : Flattens(f, s, Len(s))
  BY FlattensExists
<1>2. PICK g : g = CHOOSE f : Flattens(f, s, Len(s))
  OBVIOUS
<1>3. Flattens(g, s, Len(s))
  BY <1>1, <1>2
<1>4. FlattenSeq(s) = (CHOOSE f : Flattens(f, s, Len(s)))[Len(s)]
  BY DEF FlattenSeq, Flattens
<1> QED
  BY <1>2, <1>3, <1>4

\* Whatever holds of the elements holds of those of the whole.
LEMMA FlattenType ==
  ASSUME NEW T, NEW s \in Seq(Seq(T))
  PROVE  FlattenSeq(s) \in Seq(T)
<1>1. CASE s = <<>>
  <2>1. <<>> \in Seq(T)
    OBVIOUS
  <2> QED
    BY <1>1, <2>1, FlattenEmpty
<1>2. CASE s # <<>>
  <2>1. PICK n : n = Len(s)
    OBVIOUS
  <2>2. n \in Nat /\ n # 0 /\ \A i \in 1..n : s[i] \in Seq(T)
    BY <1>2, <2>1
  <2>3. PICK f : Flattens(f, s, n) /\ FlattenSeq(s) = f[n]
    BY <2>1, <2>2, FlattenIs
  <2>4. \A i \in 1..n : f[i] = IF i = 1 THEN s[i] ELSE f[i - 1] \o s[i]
    BY <2>3 DEF Flattens
  <2> DEFINE S == {m \in Nat : m \in 1..n => f[m] \in Seq(T)}
  <2>5. 0 \in S
    OBVIOUS
  <2>6. ASSUME NEW m \in Nat, m \in S
        PROVE  m + 1 \in S
    <3> SUFFICES ASSUME m + 1 \in 1..n
                 PROVE  f[m + 1] \in Seq(T)
      BY <2>6
    <3>1. s[m + 1] \in Seq(T)
      BY <2>2
    <3>2. CASE m = 0
      BY <2>4, <3>1, <3>2
    <3>3. CASE m # 0
      <4>1. f[m + 1] = f[m] \o s[m + 1]
        <5>1. m + 1 # 1 /\ (m + 1) - 1 = m
          BY <3>3
        <5> QED
          BY <2>4, <5>1
      <4>2. f[m] \in Seq(T)
        BY <2>2, <2>6, <3>3
      <4> QED
        BY <3>1, <4>1, <4>2, ConcatProperties
    <3> QED
      BY <3>2, <3>3
  <2> HIDE DEF S
  <2>7. n \in S
    BY <2>2, <2>5, <2>6, Induction
  <2> QED
    BY <2>2, <2>3, <2>7 DEF S
<1> QED
  BY <1>1, <1>2

Joined(T, a, b, c) ==
  /\ c \in Seq(T) /\ Len(a) \in Nat /\ Len(b) \in Nat /\ Len(c) = Len(a) + Len(b)
  /\ \A i \in 1..Len(a) : c[i] = a[i]
  /\ \A j \in 1..Len(b) : c[Len(a) + j] = b[j]

LEMMA ConcatJoined ==
  ASSUME NEW T, NEW a \in Seq(T), NEW b \in Seq(T)
  PROVE  Joined(T, a, b, a \o b)
BY DEF Joined

\* All but the last have one element.
LEMMA FlattenOnes ==
  ASSUME NEW T, NEW s \in Seq(Seq(T)), NEW n \in Nat, Len(s) = n + 1,
         \A i \in 1..n : Len(s[i]) = 1,
         NEW z, z = FlattenSeq(s)
  PROVE  /\ z \in Seq(T) /\ Len(z) = n + Len(s[n + 1])
         /\ \A i \in 1..n : z[i] = s[i][1]
         /\ \A j \in 1..Len(s[n + 1]) : z[n + j] = s[n + 1][j]
<1>1. PICK f : Flattens(f, s, n + 1) /\ z = f[n + 1]
  BY FlattenIs
<1>2. \A i \in 1..n + 1 : f[i] = IF i = 1 THEN s[i] ELSE f[i - 1] \o s[i]
  BY <1>1 DEF Flattens
<1>3. \A i \in 1..n + 1 : s[i] \in Seq(T)
  OBVIOUS
<1> DEFINE Is(m) == f[m] \in Seq(T) /\ Len(f[m]) = m /\ \A i \in 1..m : f[m][i] = s[i][1]
           S == {m \in Nat : m \in 1..n => Is(m)}
<1>4. 0 \in S
  OBVIOUS
<1>5. ASSUME NEW m \in Nat, m \in S
      PROVE  m + 1 \in S
  <2> SUFFICES ASSUME m + 1 \in 1..n
               PROVE  Is(m + 1)
    BY <1>5
  <2>1. s[m + 1] \in Seq(T) /\ Len(s[m + 1]) = 1
    BY <1>3
  <2>2. CASE m = 0
    <3>1. f[1] = s[1] /\ s[1] \in Seq(T) /\ Len(s[1]) = 1
      BY <1>2, <2>1, <2>2
    <3>2. Is(1)
      BY <3>1
    <3> QED
      BY <2>2, <3>2
  <2>3. CASE m # 0
    <3>1. f[m + 1] = f[m] \o s[m + 1]
      <4>1. m + 1 # 1 /\ (m + 1) - 1 = m /\ m + 1 \in 1..n + 1
        BY <2>3
      <4> QED
        BY <1>2, <4>1
    <3>2. Is(m)
      <4>1. m \in 1..n
        BY <2>3
      <4> HIDE DEF Is
      <4> QED
        BY <1>5, <4>1
    <3>3. PICK a, b : a = f[m] /\ b = s[m + 1]
      OBVIOUS
    <3>4. a \in Seq(T) /\ b \in Seq(T) /\ Len(a) = m /\ Len(b) = 1
      BY <2>1, <3>2, <3>3 DEF Is
    <3> HIDE DEF Is
    <3>5. PICK c : c = a \o b
      OBVIOUS
    <3>6. Joined(T, a, b, c)
      BY <3>4, <3>5, ConcatJoined
    <3>7. c \in Seq(T) /\ Len(c) = m + 1 /\ (\A i \in 1..m : c[i] = a[i]) /\ c[m + 1] = b[1]
      BY <3>4, <3>6 DEF Joined
    <3>8. ASSUME NEW i \in 1..m + 1
          PROVE  c[i] = s[i][1]
      <4>1. CASE i \in 1..m
        <5>1. a[i] = s[i][1]
          BY <3>2, <3>3, <4>1 DEF Is
        <5> QED
          BY <3>7, <4>1, <5>1
      <4>2. CASE i = m + 1
        BY <3>3, <3>7, <4>2
      <4> QED
        BY <4>1, <4>2
    <3> QED
      BY <3>1, <3>3, <3>5, <3>7, <3>8 DEF Is
  <2> QED
    BY <2>2, <2>3
<1> HIDE DEF S
<1>6. n # 0 => Is(n)
  <2>1. n \in S
    BY <1>4, <1>5, Induction
  <2> QED
    BY <2>1 DEF S
<1>7. PICK b : b = s[n + 1]
  OBVIOUS
<1>8. b \in Seq(T)
  BY <1>3, <1>7
<1>9. CASE n = 0
  <2>1. z = b
    BY <1>1, <1>2, <1>7, <1>9
  <2> QED
    BY <1>7, <1>8, <1>9, <2>1
<1>10. CASE n # 0
  <2>1. PICK a : a = f[n]
    OBVIOUS
  <2>2. z = a \o b
    <3>1. n + 1 # 1 /\ (n + 1) - 1 = n /\ n + 1 \in 1..n + 1
      BY <1>10
    <3> QED
      BY <1>1, <1>2, <1>7, <2>1, <3>1
  <2>3. a \in Seq(T) /\ Len(a) = n /\ \A i \in 1..n : a[i] = s[i][1]
    BY <1>6, <1>10, <2>1
  <2> HIDE DEF Is
  <2>4. Joined(T, a, b, z)
    BY <1>8, <2>2, <2>3, ConcatJoined
  <2> QED
    BY <1>7, <2>3, <2>4 DEF Joined
<1> QED
  BY <1>9, <1>10

-----------------------------------------------------------------------------
(* Cports and bundles                                                      *)

Phys == Range(PhyOrder)
Names == {"control", "firmware", "fw_mgmt", "fw_download", "log", "raw", "loopback",
          "bridged_phy", "gpio", "pwm", "spi", "uart", "i2c",
          "lights", "camera", "vibrator", "audio"}
ChildType == [kind : Kinds, devices : [Devices -> Nat]]

LEMMA PhyOrderIs ==
  /\ DOMAIN PhyOrder = 1..5
  /\ Phys = {"gpio", "pwm", "spi", "uart", "i2c"}
  /\ \A i \in 1..5 : PhyOrder[i] \in Phys
<1>1. DOMAIN PhyOrder = 1..5
  BY DEF PhyOrder
<1>2. \A i \in 1..5 : PhyOrder[i] \in {"gpio", "pwm", "spi", "uart", "i2c"}
  BY DEF PhyOrder
<1>3. Phys = {PhyOrder[i] : i \in 1..5}
  BY <1>1 DEF Phys, Range
<1>4. /\ PhyOrder[1] = "gpio" /\ PhyOrder[2] = "pwm" /\ PhyOrder[3] = "spi"
      /\ PhyOrder[4] = "uart" /\ PhyOrder[5] = "i2c"
  BY DEF PhyOrder
<1>5. Phys = {"gpio", "pwm", "spi", "uart", "i2c"}
  BY <1>2, <1>3, <1>4
<1> QED
  BY <1>1, <1>2, <1>5

LEMMA CopiesType ==
  ASSUME NEW n \in Nat, NEW p, NEW T, p \in T
  PROVE  Copies(n, p) \in Seq(T)
BY DEF Copies

\* The class that the cports of a child need: theirs, or none.
Fits(child) ==
  /\ \/ /\ BundleClass(child) \in Seq(Names) /\ Len(BundleClass(child)) = 1
        /\ \A j \in 1..Len(ChildCports(child)) :
             ClassOf(ChildCports(child)[j]) = BundleClass(child)[1]
     \/ /\ BundleClass(child) = <<>>
        /\ \/ child.kind \in {"camera", "audio"}
           \/ child.kind = "bridged_phy" /\ ~HasClass(child)

LEMMA ChildFits ==
  ASSUME NEW child \in ChildType
  PROVE  ChildCports(child) \in Seq(Names) /\ Fits(child)
<1>1. child.kind \in Kinds /\ child.devices \in [Devices -> Nat]
  BY DEF ChildType
<1>2. CASE child.kind = "bridged_phy"
  <2>1. ChildCports(child) \in Seq(Phys)
    <3>1. PICK parts : parts = [i \in DOMAIN PhyOrder |->
                                  Copies(child.devices[PhyOrder[i]], PhyOrder[i])]
      OBVIOUS
    <3>2. ASSUME NEW i \in 1..5
          PROVE  parts[i] \in Seq(Phys)
      <4>1. PICK p : p = PhyOrder[i]
        OBVIOUS
      <4>2. p \in Phys
        BY <4>1, PhyOrderIs
      <4>3. child.devices[p] \in Nat
        BY <1>1, <4>2 DEF Devices, Phys
      <4>4. Copies(child.devices[p], p) \in Seq(Phys)
        BY <4>2, <4>3, CopiesType
      <4> QED
        BY <3>1, <4>1, <4>4, PhyOrderIs
    <3>3. parts \in Seq(Seq(Phys))
      <4>1. DOMAIN parts = 1..5
        BY <3>1, PhyOrderIs
      <4>2. parts = [i \in 1..5 |-> parts[i]]
        BY <3>1, <4>1
      <4> QED
        BY <3>2, <4>2
    <3>4. ChildCports(child) = FlattenSeq(parts)
      BY <1>2, <3>1 DEF ChildCports
    <3> QED
      BY <3>3, <3>4, FlattenType
  <2>2. PICK cs : cs = ChildCports(child)
    OBVIOUS
  <2>3. cs \in Seq(Names) /\ \A j \in 1..Len(cs) : cs[j] \in Phys
    <3>1. cs \in Seq(Phys)
      BY <2>1, <2>2
    <3>2. Phys \subseteq Names
      BY PhyOrderIs DEF Names
    <3> QED
      BY <3>1, <3>2
  <2>4. \A j \in 1..Len(cs) : ClassOf(cs[j]) = "bridged_phy"
    BY <2>3, PhyOrderIs DEF ClassOf
  <2>5. CASE HasClass(child)
    <3>1. BundleClass(child) = <<"bridged_phy">>
      BY <1>2, <2>5 DEF BundleClass
    <3>2. "bridged_phy" \in Names
      BY DEF Names
    <3>3. PICK k : k = "bridged_phy"
      OBVIOUS
    <3>4. <<k>> \in Seq(Names) /\ Len(<<k>>) = 1 /\ <<k>>[1] = k
      BY <3>2, <3>3
    <3> QED
      BY <2>2, <2>3, <2>4, <3>1, <3>3, <3>4 DEF Fits
  <2>6. CASE ~HasClass(child)
    <3>1. BundleClass(child) = <<>>
      BY <1>2, <2>6 DEF BundleClass
    <3> QED
      BY <1>2, <2>2, <2>3, <2>6, <3>1 DEF Fits
  <2> QED
    BY <2>5, <2>6
<1>3. ASSUME NEW k \in {"lights", "vibrator"}, child.kind = k
      PROVE  ChildCports(child) \in Seq(Names) /\ Fits(child)
  <2>1. BundleClass(child) = <<k>>
    BY <1>3 DEF BundleClass
  <2>2. k \in Names
    BY DEF Names
  <2>7. <<k>> \in Seq(Names) /\ Len(<<k>>) = 1 /\ <<k>>[1] = k
    BY <2>2
  <2>3. PICK cs : cs = ChildCports(child)
    OBVIOUS
  <2>4. cs \in Seq({k})
    <3>1. CASE k = "lights"
      <4>1. cs = <<k>>
        BY <1>3, <2>3, <3>1 DEF ChildCports
      <4> QED
        BY <4>1
    <3>2. CASE k = "vibrator"
      <4>1. child.devices[k] \in Nat
        BY <1>1, <3>2 DEF Devices
      <4>2. cs = Copies(child.devices[k], k)
        BY <1>3, <2>3, <3>2 DEF ChildCports
      <4> QED
        BY <4>1, <4>2, CopiesType
    <3> QED
      BY <3>1, <3>2
  <2>5. cs \in Seq(Names) /\ \A j \in 1..Len(cs) : cs[j] = k
    BY <2>2, <2>4
  <2>6. ClassOf(k) = k
    BY DEF ClassOf
  <2> QED
    BY <2>1, <2>3, <2>5, <2>6, <2>7 DEF Fits
<1>4. ASSUME NEW k \in {"camera", "audio"}, child.kind = k
      PROVE  ChildCports(child) \in Seq(Names) /\ Fits(child)
  <2>1. BundleClass(child) = <<>>
    BY <1>4 DEF BundleClass
  <2>2. child.devices[k] \in Nat
    BY <1>1 DEF Devices
  <2>3. ChildCports(child) = Copies(child.devices[k], k)
    BY <1>4 DEF ChildCports
  <2>4. ChildCports(child) \in Seq(Names)
    <3>1. k \in Names
      BY DEF Names
    <3> QED
      BY <2>2, <2>3, <3>1, CopiesType
  <2> QED
    BY <1>4, <2>1, <2>4 DEF Fits
<1> QED
  BY <1>1, <1>2, <1>3, <1>4 DEF Kinds

\* Groups of cports and classes of bundles that belong together, one by one.
Aligned(gs, bs) ==
  /\ gs \in Seq(Seq(Names)) /\ bs \in Seq(Names) /\ Len(gs) = Len(bs)
  /\ \A i \in 1..Len(gs) : \A j \in 1..Len(gs[i]) : ClassOf(gs[i][j]) = bs[i]

Classed(g, c) ==
  g \in Seq(Names) /\ c \in Names /\ \A j \in 1..Len(g) : ClassOf(g[j]) = c

LEMMA AlignedIf ==
  ASSUME NEW gs, NEW bs, Aligned(gs, bs), NEW option \in BOOLEAN, NEW g, NEW c, Classed(g, c)
  PROVE  Aligned(gs \o If(option, g), bs \o If(option, c))
<1>1. gs \in Seq(Seq(Names)) /\ bs \in Seq(Names) /\ Len(gs) = Len(bs)
  BY DEF Aligned
<1>2. CASE option
  <2>1. If(option, g) = <<g>> /\ If(option, c) = <<c>>
    BY <1>2 DEF If
  <2>2. <<g>> \in Seq(Seq(Names)) /\ <<c>> \in Seq(Names)
    BY DEF Classed
  <2>3. PICK gg, bb : gg = gs \o <<g>> /\ bb = bs \o <<c>>
    OBVIOUS
  <2>4. Joined(Seq(Names), gs, <<g>>, gg) /\ Joined(Names, bs, <<c>>, bb)
    BY <1>1, <2>2, <2>3, ConcatJoined
  <2>5. Len(<<g>>) = 1 /\ <<g>>[1] = g /\ Len(<<c>>) = 1 /\ <<c>>[1] = c
    OBVIOUS
  <2>6. PICK n : n = Len(gs)
    OBVIOUS
  <2>7. /\ gg \in Seq(Seq(Names)) /\ n \in Nat /\ Len(gg) = n + 1
        /\ (\A i \in 1..n : gg[i] = gs[i]) /\ gg[n + 1] = g
    <3>1. 1 \in 1..1
      OBVIOUS
    <3> QED
      BY <2>4, <2>5, <2>6, <3>1 DEF Joined
  <2>8. /\ bb \in Seq(Names) /\ Len(bb) = n + 1
        /\ (\A i \in 1..n : bb[i] = bs[i]) /\ bb[n + 1] = c
    <3>1. 1 \in 1..1
      OBVIOUS
    <3> QED
      BY <1>1, <2>4, <2>5, <2>6, <3>1 DEF Joined
  <2>9. ASSUME NEW i \in 1..n + 1, NEW j \in 1..Len(gg[i])
        PROVE  ClassOf(gg[i][j]) = bb[i]
    <3>1. CASE i \in 1..n
      BY <2>6, <2>7, <2>8, <2>9, <3>1 DEF Aligned
    <3>2. CASE i = n + 1
      BY <2>7, <2>8, <2>9, <3>2 DEF Classed
    <3> QED
      BY <2>7, <3>1, <3>2
  <2> QED
    BY <2>1, <2>3, <2>7, <2>8, <2>9 DEF Aligned
<1>3. CASE ~option
  <2>1. If(option, g) = <<>> /\ If(option, c) = <<>>
    BY <1>3 DEF If
  <2>2. gs \o <<>> = gs /\ bs \o <<>> = bs
    BY <1>1
  <2> QED
    BY <2>1, <2>2
<1> QED
  BY <1>2, <1>3

\* What the options of a build contribute.
OptionGroups(b) ==
  <<(<<"control">>)>>
    \o If(b.fw, <<"fw_mgmt", "fw_download">>)
    \o If(b.log, <<"log">>)
    \o If(b.raw > 0, Copies(b.raw, "raw"))
    \o If(b.loopback, <<"loopback">>)
OptionBundles(b) ==
  <<"control">>
    \o If(b.fw, "firmware")
    \o If(b.log, "log")
    \o If(b.raw > 0, "raw")
    \o If(b.loopback, "loopback")

LEMMA OptionsAligned ==
  ASSUME NEW b \in AllBuilds
  PROVE  Aligned(OptionGroups(b), OptionBundles(b))
<1>1. /\ b.fw \in BOOLEAN /\ b.log \in BOOLEAN /\ b.loopback \in BOOLEAN /\ b.raw \in Nat
      /\ (b.raw > 0) \in BOOLEAN
  BY DEF AllBuilds
<1> HIDE DEF AllBuilds
<1>2. Aligned(<<(<<"control">>)>>, <<"control">>)
  <2>1. PICK k, g, gs : k = "control" /\ g = <<k>> /\ gs = <<g>>
    OBVIOUS
  <2>2. k \in Names /\ ClassOf(k) = k
    BY <2>1 DEF Names, ClassOf
  <2>3. g \in Seq(Names) /\ Len(g) = 1 /\ g[1] = k
    BY <2>1, <2>2
  <2>4. gs \in Seq(Seq(Names)) /\ Len(gs) = 1 /\ gs[1] = g
    BY <2>1, <2>3
  <2>5. Aligned(gs, g)
    BY <2>2, <2>3, <2>4 DEF Aligned
  <2> QED
    BY <2>1, <2>5
<1>3. Classed(<<"fw_mgmt", "fw_download">>, "firmware")
  <2>1. /\ "fw_mgmt" \in Names /\ "fw_download" \in Names /\ "firmware" \in Names
        /\ ClassOf("fw_mgmt") = "firmware" /\ ClassOf("fw_download") = "firmware"
    BY DEF Names, ClassOf
  <2> QED
    BY <2>1 DEF Classed
<1>4. \A k \in {"log", "loopback"} : Classed(<<k>>, k)
  <2> TAKE k \in {"log", "loopback"}
  <2>1. k \in Names /\ ClassOf(k) = k
    BY DEF Names, ClassOf
  <2> QED
    BY <2>1 DEF Classed
<1>5. Classed(Copies(b.raw, "raw"), "raw")
  <2>1. "raw" \in Names /\ ClassOf("raw") = "raw"
    BY DEF Names, ClassOf
  <2>2. Copies(b.raw, "raw") \in Seq({"raw"}) /\ Copies(b.raw, "raw") \in Seq(Names)
    BY <1>1, <2>1, CopiesType
  <2> QED
    BY <2>1, <2>2 DEF Classed
<1>7. PICK fw, raw : fw = <<"fw_mgmt", "fw_download">> /\ raw = Copies(b.raw, "raw")
  OBVIOUS
<1>8. PICK g1, b1 : /\ g1 = <<(<<"control">>)>> \o If(b.fw, fw)
                    /\ b1 = <<"control">> \o If(b.fw, "firmware")
  OBVIOUS
<1>9. Aligned(g1, b1)
  BY <1>1, <1>2, <1>3, <1>7, <1>8, AlignedIf
<1>10. PICK g2, b2 : g2 = g1 \o If(b.log, <<"log">>) /\ b2 = b1 \o If(b.log, "log")
  OBVIOUS
<1>11. Aligned(g2, b2)
  BY <1>1, <1>4, <1>9, <1>10, AlignedIf
<1>12. PICK g3, b3 : g3 = g2 \o If(b.raw > 0, raw) /\ b3 = b2 \o If(b.raw > 0, "raw")
  OBVIOUS
<1>13. Aligned(g3, b3)
  BY <1>1, <1>5, <1>7, <1>11, <1>12, AlignedIf
<1>14. PICK g4, b4 : /\ g4 = g3 \o If(b.loopback, <<"loopback">>)
                     /\ b4 = b3 \o If(b.loopback, "loopback")
  OBVIOUS
<1>15. Aligned(g4, b4)
  BY <1>1, <1>4, <1>13, <1>14, AlignedIf
<1>16. OptionGroups(b) = g4 /\ OptionBundles(b) = b4
  BY <1>7, <1>8, <1>10, <1>12, <1>14 DEF OptionGroups, OptionBundles
<1> QED
  BY <1>15, <1>16

ChildGroups(b) == [i \in DOMAIN b.children |-> ChildCports(b.children[i])]
ChildClasses(b) == FlattenSeq([i \in DOMAIN b.children |-> BundleClass(b.children[i])])

\* The last child has cports, and no class.
LastUnclassed(b) ==
  /\ b.children # <<>>
  /\ \/ Last(b.children).kind \in {"camera", "audio"}
     \/ Last(b.children).kind = "bridged_phy" /\ ~HasClass(Last(b.children))

ChildrenAligned(b, gs, cl) ==
  /\ gs \in Seq(Seq(Names)) /\ cl \in Seq(Names) /\ Len(cl) <= Len(gs)
  /\ \A i \in 1..Len(gs) : \A j \in 1..Len(gs[i]) :
       \/ i \in 1..Len(cl) /\ ClassOf(gs[i][j]) = cl[i]
       \/ LastUnclassed(b) /\ i = Len(cl) + 1

LEMMA ChildrenFit ==
  ASSUME NEW b \in AllBuilds, Compiles(b)
  PROVE  ChildrenAligned(b, ChildGroups(b), ChildClasses(b))
<1>1. PICK cs, n : cs = b.children /\ n = Len(cs)
  OBVIOUS
<1>2. cs \in Seq(ChildType) /\ n \in Nat /\ DOMAIN cs = 1..n
  BY <1>1 DEF AllBuilds, ChildType
<1>3. \A i \in 1..n : cs[i] \in ChildType
  BY <1>1, <1>2
<1> HIDE DEF AllBuilds
<1>4. PICK gs, cl, classes : /\ gs = [i \in 1..n |-> ChildCports(cs[i])]
                             /\ classes = [i \in 1..n |-> BundleClass(cs[i])]
                             /\ cl = FlattenSeq(classes)
  OBVIOUS
<1>5. ChildGroups(b) = gs /\ ChildClasses(b) = cl
  BY <1>1, <1>2, <1>4 DEF ChildGroups, ChildClasses
<1>6. \A i \in 1..n : ChildCports(cs[i]) \in Seq(Names) /\ Fits(cs[i])
  BY <1>3, ChildFits
<1>7. gs \in Seq(Seq(Names)) /\ Len(gs) = n /\ \A i \in 1..n : gs[i] = ChildCports(cs[i])
  BY <1>2, <1>4, <1>6
<1>8. CASE n = 0
  <2>1. classes = <<>>
    BY <1>4, <1>8
  <2>2. cl = <<>>
    BY <1>4, <2>1, FlattenEmpty
  <2>3. cl \in Seq(Names) /\ Len(cl) = 0
    BY <2>2
  <2> QED
    BY <1>5, <1>7, <1>8, <2>3 DEF ChildrenAligned
<1>9. CASE n # 0
  <2>1. PICK m \in Nat : n = m + 1
    <3>1. n - 1 \in Nat /\ n = (n - 1) + 1
      BY <1>2, <1>9
    <3> QED
      BY <3>1
  <2>2. \A i \in 1..m : cs[i].kind = "bridged_phy" /\ BundleClass(cs[i]) # <<>>
    BY <1>1, <2>1 DEF Compiles
  <2>3. ASSUME NEW i \in 1..n
        PROVE  /\ classes[i] \in Seq(Names)
               /\ classes[i] = <<>> \/ Len(classes[i]) = 1
    <3>1. classes[i] = BundleClass(cs[i])
      BY <1>4
    <3>2. <<>> \in Seq(Names)
      OBVIOUS
    <3> QED
      BY <1>6, <3>1, <3>2 DEF Fits
  <2>4. classes \in Seq(Seq(Names)) /\ Len(classes) = m + 1
    BY <1>2, <1>4, <2>1, <2>3
  <2>5. \A i \in 1..m : Len(classes[i]) = 1
    BY <1>4, <2>1, <2>2, <2>3
  <2>6. PICK c : c = classes[n]
    OBVIOUS
  <2>7. /\ cl \in Seq(Names) /\ Len(cl) = m + Len(c)
        /\ \A i \in 1..m : cl[i] = classes[i][1]
        /\ \A j \in 1..Len(c) : cl[m + j] = c[j]
    <3>1. cl = FlattenSeq(classes) /\ c = classes[m + 1]
      BY <1>4, <2>1, <2>6
    <3> QED
      BY <2>4, <2>5, <3>1, FlattenOnes
  <2>8. ASSUME NEW i \in 1..n, NEW j \in 1..Len(gs[i])
        PROVE  \/ i \in 1..Len(cl) /\ ClassOf(gs[i][j]) = cl[i]
               \/ LastUnclassed(b) /\ i = Len(cl) + 1
    <3>1. CASE Len(classes[i]) = 1
      <4>1. ClassOf(gs[i][j]) = classes[i][1]
        <5>1. BundleClass(cs[i]) # <<>>
          <6>1. classes[i] = BundleClass(cs[i]) /\ Len(<<>>) = 0
            BY <1>4
          <6> QED
            BY <3>1, <6>1
        <5> QED
          BY <1>4, <1>6, <1>7, <2>8, <5>1 DEF Fits
      <4>2. CASE i \in 1..m
        BY <2>3, <2>6, <2>7, <2>1, <4>1, <4>2
      <4>3. CASE i = n
        BY <2>1, <2>6, <2>7, <3>1, <4>1, <4>3
      <4> QED
        BY <2>1, <4>2, <4>3
    <3>2. CASE classes[i] = <<>>
      <4>1. i = n
        BY <2>1, <2>5, <3>2
      <4>2. Len(cl) = m
        BY <2>1, <2>6, <2>7, <3>2, <4>1
      <4>3. Last(cs) = cs[n]
        BY <1>1 DEF Last
      <4>4. BundleClass(cs[n]) = <<>>
        BY <1>4, <3>2, <4>1
      <4>5. Fits(cs[n])
        BY <1>6, <4>1
      <4>6. Len(BundleClass(cs[n])) # 1
        BY <4>4
      <4>7. \/ cs[n].kind \in {"camera", "audio"}
            \/ cs[n].kind = "bridged_phy" /\ ~HasClass(cs[n])
        BY <4>5, <4>6 DEF Fits
      <4>8. LastUnclassed(b)
        BY <1>1, <1>9, <4>3, <4>7 DEF LastUnclassed
      <4> QED
        BY <2>1, <4>1, <4>2, <4>8
    <3> QED
      BY <2>3, <3>1, <3>2
  <2>9. Len(cl) <= Len(gs)
    <3>1. Len(c) = 0 \/ Len(c) = 1
      <4>1. c = <<>> \/ Len(c) = 1
        BY <1>2, <1>9, <2>3, <2>6
      <4>2. Len(<<>>) = 0
        OBVIOUS
      <4> QED
        BY <4>1, <4>2
    <3>2. Len(cl) = m \/ Len(cl) = m + 1
      BY <2>7, <3>1
    <3>3. Len(gs) = m + 1
      BY <1>7, <2>1
    <3> QED
      BY <3>2, <3>3
  <2> QED
    BY <1>5, <1>7, <2>7, <2>8, <2>9 DEF ChildrenAligned
<1> QED
  BY <1>8, <1>9

\* A cport of group i is of a protocol whose class is bundle i, or belongs to a last
\* child that no bundle describes.
Paired(b, gs, bs) ==
  /\ gs \in Seq(Seq(Names)) /\ bs \in Seq(Names) /\ Len(bs) <= Len(gs)
  /\ \A i \in 1..Len(gs) : \A j \in 1..Len(gs[i]) :
       \/ i \in 1..Len(bs) /\ ClassOf(gs[i][j]) = bs[i]
       \/ LastUnclassed(b) /\ i = Len(bs) + 1

LEMMA BuildPaired ==
  ASSUME NEW b \in AllBuilds, Compiles(b)
  PROVE  Paired(b, Groups(b), Bundles(b))
<1>1. PICK og, ob, cg, cb : /\ og = OptionGroups(b) /\ ob = OptionBundles(b)
                            /\ cg = ChildGroups(b) /\ cb = ChildClasses(b)
  OBVIOUS
<1>2. Aligned(og, ob)
  BY <1>1, OptionsAligned
<1>3. ChildrenAligned(b, cg, cb)
  BY <1>1, ChildrenFit
<1>4. PICK gs, bs : gs = og \o cg /\ bs = ob \o cb
  OBVIOUS
<1>5. Groups(b) = gs /\ Bundles(b) = bs
  BY <1>1, <1>4 DEF Groups, Bundles, OptionGroups, OptionBundles, ChildGroups, ChildClasses
<1>6. PICK h : h = Len(og)
  OBVIOUS
<1>7. h = Len(ob)
  BY <1>2, <1>6 DEF Aligned
<1>8. Joined(Seq(Names), og, cg, gs) /\ Joined(Names, ob, cb, bs)
  BY <1>2, <1>3, <1>4, ConcatJoined DEF Aligned, ChildrenAligned
<1>9. /\ gs \in Seq(Seq(Names)) /\ h \in Nat /\ Len(cg) \in Nat /\ Len(gs) = h + Len(cg)
      /\ \A i \in 1..h : gs[i] = og[i]
      /\ \A i \in 1..Len(cg) : gs[h + i] = cg[i]
  BY <1>6, <1>8 DEF Joined
<1>10. /\ bs \in Seq(Names) /\ Len(cb) \in Nat /\ Len(bs) = h + Len(cb)
       /\ \A i \in 1..h : bs[i] = ob[i]
       /\ \A i \in 1..Len(cb) : bs[h + i] = cb[i]
  BY <1>7, <1>8 DEF Joined
<1>11. ASSUME NEW i \in 1..Len(gs), NEW j \in 1..Len(gs[i])
       PROVE  \/ i \in 1..Len(bs) /\ ClassOf(gs[i][j]) = bs[i]
              \/ LastUnclassed(b) /\ i = Len(bs) + 1
  <2>1. CASE i \in 1..h
    <3>1. ClassOf(gs[i][j]) = bs[i]
      <4>1. gs[i] = og[i] /\ bs[i] = ob[i] /\ i \in 1..Len(og)
        BY <1>6, <1>9, <1>10, <2>1
      <4>2. j \in 1..Len(og[i])
        BY <1>11, <4>1
      <4>3. ClassOf(og[i][j]) = ob[i]
        BY <1>2, <4>1, <4>2 DEF Aligned
      <4> QED
        BY <4>1, <4>3
    <3>2. i \in 1..Len(bs)
      BY <1>9, <1>10, <2>1
    <3> QED
      BY <3>1, <3>2
  <2>2. CASE i \notin 1..h
    <3>1. PICK k \in 1..Len(cg) : i = h + k
      <4>1. i - h \in 1..Len(cg) /\ i = h + (i - h)
        BY <1>9, <2>2
      <4> QED
        BY <4>1
    <3>2. gs[i] = cg[k]
      BY <1>9, <3>1
    <3>3. \/ k \in 1..Len(cb) /\ ClassOf(cg[k][j]) = cb[k]
          \/ LastUnclassed(b) /\ k = Len(cb) + 1
      BY <1>3, <1>11, <3>1, <3>2 DEF ChildrenAligned
    <3>4. k \in 1..Len(cb) => i \in 1..Len(bs) /\ bs[i] = cb[k]
      BY <1>9, <1>10, <3>1
    <3>5. k = Len(cb) + 1 => i = Len(bs) + 1
      BY <1>9, <1>10, <3>1
    <3> QED
      BY <3>2, <3>3, <3>4, <3>5
  <2> QED
    BY <2>1, <2>2
<1>12. Len(bs) <= Len(gs)
  <2>1. Len(cb) <= Len(cg)
    BY <1>3 DEF ChildrenAligned
  <2> QED
    BY <1>9, <1>10, <2>1
<1> QED
  BY <1>5, <1>9, <1>10, <1>11, <1>12 DEF Paired

\* The entries of cports[] that bundles[] fits, or whose bundle nothing describes.
Entries(b, bs) ==
  {c \in [protocol : Names, bundle : Nat] :
     \/ c.bundle + 1 \in 1..Len(bs) /\ ClassOf(c.protocol) = bs[c.bundle + 1]
     \/ LastUnclassed(b) /\ c.bundle = Len(bs)}

LEMMA U8Is ==
  ASSUME NEW n \in Nat, n < 256
  PROVE  U8(n) = n
BY DEF U8

LEMMA CportsFit ==
  ASSUME NEW b \in AllBuilds, Compiles(b), Numbered(b)
  PROVE  /\ Bundles(b) \in Seq(Names) /\ Len(Bundles(b)) <= 256
         /\ Cports(b) \in Seq(Entries(b, Bundles(b)))
<1>1. PICK gs, bs : gs = Groups(b) /\ bs = Bundles(b)
  OBVIOUS
<1>2. Paired(b, gs, bs)
  BY <1>1, BuildPaired
<1>3. PICK n : n = Len(gs)
  OBVIOUS
<1>4. /\ gs \in Seq(Seq(Names)) /\ bs \in Seq(Names) /\ n \in Nat /\ DOMAIN gs = 1..n
      /\ Len(bs) <= n
  BY <1>2, <1>3 DEF Paired
<1>5. n <= 256
  BY <1>1, <1>3 DEF Numbered
<1>6. PICK T : T = Entries(b, bs)
  OBVIOUS
<1>7. PICK rows : rows = [i \in 1..n |-> [j \in DOMAIN gs[i] |->
                                   [protocol |-> gs[i][j], bundle |-> U8(i - 1)]]]
  OBVIOUS
<1>8. ASSUME NEW i \in 1..n
      PROVE  rows[i] \in Seq(T)
  <2>1. PICK g, m : g = gs[i] /\ m = Len(g)
    OBVIOUS
  <2>2. g \in Seq(Names) /\ m \in Nat /\ DOMAIN g = 1..m
    BY <1>3, <1>4, <2>1
  <2>3. rows[i] = [j \in 1..m |-> [protocol |-> g[j], bundle |-> U8(i - 1)]]
    BY <1>7, <2>1, <2>2
  <2>4. ASSUME NEW j \in 1..m
        PROVE  [protocol |-> g[j], bundle |-> U8(i - 1)] \in T
    <3>1. g[j] \in Names
      BY <2>1, <2>2
    <3>2. \/ i \in 1..Len(bs) /\ ClassOf(g[j]) = bs[i]
          \/ LastUnclassed(b) /\ i = Len(bs) + 1
      BY <1>2, <1>3, <2>1, <2>4 DEF Paired
    <3>3. PICK k \in Nat : k = U8(i - 1) /\ i = k + 1
      <4>1. i - 1 \in Nat /\ i - 1 < 256 /\ i = (i - 1) + 1
        BY <1>4, <1>5
      <4> QED
        BY <4>1, U8Is
    <3>4. PICK l : l = Len(bs)
      OBVIOUS
    <3>5. l \in Nat
      BY <1>4, <3>4
    <3>6. i = l + 1 => k = l
      <4>1. i = k + 1 /\ k \in Nat
        BY <3>3
      <4>2. k + 1 = l + 1 => k = l
        BY <3>5, <4>1
      <4> QED
        BY <4>1, <4>2
    <3>7. [protocol |-> g[j], bundle |-> k] \in [protocol : Names, bundle : Nat]
      BY <3>1, <3>3
    <3>8. \/ k + 1 \in 1..Len(bs) /\ ClassOf(g[j]) = bs[k + 1]
          \/ LastUnclassed(b) /\ k = Len(bs)
      BY <3>2, <3>3, <3>4, <3>6
    <3> QED
      BY <1>6, <3>3, <3>7, <3>8 DEF Entries
  <2> QED
    BY <2>2, <2>3, <2>4
<1>9. rows \in Seq(Seq(T))
  BY <1>4, <1>7, <1>8
<1>10. Cports(b) = FlattenSeq(rows)
  BY <1>1, <1>4, <1>7 DEF Cports
<1>11. FlattenSeq(rows) \in Seq(T)
  BY <1>9, FlattenType
<1>12. Len(bs) <= 256
  BY <1>4, <1>5
<1> QED
  BY <1>1, <1>4, <1>6, <1>10, <1>11, <1>12

\* The three parts of a manifest.
Heading == <<[type |-> "interface"], [type |-> "string", id |-> "vendor"],
             [type |-> "string", id |-> "product"]>>
BundleOf(bs, i) == [type |-> "bundle", id |-> U8(i - 1), class |-> bs[i]]
CportOf(cs, i) ==
  [type |-> "cport", id |-> U8(i - 1), bundle |-> cs[i].bundle, protocol |-> cs[i].protocol]

IsManifest(m, bs, cs) ==
  /\ DOMAIN m = 1..3 + Len(bs) + Len(cs)
  /\ \A i \in 1..3 : m[i].type # "cport"
  /\ \A i \in 1..Len(bs) : m[3 + i] = BundleOf(bs, i)
  /\ \A i \in 1..Len(cs) : m[3 + Len(bs) + i] = CportOf(cs, i)

LEMMA CreatedIs ==
  ASSUME NEW b \in AllBuilds, Compiles(b), Numbered(b)
  PROVE  IsManifest(ManifestCreate(b), Bundles(b), Cports(b))
<1>1. PICK bs, cs, m : bs = Bundles(b) /\ cs = Cports(b) /\ m = ManifestCreate(b)
  OBVIOUS
<1>2. PICK nb, nc : nb = Len(bs) /\ nc = Len(cs)
  OBVIOUS
<1>3. nb \in Nat /\ nc \in Nat /\ DOMAIN bs = 1..nb /\ DOMAIN cs = 1..nc
  <2>1. bs \in Seq(Names) /\ cs \in Seq(Entries(b, bs))
    BY <1>1, CportsFit
  <2> QED
    BY <1>2, <2>1
<1>4. PICK x, y, z : /\ x = Heading /\ y = [i \in 1..nb |-> BundleOf(bs, i)]
                     /\ z = [i \in 1..nc |-> CportOf(cs, i)]
  OBVIOUS
<1>5. m = x \o y \o z
  BY <1>1, <1>3, <1>4 DEF ManifestCreate, Heading, BundleOf, CportOf
<1>6. PICK T : T = {x[i] : i \in 1..3} \cup {y[i] : i \in 1..nb} \cup {z[i] : i \in 1..nc}
  OBVIOUS
<1>7. PICK r1, r2, r3 : /\ r1 = [type |-> "interface"]
                        /\ r2 = [type |-> "string", id |-> "vendor"]
                        /\ r3 = [type |-> "string", id |-> "product"]
  OBVIOUS
<1>8. r1.type # "cport" /\ r2.type # "cport" /\ r3.type # "cport"
  BY <1>7
<1>9. x = <<r1, r2, r3>>
  BY <1>4, <1>7 DEF Heading
<1>10. Len(x) = 3 /\ x[1] = r1 /\ x[2] = r2 /\ x[3] = r3 /\ x = [i \in 1..3 |-> x[i]]
  BY <1>9
<1>11. x \in Seq(T)
  BY <1>6, <1>10
<1>12. y \in Seq(T) /\ Len(y) = nb /\ \A i \in 1..nb : y[i] = BundleOf(bs, i)
  BY <1>3, <1>4, <1>6
<1>13. z \in Seq(T) /\ Len(z) = nc /\ \A i \in 1..nc : z[i] = CportOf(cs, i)
  BY <1>3, <1>4, <1>6
<1>14. PICK w : w = x \o y
  OBVIOUS
<1>15. Joined(T, x, y, w)
  BY <1>11, <1>12, <1>14, ConcatJoined
<1>16. /\ w \in Seq(T) /\ Len(w) = 3 + nb
       /\ \A i \in 1..3 : w[i] = x[i]
       /\ \A i \in 1..nb : w[3 + i] = BundleOf(bs, i)
  BY <1>10, <1>12, <1>15 DEF Joined
<1>17. Joined(T, w, z, m)
  BY <1>5, <1>13, <1>14, <1>16, ConcatJoined
<1>18. /\ m \in Seq(T) /\ Len(m) = 3 + nb + nc
       /\ \A i \in 1..3 + nb : m[i] = w[i]
       /\ \A i \in 1..nc : m[3 + nb + i] = CportOf(cs, i)
  BY <1>13, <1>16, <1>17 DEF Joined
<1>19. DOMAIN m = 1..3 + nb + nc
  BY <1>18
<1>20. ASSUME NEW i \in 1..3
       PROVE  m[i].type # "cport"
  <2>1. i \in 1..3 + nb
    BY <1>3
  <2>2. m[i] = x[i]
    BY <1>16, <1>18, <2>1
  <2>3. i = 1 \/ i = 2 \/ i = 3
    OBVIOUS
  <2> QED
    BY <1>8, <1>10, <2>2, <2>3
<1>21. ASSUME NEW i \in 1..nb
       PROVE  m[3 + i] = BundleOf(bs, i)
  <2>1. 3 + i \in 1..3 + nb
    BY <1>3
  <2> QED
    BY <1>16, <1>18, <2>1
<1> QED
  BY <1>1, <1>2, <1>18, <1>19, <1>20, <1>21 DEF IsManifest

\* The manifest of a build that compiles describes it, if its numbers do not wrap.
LEMMA MatchesCreated ==
  ASSUME NEW b \in AllBuilds, Compiles(b), Numbered(b)
  PROVE  Matches(ManifestCreate(b), b)
<1>1. PICK bs, cs, m : bs = Bundles(b) /\ cs = Cports(b) /\ m = ManifestCreate(b)
  OBVIOUS
<1>2. PICK nb, nc : nb = Len(bs) /\ nc = Len(cs)
  OBVIOUS
<1>3. bs \in Seq(Names) /\ nb <= 256 /\ cs \in Seq(Entries(b, bs)) /\ nc <= 256
  BY <1>1, <1>2, CportsFit DEF Numbered
<1>4. nb \in Nat /\ nc \in Nat /\ DOMAIN bs = 1..nb /\ DOMAIN cs = 1..nc
  BY <1>2, <1>3
<1>5. \A k \in Nat : k < 256 => U8(k) = k
  BY U8Is
<1>6. IsManifest(m, bs, cs)
  BY <1>1, CreatedIs
<1>7. /\ DOMAIN m = 1..3 + nb + nc
      /\ \A i \in 1..3 : m[i].type # "cport"
      /\ \A i \in 1..nb : m[3 + i] = BundleOf(bs, i)
      /\ \A i \in 1..nc : m[3 + nb + i] = CportOf(cs, i)
  BY <1>2, <1>6 DEF IsManifest
<1>8. PICK o \in Nat : o = 3 + nb
  BY <1>4
<1>9. PICK places : places = {i \in DOMAIN m : m[i].type = "cport"}
  OBVIOUS
<1>10. places = o + 1..o + nc
  <2>1. ASSUME NEW i \in DOMAIN m
        PROVE  m[i].type = "cport" <=> i \in o + 1..o + nc
    <3>1. CASE i \in 1..3
      <4>1. i \notin o + 1..o + nc
        BY <1>4, <1>8, <3>1
      <4> QED
        BY <1>7, <3>1, <4>1
    <3>2. CASE i \in 4..o
      <4>1. PICK k \in 1..nb : i = 3 + k
        <5>1. i - 3 \in 1..nb /\ i = 3 + (i - 3)
          BY <1>4, <1>8, <3>2
        <5> QED
          BY <5>1
      <4>2. m[i] = BundleOf(bs, k)
        BY <1>7, <4>1
      <4>3. m[i].type = "bundle"
        BY <4>2 DEF BundleOf
      <4>4. i \notin o + 1..o + nc
        BY <1>4, <1>8, <3>2
      <4> QED
        BY <4>3, <4>4
    <3>3. CASE i \in o + 1..o + nc
      <4>1. PICK k \in 1..nc : i = o + k
        <5>1. i - o \in 1..nc /\ i = o + (i - o)
          BY <1>4, <1>8, <3>3
        <5> QED
          BY <5>1
      <4>2. m[i] = CportOf(cs, k)
        BY <1>7, <1>8, <4>1
      <4> QED
        BY <3>3, <4>2 DEF CportOf
    <3> QED
      BY <1>4, <1>7, <1>8, <3>1, <3>2, <3>3
  <2>2. o + 1..o + nc \subseteq DOMAIN m
    BY <1>4, <1>7, <1>8
  <2> QED
    BY <1>9, <2>1, <2>2
<1>11. Cardinality(places) = nc
  <2>1. o + 1 \in Int /\ o + nc \in Int
    BY <1>4
  <2>2. Cardinality(o + 1..o + nc) = IF o + 1 > o + nc THEN 0 ELSE (o + nc) - (o + 1) + 1
    BY <2>1, FS_Interval
  <2> QED
    BY <1>4, <1>10, <2>2
<1>12. ASSUME NEW i \in places
       PROVE  \E k \in 1..nc : i = o + k /\ m[i] = CportOf(cs, k) /\ m[i].id + 1 = k
  <2>1. PICK k \in 1..nc : i = o + k
    <3>1. i - o \in 1..nc /\ i = o + (i - o)
      BY <1>4, <1>10
    <3> QED
      BY <3>1
  <2>2. m[i] = CportOf(cs, k)
    BY <1>7, <1>8, <2>1
  <2>3. m[i].id = U8(k - 1)
    BY <2>2 DEF CportOf
  <2>4. k - 1 \in Nat /\ k - 1 < 256 /\ (k - 1) + 1 = k
    BY <1>3, <1>4
  <2> QED
    BY <1>5, <2>1, <2>2, <2>3, <2>4
<1>13. {m[i].id + 1 : i \in places} = 1..nc
  <2>1. ASSUME NEW k \in 1..nc
        PROVE  \E i \in places : m[i].id + 1 = k
    <3>1. o + k \in places
      BY <1>4, <1>10
    <3>2. PICK l \in 1..nc : o + k = o + l /\ m[o + k].id + 1 = l
      BY <1>12, <3>1
    <3>3. l = k
      BY <3>2
    <3> QED
      BY <3>1, <3>2, <3>3
  <2> QED
    BY <1>12, <2>1
<1>14. ASSUME NEW i \in places, NEW d, d = m[i]
       PROVE  /\ cs[d.id + 1].protocol = d.protocol
              /\ Described(m, d) \/ Orphan(b, d)
  <2>1. PICK k \in 1..nc : m[i] = CportOf(cs, k) /\ m[i].id + 1 = k
    BY <1>12
  <2>2. d.bundle = cs[k].bundle /\ d.protocol = cs[k].protocol /\ d.id + 1 = k
    BY <1>14, <2>1 DEF CportOf
  <2>3. cs[k] \in Entries(b, bs)
    BY <1>2, <1>3
  <2>4. CASE d.bundle + 1 \in 1..nb /\ ClassOf(d.protocol) = bs[d.bundle + 1]
    <3>1. PICK l : l = d.bundle + 1
      OBVIOUS
    <3>2. d.bundle \in Nat /\ l - 1 = d.bundle /\ l \in 1..nb
      BY <2>2, <2>3, <2>4, <3>1 DEF Entries
    <3>3. m[3 + l] = BundleOf(bs, l)
      BY <1>7, <3>2
    <3>4. U8(l - 1) = d.bundle
      <4>1. d.bundle < 256
        BY <1>3, <1>4, <3>1, <3>2
      <4> QED
        BY <1>5, <3>2, <4>1
    <3>5. m[3 + l].type = "bundle" /\ m[3 + l].id = d.bundle
          /\ m[3 + l].class = ClassOf(d.protocol)
      BY <2>4, <3>1, <3>3, <3>4 DEF BundleOf
    <3>6. 3 + l \in DOMAIN m
      BY <1>4, <1>7, <3>2
    <3>7. m[3 + l] \in Range(m)
      BY <3>6 DEF Range
    <3> QED
      BY <2>2, <3>5, <3>7 DEF Described
  <2>5. CASE LastUnclassed(b) /\ d.bundle = nb
    BY <1>1, <1>2, <2>2, <2>5 DEF LastUnclassed, Orphan
  <2>6. \/ d.bundle + 1 \in 1..nb /\ ClassOf(d.protocol) = bs[d.bundle + 1]
        \/ LastUnclassed(b) /\ d.bundle = nb
    BY <1>2, <2>2, <2>3 DEF Entries
  <2> QED
    BY <2>2, <2>4, <2>5, <2>6
<1> QED
  <2>1. /\ Cardinality(places) = Len(cs)
        /\ {m[i].id + 1 : i \in places} = DOMAIN cs
    BY <1>2, <1>4, <1>11, <1>13
  <2> QED
    BY <1>1, <1>9, <1>14, <2>1 DEF Matches

-----------------------------------------------------------------------------
(* The manifest that the AP gets                                           *)

SentManifest == last.what = "get_manifest" => last.data = ManifestCreate(build)

\* What a handler leaves behind is seen under another name.
LEMMA OthersSeen ==
  ASSUME NEW what \in {"none", "request", "response", "exit", "interrupt", "call"}, NEW o
  PROVE  Seen(what, o).what # "get_manifest"
BY DEF Seen

LEMMA SentManifestStep ==
  ASSUME SentManifest, [Next]_vars
  PROVE  SentManifest' /\ build' = build
<1>1. CASE UNCHANGED vars
  BY <1>1 DEF vars, SentManifest
<1>2. ASSUME Request \/ Response \/ Ping \/ Control \/ Connected \/ Disconnected
             \/ Interrupt \/ Call
      PROVE  build' = build /\ last'.what # "get_manifest"
  <2>1. CASE Request
    <3>1. PICK o : build' = build /\ last' = Seen("request", o)
      BY <2>1 DEF Request
    <3> QED
      BY <3>1, OthersSeen
  <2>2. CASE Response
    <3>1. PICK o : build' = build /\ last' = Seen("response", o)
      BY <2>2 DEF Response
    <3> QED
      BY <3>1, OthersSeen
  <2>3. CASE Ping
    BY <2>3, OthersSeen DEF Ping
  <2>4. CASE Control
    <3>1. PICK o : build' = build /\ last' = Seen("request", o)
      BY <2>4 DEF Control
    <3> QED
      BY <3>1, OthersSeen
  <2>5. CASE Connected
    BY <2>5, OthersSeen DEF Connected
  <2>6. CASE Disconnected
    <3>1. PICK o, p : /\ build' = build
                      /\ last' = IF Legacies THEN Seen("exit", o) ELSE Seen("request", p)
      BY <2>6 DEF Disconnected
    <3> QED
      BY <3>1, OthersSeen
  <2>7. CASE Interrupt
    <3>1. PICK o : build' = build /\ last' = Seen("interrupt", o)
      BY <2>7 DEF Interrupt
    <3> QED
      BY <3>1, OthersSeen
  <2>8. CASE Call
    <3>1. PICK o : build' = build /\ last' = Seen("call", o)
      BY <2>8 DEF Call
    <3> QED
      BY <3>1, OthersSeen
  <2> QED
    BY <1>2, <2>1, <2>2, <2>3, <2>4, <2>5, <2>6, <2>7, <2>8
<1>3. CASE GetManifest
  <2>1. build' = build /\ last'.data = ManifestCreate(build)
    BY <1>3 DEF GetManifest, Seen
  <2> QED
    BY <2>1 DEF SentManifest
<1> QED
  BY <1>1, <1>2, <1>3 DEF Next, SentManifest

\* Whatever the options and the devicetree, as long as the build compiles and eight bits
\* number its cports and bundles: the manifest that the AP reads names every entry of
\* cports[] (greybus_cport.c) once, under its number and its protocol, and the bundle
\* of each is described with the class the AP looks for (manifest.c), but for a last
\* bundle that has no class.
THEOREM ManifestDescribes == Spec => []ManifestMatches
<1> DEFINE MInv == build \in Builds /\ SentManifest
<1>1. Init => MInv
  BY OthersSeen DEF Init, SentManifest
<1>2. MInv /\ [Next]_vars => MInv'
  BY SentManifestStep
<1>3. MInv => ManifestMatches
  <2> SUFFICES ASSUME MInv, last.what = "get_manifest", Numbered(build)
               PROVE  Matches(last.data, build)
    BY DEF ManifestMatches
  <2>1. build \in AllBuilds /\ Compiles(build)
    BY NodeAssumption
  <2>2. Matches(ManifestCreate(build), build)
    BY <2>1, MatchesCreated
  <2> QED
    BY <2>2 DEF SentManifest
<1> QED
  BY <1>1, <1>2, <1>3, PTL DEF Spec
=============================================================================
