-------------------------------- MODULE Gpio --------------------------------
(***************************************************************************)
(* The GPIO driver (gpio.c) and the pins of its controller: the direction  *)
(* and the interrupt of each, and whether the callback is armed.           *)
(***************************************************************************)
EXTENDS Operations

CONSTANT Pins   \* 0..ngpios-1

\* The last one stands for every pin out of range and every short message.
Which == Pins \cup {Cardinality(Pins)}
\* "other" is the falling edge, both edges, or a level.
Types == {"none", "rising", "other"}

GpioInit ==
  [dir |-> [p \in Pins |-> "off"], irq |-> [p \in Pins |-> "none"], armed |-> FALSE]
GpioStates ==
  [dir : [Pins -> {"off", "in", "out"}], irq : [Pins -> Types], armed : BOOLEAN]

GpioRequests ==
  [type : {"line_count", "unknown"}] \cup
  [type : {"activate", "deactivate", "get_direction", "get_value", "direction_in",
           "direction_out", "set_value", "irq_mask", "irq_unmask"}, which : Which] \cup
  [type : {"set_debounce"}, which : Which, usec : {0, 1}] \cup
  [type : {"irq_type"}, which : Which, irq : Types \cup {"unknown"}]

SetIrq(s, p, type) == Configured(s, [s EXCEPT !.irq[p] = type], Failure)
DirectionIn(s, p) == Configured(s, [s EXCEPT !.dir[p] = "in"], Failure)

\* Mutant: the result of the configuration is not looked at.
DirectionOutUnchecked(s, p) ==
  {<<s, Reply(Ok)>>, <<[s EXCEPT !.dir[p] = "out"], Reply(Ok)>>}

\* The pin is an output already when its value cannot be set.
DirectionOut(s, p) ==
  Configured(s, [s EXCEPT !.dir[p] = "out"], Failure)
    \cup {<<[s EXCEPT !.dir[p] = "out"], Reply(Failure)>>}

\* The time is not passed on: the pin is configured without any flags,
\* GPIO_DISCONNECTED, unless the time is 0.
SetDebounce(s, p, usec) ==
  IF usec = 0 THEN Unchanged(s, Ok) ELSE Configured(s, [s EXCEPT !.dir[p] = "off"], Failure)

\* Whatever its type was, an unmasked interrupt comes with the rising edge.
GpioHandle(s, r) ==
  CASE r.type = "line_count" -> Unchanged(s, Ok)
    [] r.type = "unknown" -> Unchanged(s, Invalid)
    [] OTHER ->
       IF r.which \notin Pins THEN Unchanged(s, Invalid) ELSE
       CASE r.type = "direction_in" -> DirectionIn(s, r.which)
         [] r.type = "direction_out" -> DirectionOut(s, r.which)
         [] r.type = "set_value" -> Configured(s, s, Failure)
         [] r.type = "set_debounce" -> SetDebounce(s, r.which, r.usec)
         [] r.type = "irq_mask" -> SetIrq(s, r.which, "none")
         [] r.type = "irq_unmask" -> SetIrq(s, r.which, "rising")
         [] r.type = "irq_type" ->
              IF r.irq = "unknown" THEN Unchanged(s, Invalid) ELSE SetIrq(s, r.which, r.irq)
         [] OTHER -> Unchanged(s, Ok)

GpioConnected(s) == [s EXCEPT !.armed = TRUE]
GpioDisconnected(s) == [s EXCEPT !.armed = FALSE]

\* gpio_callback_handler: a message for every pin whose interrupt has come.
GpioInterrupts(s) ==
  {<<s, Event([i \in 1..Cardinality(pins) |-> "irq_event"], 0)>> :
     pins \in IF s.armed THEN (SUBSET {p \in Pins : s.irq[p] # "none"}) \ {{}} ELSE {}}

\* What a request sets when it succeeds, and what is open when it fails.
GpioSettings(r) ==
  CASE r.type = "direction_in" -> Only(<<"dir", r.which>>, "in")
    [] r.type = "direction_out" -> Only(<<"dir", r.which>>, "out")
    [] r.type = "set_debounce" /\ r.usec > 0 -> Only(<<"dir", r.which>>, "off")
    [] r.type = "irq_mask" -> Only(<<"irq", r.which>>, "none")
    [] r.type = "irq_unmask" -> Only(<<"irq", r.which>>, "rising")
    [] r.type = "irq_type" -> Only(<<"irq", r.which>>, r.irq)
    [] OTHER -> NoSettings
GpioDisturbs(r) == IF r.type = "direction_out" THEN {<<"dir", r.which>>} ELSE {}
GpioShows(s) ==
  [f \in {"dir", "irq"} \X Pins |-> IF f[1] = "dir" THEN s.dir[f[2]] ELSE s.irq[f[2]]]
=============================================================================
