--------------------------------- MODULE Pwm ---------------------------------
(***************************************************************************)
(* The PWM driver (pwm-protocol.c), which stores the configuration of each *)
(* channel until the channel is enabled, and the vibrator (vibrator.c).    *)
(***************************************************************************)
EXTENDS Operations

CONSTANTS
  Channels, \* 0..channel_num-1
  Duties    \* pairs of a duty and a period

Setting(duty, inverted) == [duty |-> duty, inverted |-> inverted]
Off == Setting("off", FALSE)
PwmSettingsOf == [duty : Duties \cup {"zero"}, inverted : BOOLEAN]

PwmInit ==
  [data |-> [c \in Channels |-> Setting("zero", FALSE)], out |-> [c \in Channels |-> Off]]
PwmStates == [data : [Channels -> PwmSettingsOf], out : [Channels -> PwmSettingsOf \cup {Off}]]

\* The last channel is out of range.
PwmRequests ==
  [type : {"count", "activate", "deactivate", "unknown"}] \cup
  [type : {"enable", "disable"}, which : Channels \cup {Cardinality(Channels)}] \cup
  [type : {"config"}, which : Channels \cup {Cardinality(Channels)}, duty : Duties] \cup
  [type : {"polarity"}, which : Channels \cup {Cardinality(Channels)}, inverted : BOOLEAN]

PwmEnable(s, c) == Configured(s, [s EXCEPT !.out[c] = s.data[c]], Failure)

PwmPolarity(s, c, inverted) == {<<[s EXCEPT !.data[c].inverted = inverted], Reply(Ok)>>}

PwmHandle(s, r) ==
  CASE r.type = "unknown" -> Unchanged(s, ProtocolBad)
    [] r.type \in {"count", "activate", "deactivate"} -> Unchanged(s, Ok)
    [] OTHER ->
       IF r.which \notin Channels THEN Unchanged(s, Invalid) ELSE
       CASE r.type = "config" -> {<<[s EXCEPT !.data[r.which].duty = r.duty], Reply(Ok)>>}
         [] r.type = "polarity" -> PwmPolarity(s, r.which, r.inverted)
         [] r.type = "enable" -> PwmEnable(s, r.which)
         [] r.type = "disable" -> Configured(s, [s EXCEPT !.out[r.which] = Off], Failure)

\* A channel is to run as it was configured when it was enabled: asked is what was
\* asked before.
PwmAsked(asked, r) ==
  CASE r.type = "config" -> Only(<<"duty", r.which>>, r.duty)
    [] r.type = "polarity" -> Only(<<"inverted", r.which>>, r.inverted)
    [] r.type = "disable" -> Only(<<"out", r.which>>, Off)
    [] r.type = "enable" ->
         Only(<<"out", r.which>>, Setting(asked[<<"duty", r.which>>],
                                          asked[<<"inverted", r.which>>]))
    [] OTHER -> NoSettings
PwmShows(s) ==
  [f \in {"duty", "inverted", "out"} \X Channels |->
     CASE f[1] = "duty" -> s.data[f[2]].duty
       [] f[1] = "inverted" -> s.data[f[2]].inverted
       [] f[1] = "out" -> s.out[f[2]]]

-----------------------------------------------------------------------------
(* The vibrator: is the motor on?                                          *)

VibratorRequests == [type : {"on", "off", "unknown"}]

VibratorHandle(s, r) ==
  IF r.type = "unknown" THEN Unchanged(s, Invalid) ELSE Configured(s, r.type, Failure)

VibratorSettings(r) == Only(<<"motor", 0>>, r.type)
VibratorShows(s) == Only(<<"motor", 0>>, s)
=============================================================================
