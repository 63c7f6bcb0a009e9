------------------------------- MODULE Lights -------------------------------
(***************************************************************************)
(* The lights driver (lights.c) with one LED, light 0, and one LED strip,  *)
(* light 1.  data is what the driver has stored for each channel of the    *)
(* strip; every change writes the whole strip.                             *)
(*                                                                         *)
(* Light and channel ids are not checked by the code: the AP takes them    *)
(* from the configuration it has read.                                     *)
(***************************************************************************)
EXTENDS Operations

CONSTANTS
  StripChannels, \* 0..led_strip_length-1
  Levels         \* of brightness or of a colour; 0 is dark

\* r * brightness / LED_STRIP_MAX_BRIGHTNESS: nothing is shown without either.
Shown(c) == IF c.level = 0 \/ c.rgb = 0 THEN <<0, 0>> ELSE <<c.rgb, c.level>>
Dark == [rgb |-> 0, level |-> 0]

\* The LED is as the last command left it.
LightsInit ==
  [led |-> <<"set_brightness", 0>>, data |-> [c \in StripChannels |-> Dark],
   strip |-> [c \in StripChannels |-> Shown(Dark)]]
LightsStates ==
  [led : {"set_brightness", "set_blink"} \X Levels,
   data : [StripChannels -> [rgb : Levels, level : Levels]],
   strip : [StripChannels -> Levels \X Levels]]

LightsRequests ==
  [type : {"get_lights", "get_light_config", "get_channel_config", "set_fade",
           "get_channel_flash_config", "set_flash_intensity", "set_flash_strobe",
           "set_flash_timeout", "get_flash_fault", "unknown"}] \cup
  [type : {"set_brightness", "set_blink", "set_color"}, light : {0}, value : Levels] \cup
  [type : {"set_brightness", "set_blink", "set_color"}, light : {1},
   channel : StripChannels, value : Levels]

\* gb_lights_led_strip_update: the strip shows everything that is stored, or,
\* without memory or when the device fails, what it showed before.
StripUpdate(t) ==
  Configured(t, [t EXCEPT !.strip = [c \in StripChannels |-> Shown(t.data[c])]], Failure)

Led(s, r) == Configured(s, [s EXCEPT !.led = <<r.type, r.value>>], Failure)

SetBrightness(s, r) ==
  IF r.light = 0 THEN Led(s, r)
  ELSE StripUpdate([s EXCEPT !.data[r.channel].level = r.value])
SetBlink(s, r) == IF r.light = 0 THEN Led(s, r) ELSE Unchanged(s, Invalid)
SetColor(s, r) ==
  IF r.light = 0 THEN Unchanged(s, Invalid)
  ELSE StripUpdate([s EXCEPT !.data[r.channel].rgb = r.value])

LightsHandle(s, r) ==
  CASE r.type \in {"get_lights", "get_light_config", "get_channel_config"} ->
         Unchanged(s, Ok)
    [] r.type = "set_brightness" -> SetBrightness(s, r)
    [] r.type = "set_blink" -> SetBlink(s, r)
    [] r.type = "set_color" -> SetColor(s, r)
    [] r.type = "unknown" -> Unchanged(s, ProtocolBad)
    [] OTHER -> Unchanged(s, Internal)

\* A request of the strip sets the colour or the brightness of a channel.
SetFeature(r) == <<IF r.type = "set_color" THEN "rgb" ELSE "level", r.channel>>
OtherFeature(r) == <<IF r.type = "set_color" THEN "level" ELSE "rgb", r.channel>>
ShownWith(r, other) ==
  Shown(IF r.type = "set_color" THEN [rgb |-> r.value, level |-> other]
        ELSE [rgb |-> other, level |-> r.value])

\* A channel shows the colour and the brightness that were set last, whatever
\* failed for other channels in between.  What a failed request set is stored and
\* comes with the next update.
LightsAsked(asked, r) ==
  IF r.type \notin {"set_brightness", "set_blink", "set_color"} THEN NoSettings
  ELSE IF r.light = 0 THEN Only(<<"led", 0>>, <<r.type, r.value>>)
  ELSE Over(Only(SetFeature(r), r.value),
            IF OtherFeature(r) \notin DOMAIN asked THEN NoSettings
            ELSE Only(<<"strip", r.channel>>, ShownWith(r, asked[OtherFeature(r)])))
LightsDisturbs(r) ==
  IF r.type \in {"set_brightness", "set_color"} /\ r.light = 1
  THEN {<<"strip", r.channel>>, SetFeature(r)}
  ELSE {}
LightsShows(s) ==
  Over(Only(<<"led", 0>>, s.led),
       [f \in {"rgb", "level", "strip"} \X StripChannels |->
          CASE f[1] = "rgb" -> s.data[f[2]].rgb
            [] f[1] = "level" -> s.data[f[2]].level
            [] f[1] = "strip" -> s.strip[f[2]]])
=============================================================================
