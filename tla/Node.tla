-------------------------------- MODULE Node --------------------------------
(***************************************************************************)
(* A node: the control driver (control-gpb.c), the core that hands         *)
(* messages to drivers and tells them of connections (greybus-core.c), and *)
(* one of its cports with the driver and the device behind it, whichever   *)
(* it is.                                                                  *)
(*                                                                         *)
(* Handlers run to completion on the worker.  Interrupts and threads of    *)
(* the application come between them.                                      *)
(***************************************************************************)
EXTENDS Manifest, Gpio, Audio, Pwm, Lights, Buses, UartPort, Raw, Legacy

CONSTANT Builds   \* builds as in Manifest

ASSUME NodeAssumption ==
  /\ \A b \in Builds : b \in AllBuilds /\ Compiles(b)
  /\ Pins = 0..Cardinality(Pins) - 1
  /\ Channels = 0..Cardinality(Channels) - 1
  /\ Slots \in Nat /\ MaxOps \in Nat /\ MaxData \in Nat
  /\ 0 \in Levels /\ "NULL" \notin Threads

VARIABLES
  build,
  protocol,  \* of the cport that is looked at
  connected, \* has the AP connected the cport?
  drv,       \* what the driver and its device keep
  asked,     \* what the AP has been told that the device does
  last       \* the last message or event and what was done with it

vars == <<build, protocol, connected, drv, asked, last>>

Modelled == {"gpio", "audio", "pwm", "vibrator", "lights", "i2c", "spi", "uart", "raw",
             "log", "loopback"}
Legacies == protocol \in LegacyDrivers

-----------------------------------------------------------------------------
(* struct gb_driver, by protocol                                           *)

DriverInit(p) ==
  CASE p = "gpio" -> GpioInit
    [] p = "audio" -> AudioInit
    [] p = "pwm" -> PwmInit
    [] p = "vibrator" -> "off"
    [] p = "lights" -> LightsInit
    [] p = "uart" -> UartInit
    [] p = "raw" -> RawInit
    [] p \in LegacyDrivers -> LegacyInit
    [] OTHER -> <<>>

Requests ==
  CASE protocol = "gpio" -> GpioRequests
    [] protocol = "audio" -> AudioRequests
    [] protocol = "pwm" -> PwmRequests
    [] protocol = "vibrator" -> VibratorRequests
    [] protocol = "lights" -> LightsRequests
    [] protocol = "i2c" -> I2cRequests
    [] protocol = "spi" -> SpiRequests
    [] protocol = "uart" -> UartRequests
    [] protocol = "raw" -> RawRequests
    [] protocol = "log" -> LogRequests
    [] protocol = "loopback" -> LoopbackRequests
    [] Legacies -> IF drv.open THEN LegacyRequests(protocol) ELSE {}

\* Answers to what the node has sent on its own.  audio.c knows none of them.
Responses ==
  CASE protocol = "raw" -> RawResponses(drv)
    [] protocol = "log" -> LogResponses
    [] protocol = "audio" -> [type : {"unknown"}]
    [] OTHER -> {}

\* op_handler
Handle(r) ==
  CASE protocol = "gpio" -> GpioHandle(drv, r)
    [] protocol = "audio" -> AudioHandle(drv, r)
    [] protocol = "pwm" -> PwmHandle(drv, r)
    [] protocol = "vibrator" -> VibratorHandle(drv, r)
    [] protocol = "lights" -> LightsHandle(drv, r)
    [] protocol = "i2c" -> I2cHandle(drv, r)
    [] protocol = "spi" -> SpiHandle(drv, r)
    [] protocol = "uart" -> UartHandle(drv, r)
    [] protocol = "raw" -> RawHandle(drv, r)
    [] protocol = "log" -> LogHandle(drv, r)
    [] protocol = "loopback" -> LoopbackHandle(drv, r)
    [] Legacies -> LegacyHandle(drv, r, protocol)

\* connected and disconnected; init and exit of the older drivers.
Connect ==
  CASE protocol = "gpio" -> {<<GpioConnected(drv), Nothing>>}
    [] protocol = "audio" -> {<<s, Nothing>> : s \in AudioConnected(drv)}
    [] protocol = "uart" -> {<<UartConnected(drv), Nothing>>}
    [] Legacies -> LegacyOpen(drv, protocol)
    [] OTHER -> {<<drv, Nothing>>}
Disconnect ==
  CASE protocol = "gpio" -> {<<GpioDisconnected(drv), Nothing>>}
    [] protocol = "audio" -> {<<AudioDisconnected(drv), Nothing>>}
    [] protocol = "uart" -> {<<UartDisconnected(drv), Nothing>>}
    [] Legacies -> LegacyClose(drv, protocol)
    [] OTHER -> {<<drv, Nothing>>}

Interrupts ==
  CASE protocol = "gpio" -> GpioInterrupts(drv)
    [] protocol = "uart" -> UartInterrupts(drv)
    [] Legacies -> LegacyEvents(drv, protocol)
    [] OTHER -> {}

\* Calls of the application.
Calls ==
  CASE protocol = "audio" -> AudioEvents(drv)
    [] protocol = "raw" -> RawSteps(drv)
    [] protocol = "log" -> LogEvents(drv)
    [] OTHER -> {}

-----------------------------------------------------------------------------
(* What the AP may expect                                                  *)

Settings(r) ==
  CASE protocol = "gpio" -> GpioSettings(r)
    [] protocol = "audio" -> AudioSettings(r)
    [] protocol = "pwm" -> PwmAsked(asked, r)
    [] protocol = "vibrator" -> VibratorSettings(r)
    [] protocol = "lights" -> LightsAsked(asked, r)
    [] protocol = "i2c" -> I2cSettings(r)
    [] protocol = "spi" -> SpiSettings(r)
    [] protocol = "uart" -> UartSettings(r)
    [] Legacies -> LegacySettings(r)
    [] OTHER -> NoSettings
Disturbs(r) ==
  CASE protocol = "gpio" -> GpioDisturbs(r)
    [] protocol = "lights" -> LightsDisturbs(r)
    [] protocol \in {"i2c", "spi"} -> BusDisturbs(r)
    [] protocol = "uart" -> UartDisturbs(r)
    [] OTHER -> {}
Shows(p, s) ==
  CASE p = "gpio" -> GpioShows(s)
    [] p = "audio" -> AudioShows(s)
    [] p = "pwm" -> PwmShows(s)
    [] p = "vibrator" -> VibratorShows(s)
    [] p = "lights" -> LightsShows(s)
    [] p \in {"i2c", "spi"} -> BusShows(s)
    [] p = "uart" -> UartShows(s)
    [] p \in LegacyDrivers -> LegacyShows(s)
    [] OTHER -> NoSettings

But(f, features) == [x \in DOMAIN f \ features |-> f[x]]
AskedAfter(r, outcome) ==
  IF outcome.answers = <<Ok>> THEN Over(Settings(r), But(asked, Disturbs(r)))
  ELSE But(asked, Disturbs(r))

-----------------------------------------------------------------------------
Seen(what, outcome) == [what |-> what, outcome |-> outcome, data |-> <<>>]

Init ==
  /\ build \in Builds
  /\ protocol \in LegacyDrivers \cup
                  (Modelled \cap {Cports(build)[i].protocol : i \in DOMAIN Cports(build)})
  /\ connected = FALSE
  /\ drv = DriverInit(protocol)
  /\ asked = Shows(protocol, drv)
  /\ last = Seen("none", Nothing)

\* gb_process_msg of a request to the cport, connected or not.
Request ==
  \E r \in Requests : \E h \in Handle(r) :
    /\ drv' = h[1]
    /\ asked' = AskedAfter(r, h[2])
    /\ last' = Seen("request", h[2])
    /\ UNCHANGED <<build, protocol, connected>>

Response ==
  \E r \in Responses : \E h \in Handle(r) :
    /\ drv' = h[1]
    /\ last' = Seen("response", h[2])
    /\ UNCHANGED <<build, protocol, connected, asked>>

\* The core answers a ping itself, on any cport.
Ping ==
  /\ last' = Seen("request", Reply(Ok))
  /\ UNCHANGED <<build, protocol, connected, drv, asked>>

\* gb_control_handler: what it only answers.
ControlAnswers ==
  ({"version", "get_manifest_size", "disconnecting", "pm", "timesync"} \X {Ok}) \cup
  ({"short", "no such cport", "unknown"} \X {Invalid})
Control ==
  \E a \in ControlAnswers :
    /\ last' = Seen("request", Reply(a[2]))
    /\ UNCHANGED <<build, protocol, connected, drv, asked>>

GetManifest ==
  /\ last' = [Seen("get_manifest", ReplyAndKeep(Ok))
                EXCEPT !.data = ManifestCreate(build)]
  /\ UNCHANGED <<build, protocol, connected, drv, asked>>

\* gb_control_connected: neither the driver nor any transport of the tree can refuse
\* (an unknown cport is in Control).  An AP that has lost its link connects again
\* without having disconnected: gpio_init_callback and gpio_add_callback then leave
\* the callback as it was.  The older core opens once.
Connected ==
  /\ ~(Legacies /\ drv.open)
  /\ connected' = TRUE
  /\ \E h \in Connect :
       /\ drv' = h[1]
       /\ last' = Seen("request", Reply(Ok))
  /\ asked' = But(asked, {<<"length", 0>>})
  /\ UNCHANGED <<build, protocol>>

\* gb_control_disconnected, of a cport that was connected or not: nothing asks.  The
\* answer is that of gb_stop_listening for the control cport, which cannot fail here.
\* The older core closes what it has opened.
Disconnected ==
  /\ Legacies => drv.open
  /\ connected' = FALSE
  /\ \E h \in Disconnect :
       /\ drv' = h[1]
       /\ last' = IF Legacies THEN Seen("exit", h[2])
                  ELSE Seen("request", Reply(Ok))
  /\ UNCHANGED <<build, protocol, asked>>

Interrupt ==
  \E h \in Interrupts :
    /\ drv' = h[1]
    /\ last' = Seen("interrupt", h[2])
    /\ UNCHANGED <<build, protocol, connected, asked>>

Call ==
  \E h \in Calls :
    /\ drv' = h[1]
    /\ last' = Seen("call", h[2])
    /\ UNCHANGED <<build, protocol, connected, asked>>

Next ==
  \/ Request \/ Response \/ Ping \/ Control \/ GetManifest
  \/ Connected \/ Disconnected \/ Interrupt \/ Call

Spec == Init /\ [][Next]_vars

-----------------------------------------------------------------------------
DriverStates ==
  CASE protocol = "gpio" -> GpioStates
    [] protocol = "audio" -> AudioStates
    [] protocol = "pwm" -> PwmStates
    [] protocol = "vibrator" -> {"on", "off"}
    [] protocol = "lights" -> LightsStates
    [] protocol = "i2c" -> SeqsOf(Ops, MaxOps)
    [] protocol = "spi" -> SeqsOf(SUBSET Words, MaxOps)
    [] protocol = "uart" -> UartStates
    [] protocol = "raw" -> RawStates
    [] Legacies -> LegacyStates
    [] OTHER -> {<<>>}

TypeOK ==
  /\ build \in Builds /\ protocol \in Modelled \cup LegacyDrivers
  /\ connected \in BOOLEAN
  /\ drv \in DriverStates
  /\ DOMAIN asked \subseteq DOMAIN Shows(protocol, drv)
  /\ Range(last.outcome.answers) \subseteq Results \cup {NoMemory}
  /\ last.outcome.released \in Nat /\ last.outcome.kept \in Nat

\* A request is answered once and released once, whichever step of its handler
\* fails; a response is not answered; what the node sends by itself keeps no
\* memory.  The exceptions are those of the code: get_manifest and an I2C transfer
\* that succeeds keep the request (control-gpb.c:63, i2c.c:100), an audio event is
\* kept and its response taken for a request (audio.c:364, 422), and two of the
\* older drivers lose their data when they are closed.
Keeps ==
  /\ last.what = "get_manifest" \/ protocol = "i2c"
  /\ last.outcome = ReplyAndKeep(Ok)
Settled(answers) ==
  Len(last.outcome.answers) = answers /\ last.outcome.released = 1 /\ last.outcome.kept = 0
EveryRequestSettled ==
  /\ last.what \in {"request", "get_manifest"} =>
       \/ Settled(1)
       \/ Keeps
  /\ last.what = "response" => Settled(IF protocol = "audio" THEN 1 ELSE 0)
  /\ last.what \in {"interrupt", "call"} => last.outcome.kept = 0 \/ protocol = "audio"
  /\ last.what = "exit" => last.outcome.kept = 0 \/ protocol \in {"power_supply", "sdio"}

\* What the AP has been told is done is what the device does, after any requests,
\* refusals and failures in between: nothing else was changed by them, what failed
\* half way is told as a failure, and a callback of raw gets its own data.
DeviceAsAsked ==
  /\ LET shown == Shows(protocol, drv) IN \A f \in DOMAIN asked : shown[f] = asked[f]
  /\ protocol = "raw" => RawCallsMatch(drv)

\* A device sends nothing once its cport has been disconnected, or before it was
\* connected.
QuietWhenDisconnected ==
  last.what = "interrupt" => connected

\* The manifest names each cport of the build once, under its number and with its
\* protocol, and the bundle of each is in the manifest with the class of the protocol,
\* unless it is a last bundle for which manifest.c:58 knows no class, as long as eight
\* bits number them.
ManifestMatches ==
  last.what = "get_manifest" /\ Numbered(build) => Matches(last.data, build)
=============================================================================
