-------------------------------- MODULE Audio --------------------------------
(***************************************************************************)
(* The audio driver (audio.c) on its codec (fake_audio.c): a state machine *)
(* that only goes on from the step before, the codec's configuration and   *)
(* properties, and whether its output runs.                                *)
(***************************************************************************)
EXTENDS Operations

CONSTANT Rates   \* a PCM format, or the value of a control

Controls == {1, 2}   \* volume and mute, current_topology

AudioInit ==
  [state |-> "removed", pcm |-> "none", ctl |-> [c \in Controls |-> "none"], output |-> FALSE]
AudioStates ==
  [state : {"removed", "unconfigured", "configured"}, pcm : Rates \cup {"none"},
   ctl : [Controls -> Rates \cup {"none"}], output : BOOLEAN]

\* Control 0 stands for unknown controls, rate "short" for messages too short.
AudioRequests ==
  [type : {"protocol_version", "get_topology_size", "get_topology", "activate_tx",
           "activate_rx", "deactivate_tx", "deactivate_rx", "enable_widget",
           "disable_widget", "unknown"}] \cup
  [type : {"set_pcm", "send_data"}, rate : Rates \cup {"short"}] \cup
  [type : {"set_control"}, control : Controls \cup {0}, rate : Rates \cup {"short"}]

Removed(s) == s.state = "removed"   \* < STATE_UNCONFIGURED
IsConfigured(s) == s.state = "configured"

SetPcm(s, rate) ==
  IF Removed(s) \/ rate = "short" THEN Unchanged(s, Invalid)
  ELSE Configured(s, [s EXCEPT !.pcm = rate, !.state = "configured"], Unknown)

SetControl(s, control, rate) ==
  IF Removed(s) \/ rate = "short" \/ control \notin Controls THEN Unchanged(s, Invalid)
  ELSE Configured(s, [s EXCEPT !.ctl[control] = rate], Unknown)

\* audio_codec_start_output and audio_codec_stop_output cannot fail.
Output(s, on) ==
  IF IsConfigured(s) THEN {<<[s EXCEPT !.output = on], Reply(Ok)>>}
  ELSE Unchanged(s, Invalid)

AudioSendData(s, rate) ==
  IF ~IsConfigured(s) \/ rate = "short" THEN Unchanged(s, Invalid)
  ELSE Configured(s, s, Unknown)

\* The input is not driven: the codec interface has no calls for it.
AudioHandle(s, r) ==
  CASE r.type = "set_pcm" -> SetPcm(s, r.rate)
    [] r.type = "set_control" -> SetControl(s, r.control, r.rate)
    [] r.type \in {"activate_tx", "deactivate_tx"} -> Output(s, r.type = "activate_tx")
    [] r.type \in {"activate_rx", "deactivate_rx"} ->
         Unchanged(s, IF IsConfigured(s) THEN Ok ELSE Invalid)
    [] r.type = "send_data" -> AudioSendData(s, r.rate)
    [] r.type = "unknown" -> Unchanged(s, Invalid)
    [] OTHER -> Unchanged(s, Ok)

\* A codec that is not ready leaves the driver as it was.
AudioConnected(s) == {s, [s EXCEPT !.state = "unconfigured"]}

\* The output is not stopped.
AudioDisconnected(s) == [s EXCEPT !.state = "removed"]

\* gb_audio_send_jack_event and gb_audio_send_button_event: the message is never
\* released, and its operation id asks for a response.
AudioEvents(s) == {<<s, Event(<<e>>, 1)>> : e \in {"jack_event", "button_event"}}

AudioSettings(r) ==
  CASE r.type = "set_pcm" -> Only(<<"pcm", 0>>, r.rate)
    [] r.type = "set_control" -> Only(<<"ctl", r.control>>, r.rate)
    [] r.type \in {"activate_tx", "deactivate_tx"} ->
         Only(<<"output", 0>>, r.type = "activate_tx")
    [] OTHER -> NoSettings
AudioShows(s) ==
  Over(Over(Only(<<"pcm", 0>>, s.pcm), Only(<<"output", 0>>, s.output)),
       [f \in {"ctl"} \X Controls |-> s.ctl[f[2]]])
=============================================================================
