------------------------------ MODULE UartPort ------------------------------
(***************************************************************************)
(* The UART driver (uart.c): line settings, control lines, data and the    *)
(* credits that tell the AP how much of it has been written.               *)
(***************************************************************************)
EXTENDS Operations

CONSTANTS
  LineCodings, \* what uart_configure can be asked for
  MaxData      \* bound on the bytes of a request; MAX_RX_BUF_SIZE

UartInit == [conf |-> "none", dtr |-> FALSE, rts |-> FALSE, rx |-> FALSE]
UartStates ==
  [conf : LineCodings \cup {"none"}, dtr : BOOLEAN, rts : BOOLEAN, rx : BOOLEAN]

\* flow is the flow control: off, RTS/CTS, or unknown.
UartRequests ==
  [type : {"send_break", "flush_fifos", "unknown"}] \cup
  [type : {"send_data"}, size : 0..MaxData] \cup
  [type : {"set_line_coding"}, conf : LineCodings \cup {"unknown"}, flow : 0..2] \cup
  [type : {"set_control_line_state"}, dtr : BOOLEAN, rts : BOOLEAN]

\* Mutant: the message is released with the answer and again after the credits.
UartDataFreedTwice(s, size) ==
  {<<s, Outcome(<<Ok>>, 2, 0, <<<<"receive_credits", size>>>>)>>}

\* The answer goes out before the bytes do, and the credits follow them.
UartSendData(s, size) ==
  {<<s, Outcome(<<Ok>>, 1, 0, <<<<"receive_credits", size>>>>)>>}

\* Mutant: an unknown number of stop bits or parity goes to the device.
SetLineCodingUnchecked(s, conf, flow) ==
  IF flow # 0 THEN Unchanged(s, Invalid) ELSE Configured(s, [s EXCEPT !.conf = conf], Failure)

\* The case of RTS/CTS falls through to the refusal (line 149).
SetLineCoding(s, conf, flow) ==
  IF conf = "unknown" \/ flow # 0 THEN Unchanged(s, Invalid)
  ELSE Configured(s, [s EXCEPT !.conf = conf], Failure)

\* DTR has changed already when RTS cannot be set.
SetControlLineState(s, dtr, rts) ==
  Configured(s, [s EXCEPT !.dtr = dtr, !.rts = rts], Failure)
    \cup {<<[s EXCEPT !.dtr = dtr], Reply(Failure)>>}

UartHandle(s, r) ==
  CASE r.type = "send_data" -> UartSendData(s, r.size)
    [] r.type = "set_line_coding" -> SetLineCoding(s, r.conf, r.flow)
    [] r.type = "set_control_line_state" -> SetControlLineState(s, r.dtr, r.rts)
    [] r.type \in {"send_break", "flush_fifos"} -> Unchanged(s, Ok)
    [] r.type = "unknown" -> Unchanged(s, ProtocolBad)

\* Mutant: reception is not switched off.
UartStillReceiving(s) == s

UartConnected(s) == [s EXCEPT !.rx = TRUE]
UartDisconnected(s) == [s EXCEPT !.rx = FALSE]

\* uart_irq_cb: an interrupt without data sends nothing; the message is released.  A
\* message of MAX_RX_BUF_SIZE bytes of payload is taken here to hold as much data; in
\* the program the data starts behind three bytes of it (uart.c:204-211), so that the
\* last three bytes of a full read lie past its end.
UartInterrupts(s) ==
  {<<s, Event(IF n = 0 THEN <<>> ELSE <<<<"receive_data", n>>>>, 0)>> :
     n \in IF s.rx THEN 0..MaxData ELSE {}}

UartSettings(r) ==
  CASE r.type = "set_line_coding" -> Only(<<"conf", 0>>, r.conf)
    [] r.type = "set_control_line_state" ->
         Over(Only(<<"dtr", 0>>, r.dtr), Only(<<"rts", 0>>, r.rts))
    [] OTHER -> NoSettings
UartDisturbs(r) == IF r.type = "set_control_line_state" THEN {<<"dtr", 0>>} ELSE {}
UartShows(s) ==
  Over(Only(<<"conf", 0>>, s.conf), Over(Only(<<"dtr", 0>>, s.dtr), Only(<<"rts", 0>>, s.rts)))
=============================================================================
