-------------------------------- MODULE Buses --------------------------------
(***************************************************************************)
(* The I2C and SPI drivers (i2c.c, spi.c): a request is a list of          *)
(* transfers, made one after the other until one of them fails.  The state *)
(* is what has happened on the bus since the last request came.            *)
(***************************************************************************)
EXTENDS Operations

CONSTANTS
  Ops,     \* one transfer of an I2C request: the address and the direction
  Words,   \* bits of SPI word sizes; a size is a set of them
  MaxOps   \* bound on the transfers of a request

SeqsOf(S, n) == UNION {[1..k -> S] : k \in 0..n}

\* The transfers that were made when the one behind them failed.
Started(ops) == {SubSeq(ops, 1, k) : k \in 0..Len(ops) - 1}

I2cRequests ==
  [type : {"functionality", "unknown"}] \cup [type : {"transfer"}, ops : SeqsOf(Ops, MaxOps)]

\* The answer carries what was read, and the request is not released; or it says
\* why the transfer stopped.
I2cTransfer(ops) ==
  {<<ops, ReplyAndKeep(Ok)>>} \cup {<<done, Reply(Failure)>> : done \in Started(ops)}

I2cHandle(s, r) ==
  CASE r.type = "functionality" -> {<<(<<>>), Reply(Ok)>>}
    [] r.type = "unknown" -> {<<(<<>>), Reply(Invalid)>>}
    [] r.type = "transfer" -> I2cTransfer(r.ops)

I2cSettings(r) ==
  Only(<<"bus", 0>>, IF r.type = "transfer" THEN r.ops ELSE <<>>)

-----------------------------------------------------------------------------
(* SPI                                                                     *)

\* How a transfer goes: the device fails, or the code refuses its flags.
SpiKinds == {"read", "write", "both", "no flags", "cs_change"}
SpiOps == [kind : SpiKinds, word : SUBSET Words]
SpiRequests ==
  [type : {"master_config", "device_config", "unsupported_mode", "unknown"}] \cup
  [type : {"transfer"}, ops : SeqsOf(SpiOps, MaxOps)]

\* SPI_WORD_SET of a transfer is or'ed to what those before it left in conf.
SpiWords(ops) == [i \in DOMAIN ops |-> UNION {ops[j].word : j \in 1..i}]

SpiRefusal(kind) ==
  CASE kind = "no flags" -> Invalid
    [] kind = "cs_change" -> Internal
    [] OTHER -> Ok

\* The first transfer that the code refuses ends the request, unless the device
\* has failed before.
SpiTransfer(ops) ==
  LET Done(k) == SubSeq(SpiWords(ops), 1, k)
      Accepted(k) == \A i \in 1..k : SpiRefusal(ops[i].kind) = Ok
  IN  {<<Done(k), Reply(Ok)>> : k \in {n \in {Len(ops)} : Accepted(n)}} \cup
      {<<Done(k), Reply(SpiRefusal(ops[k + 1].kind))>> :
         k \in {n \in 0..Len(ops) - 1 : Accepted(n) /\ ~Accepted(n + 1)}} \cup
      {<<Done(k), Reply(Internal)>> : k \in {n \in 0..Len(ops) - 1 : Accepted(n + 1)}}

SpiHandle(s, r) ==
  CASE r.type \in {"master_config", "device_config"} -> {<<(<<>>), Reply(Ok)>>}
    [] r.type = "unsupported_mode" -> {<<(<<>>), Reply(Internal)>>}
    [] r.type = "unknown" -> {<<(<<>>), Reply(Invalid)>>}
    [] r.type = "transfer" -> SpiTransfer(r.ops)

\* The word sizes are those that were asked for when they do not differ within the
\* request (spi.c:153).
SpiSettings(r) ==
  CASE r.type # "transfer" -> Only(<<"bus", 0>>, <<>>)
    [] r.type = "transfer" /\ \E i, j \in DOMAIN r.ops : r.ops[i].word # r.ops[j].word ->
         NoSettings
    [] OTHER -> Only(<<"bus", 0>>, [i \in DOMAIN r.ops |-> r.ops[i].word])

BusDisturbs(r) == {<<"bus", 0>>}
BusShows(s) == Only(<<"bus", 0>>, s)
=============================================================================
