------------------------------- MODULE Legacy -------------------------------
(***************************************************************************)
(* The drivers written for the older core (power_supply.c, sdio.c, usb.c   *)
(* and the requests of hid.c): a handler returns a result, with which that *)
(* core, no longer in the tree, answers and releases the request.  init    *)
(* and exit open and close the device and its callback.                    *)
(***************************************************************************)
EXTENDS Operations

CONSTANT Values   \* of a property of the power supply, and of the SDIO bus settings

LegacyDrivers == {"power_supply", "sdio", "usb", "hid"}
NoMemory == "GB_OP_NO_MEMORY"

\* conf is what the device is set to; for hid also the length of the report
\* descriptor, which the driver remembers.
LegacyInit == [open |-> FALSE, armed |-> FALSE, conf |-> "none", length |-> "none"]
LegacyStates ==
  [open : BOOLEAN, armed : BOOLEAN, conf : Values \cup {"none", "on", "off"},
   length : {"none", "known"}]

\* A message that is too short has the type "short".
PowerSupplyRequests ==
  [type : {"version", "get_supplies", "get_description", "get_prop_descriptors",
           "get_property", "short", "unknown"}] \cup
  [type : {"set_property"}, value : Values]
SdioRequests ==
  [type : {"version", "get_capabilities", "command", "transfer", "short", "unknown"}] \cup
  [type : {"set_ios"}, value : Values]
UsbRequests == [type : {"version", "start", "stop", "hub_control", "short", "unknown"}]
HidRequests ==
  [type : {"version", "get_descriptor", "get_report_descriptor", "get_report",
           "set_report", "power_on", "power_off", "short", "unknown"}]
LegacyRequests(driver) ==
  CASE driver = "power_supply" -> PowerSupplyRequests
    [] driver = "sdio" -> SdioRequests
    [] driver = "usb" -> UsbRequests
    [] driver = "hid" -> HidRequests

\* What is only read or written through fails in one of these ways.
Accessed(s, failures) == {<<s, Reply(result)>> : result \in {Ok} \cup failures}

Version(s) == Accessed(s, {NoMemory})

\* The device is asked before the answer is allocated.
PowerSupplyRead(s) == Accessed(s, {Failure, NoMemory})

\* The value is passed on whether or not the property can be written.
SetProperty(s, value) == Configured(s, [s EXCEPT !.conf = value], Failure)

PowerSupplyHandle(s, r) ==
  CASE r.type = "version" -> Version(s)
    [] r.type = "set_property" -> SetProperty(s, r.value)
    [] r.type \in {"short", "unknown"} -> Unchanged(s, Invalid)
    [] OTHER -> PowerSupplyRead(s)

GetCapabilities(s) == Accessed(s, {Failure, NoMemory})
SetIos(s, value) == Configured(s, [s EXCEPT !.conf = value], Failure)

\* A command that the card does not answer in time is a success.
Command(s) == Accessed(s, {Failure, NoMemory})

\* A transfer that neither reads nor writes is refused.
Transfer(s) == Accessed(s, {Failure, NoMemory, Invalid})

SdioHandle(s, r) ==
  CASE r.type = "version" -> Version(s)
    [] r.type = "get_capabilities" -> GetCapabilities(s)
    [] r.type = "set_ios" -> SetIos(s, r.value)
    [] r.type = "command" -> Command(s)
    [] r.type = "transfer" -> Transfer(s)
    [] OTHER -> Unchanged(s, Invalid)

\* Whether the device has stopped is not looked at.
UsbStop(s) == {<<[s EXCEPT !.conf = "off"], Reply(Ok)>>}
UsbStart(s) == Configured(s, [s EXCEPT !.conf = "on"], Unknown)
HubControl(s) == Accessed(s, {NoMemory, Unknown})

UsbHandle(s, r) ==
  CASE r.type = "version" -> Version(s)
    [] r.type = "stop" -> UsbStop(s)
    [] r.type = "start" -> UsbStart(s)
    [] r.type = "hub_control" -> HubControl(s)
    [] OTHER -> Unchanged(s, Invalid)

\* The answer is allocated before the device is asked.
GetDescriptor(s) ==
  Configured(s, [s EXCEPT !.length = "known"], Unknown) \cup Unchanged(s, NoMemory)
GetReportDescriptor(s) == Accessed(s, {NoMemory, Unknown})
HidPowerOn(s) == Configured(s, [s EXCEPT !.conf = "on"], Unknown)
HidPowerOff(s) == Configured(s, [s EXCEPT !.conf = "off"], Unknown)
GetReport(s) == Accessed(s, {NoMemory, Unknown})
SetReport(s) == Accessed(s, {Unknown})

HidHandle(s, r) ==
  CASE r.type = "version" -> Version(s)
    [] r.type = "get_descriptor" -> GetDescriptor(s)
    [] r.type = "get_report_descriptor" -> GetReportDescriptor(s)
    [] r.type = "power_on" -> HidPowerOn(s)
    [] r.type = "power_off" -> HidPowerOff(s)
    [] r.type = "get_report" -> GetReport(s)
    [] r.type = "set_report" -> SetReport(s)
    [] OTHER -> Unchanged(s, Invalid)

LegacyHandle(s, r, driver) ==
  CASE driver = "power_supply" -> PowerSupplyHandle(s, r)
    [] driver = "sdio" -> SdioHandle(s, r)
    [] driver = "usb" -> UsbHandle(s, r)
    [] driver = "hid" -> HidHandle(s, r)

\* init: the device is opened and has the callback, or all is undone.
LegacyOpen(s, driver) ==
  {<<s, Nothing>>,
   <<[s EXCEPT !.open = TRUE, !.armed = driver # "usb", !.length = "none"], Nothing>>}

\* exit: power_supply and sdio look for their data in bundle->priv, where init has
\* not put them, and release nothing.
LegacyClose(s, driver) ==
  {<<[s EXCEPT !.open = FALSE, !.armed = FALSE],
     Event(<<>>, IF driver \in {"power_supply", "sdio"} THEN 1 ELSE 0)>>}

\* event_callback; the reports of hid are the subject of module Hid.
LegacyEvents(s, driver) ==
  {<<s, m>> : m \in IF s.armed /\ driver \in {"power_supply", "sdio"}
                    THEN {Nothing, Event(<<"event">>, 0)} ELSE {}}

LegacySettings(r) ==
  CASE r.type \in {"set_property", "set_ios"} -> Only(<<"conf", 0>>, r.value)
    [] r.type \in {"start", "power_on"} -> Only(<<"conf", 0>>, "on")
    [] r.type \in {"stop", "power_off"} -> Only(<<"conf", 0>>, "off")
    [] r.type = "get_descriptor" -> Only(<<"length", 0>>, "known")
    [] OTHER -> NoSettings
LegacyShows(s) == Over(Only(<<"conf", 0>>, s.conf), Only(<<"length", 0>>, s.length))
=============================================================================
