------------------------------- MODULE MCNode -------------------------------
(* An instance of Node for TLC. *)
EXTENDS Node

Child(kind, devices) == [kind |-> kind, devices |-> devices @@ [d \in Devices |-> 0]]
Phy(devices) == Child("bridged_phy", devices)
None == [d \in {} |-> 0]
Build(fw, log, raw, loopback, children) ==
  [fw |-> fw, log |-> log, raw |-> raw, loopback |-> loopback, children |-> children]

\* Each driver in one build, the bundles of the devicetree behind none, some and all
\* of the options, and last bundles with and without a class.
SmallBuilds ==
  {Build(FALSE, FALSE, 0, FALSE,
         <<Phy([gpio |-> 1, uart |-> 2]), Phy([i2c |-> 1, spi |-> 1]), Child("lights", None)>>),
   Build(TRUE, TRUE, 2, TRUE, <<Child("vibrator", [vibrator |-> 2])>>),
   Build(FALSE, TRUE, 0, FALSE, <<Child("audio", [audio |-> 1])>>),
   Build(TRUE, FALSE, 0, TRUE, <<Phy([pwm |-> 1])>>)}

TwoPins == {0, 1}
TwoChannels == {0, 1}
=============================================================================
