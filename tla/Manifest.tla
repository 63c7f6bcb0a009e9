------------------------------ MODULE Manifest ------------------------------
(***************************************************************************)
(* The cports of a build (greybus_cport.c) and the manifest that describes *)
(* them to the AP (manifest.c).  Both are made by the preprocessor from    *)
(* the options and the devicetree, in two files that do not know of each   *)
(* other: cports[] counts bundles with a counter, in bundles[] a bundle's  *)
(* id is its position.                                                     *)
(*                                                                         *)
(* A build is a record of the options fw, log, raw (a number of cports)    *)
(* and loopback, and of its children, the bundles of the devicetree.  A    *)
(* child has a kind, its compatible, and so many devices of each protocol. *)
(***************************************************************************)
EXTENDS Naturals, Sequences, SequencesExt, FiniteSets

If(option, group) == IF option THEN <<group>> ELSE <<>>

\* GB_CPORTS_IN_BUNDLE: the cports of a child, one for each of its devices, those of
\* a bridged_phy in this order.  All lights of a bundle share one.
PhyOrder == <<"gpio", "pwm", "spi", "uart", "i2c">>
Kinds == {"bridged_phy", "lights", "camera", "vibrator", "audio"}
Devices == Range(PhyOrder) \cup {"camera", "vibrator", "audio"}
Copies(n, p) == [i \in 1..n |-> p]
ChildCports(child) ==
  CASE child.kind = "bridged_phy" ->
         FlattenSeq([i \in DOMAIN PhyOrder |->
                       Copies(child.devices[PhyOrder[i]], PhyOrder[i])])
    [] child.kind = "lights" -> <<"lights">>
    [] OTHER -> Copies(child.devices[child.kind], child.kind)

\* The macros of cports[], one after the other: LOCAL_COUNTER is read once for each.
Groups(build) ==
  <<(<<"control">>)>>
    \o If(build.fw, <<"fw_mgmt", "fw_download">>)
    \o If(build.log, <<"log">>)
    \o If(build.raw > 0, Copies(build.raw, "raw"))
    \o If(build.loopback, <<"loopback">>)
    \o [i \in DOMAIN build.children |-> ChildCports(build.children[i])]

\* Cports and bundles have numbers of eight bits.
U8(n) == n % 256

\* cports[], where cport 0 is at place 1.
Cports(build) ==
  LET groups == Groups(build)
  IN  FlattenSeq([i \in DOMAIN groups |->
                    [j \in DOMAIN groups[i] |-> [protocol |-> groups[i][j], bundle |-> U8(i - 1)]]])

HasClass(phy) == phy.devices["gpio"] > 0 \/ phy.devices["i2c"] > 0

\* Mutant: a bundle of lights has no class, as those of cameras and audio have none.
BundleClassNoLights(child) ==
  CASE child.kind = "bridged_phy" /\ HasClass(child) ->
         <<"bridged_phy">>
    [] child.kind = "vibrator" -> <<"vibrator">>
    [] OTHER -> <<>>

\* _GB_BUNDLE_CB: the class of a child, or nothing at all.
BundleClass(child) ==
  CASE child.kind = "bridged_phy" /\ HasClass(child) ->
         <<"bridged_phy">>
    [] child.kind \in {"lights", "vibrator"} -> <<child.kind>>
    [] OTHER -> <<>>

\* bundles[]
Bundles(build) ==
  <<"control">>
    \o If(build.fw, "firmware")
    \o If(build.log, "log")
    \o If(build.raw > 0, "raw")
    \o If(build.loopback, "loopback")
    \o FlattenSeq([i \in DOMAIN build.children |-> BundleClass(build.children[i])])

\* manifest_create
ManifestCreate(build) ==
  LET bundles == Bundles(build)
      cports == Cports(build)
  IN  <<[type |-> "interface"], [type |-> "string", id |-> "vendor"],
        [type |-> "string", id |-> "product"]>>
        \o [i \in DOMAIN bundles |-> [type |-> "bundle", id |-> U8(i - 1), class |-> bundles[i]]]
        \o [i \in DOMAIN cports |->
              [type |-> "cport", id |-> U8(i - 1), bundle |-> cports[i].bundle,
               protocol |-> cports[i].protocol]]

\* GREYBUS_CPORT_COUNT: how many cports the application is told of; a bundle of
\* lights, cameras or audio counts as one.
CportCounter(child) ==
  CASE child.kind = "bridged_phy" ->
         MapThenSumSet(LAMBDA p : child.devices[p], Range(PhyOrder))
    [] child.kind = "vibrator" -> child.devices["vibrator"]
    [] OTHER -> 1

CportCount(build) ==
  1 + (IF build.fw THEN 2 ELSE 0) + (IF build.log THEN 1 ELSE 0) + build.raw
    + (IF build.loopback THEN 1 ELSE 0)
    + MapThenSumSet(LAMBDA i : CportCounter(build.children[i]), DOMAIN build.children)

\* The builds that compile: in the lists of the preprocessor only the last child may
\* be other than a bridged_phy, whose cports end with a comma, and only the last may
\* have no class; and cports[] is as long as it is said to be (greybus_cport.c:279).
Compiles(build) ==
  /\ \A i \in 1..Len(build.children) - 1 :
       build.children[i].kind = "bridged_phy" /\ BundleClass(build.children[i]) # <<>>
  /\ CportCount(build) = Len(Cports(build))

\* Nothing in the code keeps the numbers from wrapping.
Numbered(build) == Len(Cports(build)) <= 256 /\ Len(Groups(build)) <= 256

AllBuilds ==
  [fw : BOOLEAN, log : BOOLEAN, raw : Nat, loopback : BOOLEAN,
   children : Seq([kind : Kinds, devices : [Devices -> Nat]])]

-----------------------------------------------------------------------------
\* The class the AP looks for before it binds the driver of a protocol.
ClassOf(p) ==
  CASE p \in {"fw_mgmt", "fw_download"} -> "firmware"
    [] p \in {"gpio", "pwm", "spi", "uart", "i2c"} -> "bridged_phy"
    [] OTHER -> p

Described(manifest, d) ==
  \E b \in Range(manifest) : b.type = "bundle" /\ b.id = d.bundle /\ b.class = ClassOf(d.protocol)

\* Cameras, audio, and controllers of a bridged_phy without gpio and i2c: when they
\* are the last child, their cports name a bundle that nothing describes.
Orphan(build, d) ==
  /\ build.children # <<>>
  /\ LET child == Last(build.children)
     IN  \/ child.kind \in {"camera", "audio"}
         \/ child.kind = "bridged_phy" /\ ~HasClass(child)
  /\ d.bundle = Len(Bundles(build))

\* A manifest that describes each cport of the build, once.
Matches(manifest, build) ==
  LET cports == Cports(build)
      places == {i \in DOMAIN manifest : manifest[i].type = "cport"}
  IN  /\ Cardinality(places) = Len(cports)
      /\ {manifest[i].id + 1 : i \in places} = DOMAIN cports
      /\ \A i \in places :
           LET d == manifest[i]
           IN  /\ cports[d.id + 1].protocol = d.protocol
               /\ Described(manifest, d) \/ Orphan(build, d)
=============================================================================
