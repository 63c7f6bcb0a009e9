--------------------------- MODULE ApbridgeProofs ---------------------------
(***************************************************************************)
(* Theorems about Apbridge, for any number of nodes, cports, routes and    *)
(* sending threads.                                                        *)
(***************************************************************************)
EXTENDS Apbridge, TLAPS

(***************************************************************************)
(* The inductive invariant.  A lookup reads an entry in two steps, so that *)
(* what the first found must still hold at the second unless a connection  *)
(* is being destroyed (LookupOK); that needs to know the half written      *)
(* entries (SvcOK) and that the others are what the AP knows (RouteTable). *)
(* What the AP sends has no part in it.                                    *)
(***************************************************************************)
IInv ==
  /\ RoutesTypeOK
  /\ SvcOK
  /\ RouteTable
  /\ LookupOK
  /\ CreateNeverMisroutes
  /\ NodeFound

LEMMA PeersTyped ==
  ASSUME NEW conns \in SUBSET Conns, NEW n, NEW c
  PROVE  PeersIn(conns, n, c) \subseteq ApCports
  BY DEF PeersIn, Conns

LEMMA InitIInv == Init => IInv
<1> SUFFICES ASSUME Init PROVE IInv
  OBVIOUS
<1> USE BridgeAssumption DEF Init, NoRequest, NoLookup, NoRoute, Conn
<1>1. RoutesTypeOK
  BY DEF RoutesTypeOK, ApCports, Intfs, Conns, Lookups
<1>2. SvcOK
  BY DEF SvcOK, ApCports, Destroying
<1>3. RouteTable
  BY DEF RouteTable, ApCports
<1>4. LookupOK /\ CreateNeverMisroutes /\ NodeFound
  BY DEF LookupOK, CreateNeverMisroutes, NodeFound
<1> QED
  BY <1>1, <1>2, <1>3, <1>4 DEF IInv

(***************************************************************************)
(* What a step of the SVC does to a lookup: nothing but to what was        *)
(* connected during it.                                                    *)
(***************************************************************************)
LEMMA ObserveFields ==
  ASSUME RoutesTypeOK, Observe, NEW s \in Senders,
         established' \in SUBSET Conns, InProgress(svc') \in SUBSET Conns
  PROVE  /\ sender'[s] \in Lookups
         /\ sender'[s].pc = sender[s].pc
         /\ sender'[s].intf = sender[s].intf
         /\ sender'[s].cport = sender[s].cport
         /\ sender'[s].i = sender[s].i
         /\ sender'[s].target = sender[s].target
         /\ sender[s].pc # "idle" =>
              /\ sender'[s].possible = sender[s].possible \cup
                   PeersIn(established' \cup InProgress(svc'), sender[s].intf, sender[s].cport)
              /\ sender'[s].stable = sender[s].stable \cap
                   PeersIn(established', sender[s].intf, sender[s].cport)
              /\ sender'[s].quiet = (sender[s].quiet /\ ~Destroying(svc'))
<1> DEFINE l == sender[s]
           P == l.possible \cup
                  PeersIn(established' \cup InProgress(svc'), l.intf, l.cport)
           S == l.stable \cap PeersIn(established', l.intf, l.cport)
           q == l.quiet /\ ~Destroying(svc')
<1>1. l \in Lookups
  BY DEF RoutesTypeOK
<1>2. CASE l.pc = "idle"
  <2>1. sender'[s] = l
    BY <1>2 DEF Observe
  <2> QED
    BY <1>1, <1>2, <2>1
<1>3. CASE l.pc # "idle"
  <2>1. sender'[s] = [l EXCEPT !.possible = P, !.stable = S, !.quiet = q]
    BY <1>3 DEF Observe
  <2>2. PeersIn(established' \cup InProgress(svc'), l.intf, l.cport) \subseteq ApCports
    BY PeersTyped
  <2>3. l.possible \in SUBSET ApCports /\ l.stable \in SUBSET ApCports
    BY <1>1 DEF Lookups
  <2>4. P \in SUBSET ApCports /\ S \in SUBSET ApCports
    BY <2>2, <2>3
  <2>5. q \in BOOLEAN
    OBVIOUS
  <2> HIDE DEF l, P, S, q
  <2>6. /\ sender'[s] \in Lookups
        /\ sender'[s].pc = l.pc /\ sender'[s].intf = l.intf /\ sender'[s].cport = l.cport
        /\ sender'[s].i = l.i /\ sender'[s].target = l.target
        /\ sender'[s].possible = P /\ sender'[s].stable = S /\ sender'[s].quiet = q
    <3> DEFINE m == [l EXCEPT !.possible = P, !.stable = S, !.quiet = q]
    <3>1. /\ m \in Lookups
          /\ m.pc = l.pc /\ m.intf = l.intf /\ m.cport = l.cport
          /\ m.i = l.i /\ m.target = l.target
          /\ m.possible = P /\ m.stable = S /\ m.quiet = q
      BY <1>1, <2>4, <2>5 DEF Lookups
    <3>2. sender'[s] = m
      BY <2>1
    <3> HIDE DEF m
    <3> QED
      BY <3>1, <3>2
  <2> QED
    BY <1>3, <2>6 DEF l, P, S, q
<1> QED
  BY <1>2, <1>3

LEMMA ObserveKeeps ==
  ASSUME IInv, Observe,
         established' \in SUBSET Conns,
         InProgress(svc') \in SUBSET Conns,
         ~Destroying(svc) /\ ~Destroying(svc') => \A a \in ApCports :
           node_ap_map[a].node_intf # None =>
             node_ap_map'[a].node_intf = node_ap_map[a].node_intf
  PROVE  /\ sender' \in [Senders -> Lookups]
         /\ LookupOK'
         /\ CreateNeverMisroutes'
         /\ NodeFound'
<1>1. sender' \in [Senders -> Lookups]
  BY ObserveFields DEF Observe, IInv
<1>2. LookupOK'
  <2> SUFFICES ASSUME NEW s \in Senders, sender'[s].pc # "idle"
               PROVE  /\ PeersIn(established', sender'[s].intf, sender'[s].cport)
                           \subseteq sender'[s].possible
                      /\ sender'[s].stable \subseteq
                           PeersIn(established', sender'[s].intf, sender'[s].cport)
                      /\ sender'[s].intf # None
                      /\ sender'[s].quiet => ~Destroying(svc')
                      /\ sender'[s].pc # "done" =>
                           /\ sender'[s].target = None
                           /\ \A a \in sender'[s].stable : a >= sender'[s].i
                      /\ sender'[s].pc = "cport" => sender'[s].i < NumRoutes
                      /\ sender'[s].pc = "cport" /\ sender'[s].quiet =>
                           node_ap_map'[sender'[s].i].node_intf = sender'[s].intf
    BY DEF LookupOK
  <2>1. /\ sender[s].pc # "idle"
        /\ sender'[s].pc = sender[s].pc
        /\ sender'[s].intf = sender[s].intf
        /\ sender'[s].cport = sender[s].cport
        /\ sender'[s].i = sender[s].i
        /\ sender'[s].target = sender[s].target
        /\ sender'[s].possible = sender[s].possible \cup
             PeersIn(established' \cup InProgress(svc'), sender[s].intf, sender[s].cport)
        /\ sender'[s].stable = sender[s].stable \cap
             PeersIn(established', sender[s].intf, sender[s].cport)
        /\ sender'[s].quiet = (sender[s].quiet /\ ~Destroying(svc'))
    BY ObserveFields DEF IInv
  <2>2. /\ sender[s].intf # None
        /\ sender[s].quiet => ~Destroying(svc)
        /\ sender[s].pc # "done" =>
             sender[s].target = None /\ \A a \in sender[s].stable : a >= sender[s].i
        /\ sender[s].pc = "cport" => sender[s].i < NumRoutes
        /\ sender[s].pc = "cport" /\ sender[s].quiet =>
             node_ap_map[sender[s].i].node_intf = sender[s].intf
    BY <2>1 DEF IInv, LookupOK
  <2>3. PeersIn(established', sender[s].intf, sender[s].cport) \subseteq
          PeersIn(established' \cup InProgress(svc'), sender[s].intf, sender[s].cport)
    BY DEF PeersIn
  <2>4. ASSUME sender'[s].pc = "cport", sender'[s].quiet
        PROVE  node_ap_map'[sender'[s].i].node_intf = sender'[s].intf
    <3>1. sender[s].i \in 0..NumRoutes
      BY DEF IInv, RoutesTypeOK, Lookups
    <3>2. sender[s].i \in ApCports
      BY <2>1, <2>2, <2>4, <3>1, BridgeAssumption DEF ApCports
    <3> QED
      BY <2>1, <2>2, <2>4, <3>2
  <2> QED
    BY <2>1, <2>2, <2>3, <2>4
<1>3. CreateNeverMisroutes' /\ NodeFound'
  <2> SUFFICES ASSUME NEW s \in Senders, sender'[s].pc = "done"
               PROVE  /\ sender'[s].quiet => sender'[s].target \in sender'[s].possible \cup {None}
                      /\ sender'[s].stable # {} => sender'[s].target # None
    BY DEF CreateNeverMisroutes, NodeFound
  <2>1. /\ sender[s].pc = "done"
        /\ sender'[s].target = sender[s].target
        /\ sender[s].possible \subseteq sender'[s].possible
        /\ sender'[s].stable \subseteq sender[s].stable
        /\ sender'[s].quiet => sender[s].quiet
    BY ObserveFields DEF IInv
  <2>2. /\ sender[s].quiet => sender[s].target \in sender[s].possible \cup {None}
        /\ sender[s].stable # {} => sender[s].target # None
    BY <2>1 DEF IInv, CreateNeverMisroutes, NodeFound
  <2> QED
    BY <2>1, <2>2
<1> QED
  BY <1>1, <1>2, <1>3

(***************************************************************************)
(* The interface cache has no part in a lookup or in a half done request.  *)
(***************************************************************************)
LEMMA InterfaceIInv ==
  ASSUME IInv, NEW n \in Nodes, InterfaceAdd(n) \/ InterfaceRemove(n)
  PROVE  IInv'
<1>1. intfs' \subseteq Intfs
  BY DEF IInv, RoutesTypeOK, InterfaceAdd, InterfaceRemove, Intfs
<1>2. UNCHANGED <<node_ap_map, svc, established, sender>>
  BY DEF InterfaceAdd, InterfaceRemove
<1> QED
  BY <1>1, <1>2
     DEF IInv, RoutesTypeOK, SvcOK, RouteTable, LookupOK, CreateNeverMisroutes, NodeFound

LEMMA ApCreatesIInv ==
  ASSUME IInv, NEW e \in Conns, ApCreates(e)
  PROVE  IInv'
<1>1. /\ svc.pc = "idle"
      /\ svc' = [pc |-> "create", conn |-> e]
      /\ UNCHANGED <<intfs, node_ap_map, established>>
      /\ Observe
      /\ \A d \in established : d.ap # e.ap
  BY DEF ApCreates
<1>2. InProgress(svc') \in SUBSET Conns /\ ~Destroying(svc')
  BY <1>1 DEF InProgress, Destroying
<1>3. RoutesTypeOK' /\ LookupOK' /\ CreateNeverMisroutes' /\ NodeFound'
  BY <1>1, <1>2, ObserveKeeps DEF IInv, RoutesTypeOK
<1>4. SvcOK'
  BY <1>1, <1>2 DEF SvcOK, IInv, Destroying
<1>5. RouteTable'
  BY <1>1 DEF RouteTable, IInv
<1> QED
  BY <1>3, <1>4, <1>5 DEF IInv

LEMMA CreateFailsIInv ==
  ASSUME IInv, CreateFails
  PROVE  IInv'
<1>1. /\ svc.pc = "create"
      /\ svc' = NoRequest
      /\ UNCHANGED <<intfs, node_ap_map, established>>
      /\ Observe
  BY DEF CreateFails
<1>2. InProgress(svc') \in SUBSET Conns /\ ~Destroying(svc') /\ ~Destroying(svc)
  BY <1>1 DEF InProgress, Destroying, NoRequest
<1>3. RoutesTypeOK' /\ LookupOK' /\ CreateNeverMisroutes' /\ NodeFound'
  BY <1>1, <1>2, ObserveKeeps DEF IInv, RoutesTypeOK
<1>4. SvcOK'
  BY <1>1, <1>2 DEF SvcOK, IInv, NoRequest
<1>5. RouteTable'
  BY <1>1, <1>2 DEF RouteTable, SvcOK, IInv
<1> QED
  BY <1>3, <1>4, <1>5 DEF IInv

(***************************************************************************)
(* Writing the cport of a free entry: nobody looks at the cport of an      *)
(* entry without interface.                                                *)
(***************************************************************************)
LEMMA NodeApAddCportIInv ==
  ASSUME IInv, NodeApAddCport
  PROVE  IInv'
<1> DEFINE e == svc.conn
<1>1. /\ svc.pc = "create"
      /\ svc' = [svc EXCEPT !.pc = "add"]
      /\ node_ap_map[e.ap].node_intf = None
      /\ node_ap_map' = [node_ap_map EXCEPT ![e.ap].node_cport = e.cport]
      /\ UNCHANGED <<intfs, established>>
      /\ Observe
  BY DEF NodeApAddCport
<1>2. e \in Conns /\ svc = [pc |-> "create", conn |-> e]
  BY <1>1 DEF IInv, RoutesTypeOK, NoRequest
<1>3. svc' = [pc |-> "add", conn |-> e]
  BY <1>1, <1>2
<1>4. InProgress(svc') \in SUBSET Conns /\ ~Destroying(svc') /\ ~Destroying(svc)
  BY <1>1, <1>2, <1>3 DEF InProgress, Destroying
<1>5. /\ e.ap \in ApCports
      /\ e.cport \in Cports
  BY <1>2 DEF Conns
<1>6. /\ node_ap_map'[e.ap].node_intf = None
      /\ node_ap_map'[e.ap].node_cport = e.cport
      /\ \A a \in ApCports : a # e.ap => node_ap_map'[a] = node_ap_map[a]
      /\ node_ap_map' \in [ApCports -> [node_intf : Intfs \cup {None}, node_cport : Cports]]
  BY <1>1, <1>5 DEF IInv, RoutesTypeOK
<1>7. RoutesTypeOK' /\ LookupOK' /\ CreateNeverMisroutes' /\ NodeFound'
  BY <1>1, <1>2, <1>3, <1>4, <1>6, ObserveKeeps DEF IInv, RoutesTypeOK
<1>8. SvcOK'
  BY <1>1, <1>2, <1>3, <1>4, <1>6 DEF SvcOK, IInv
<1>9. RouteTable'
  <2>1. \A d \in established : d.ap # e.ap /\ d.ap \in ApCports
    BY <1>1 DEF IInv, SvcOK, RoutesTypeOK, Conns
  <2> QED
    BY <1>1, <1>3, <1>6, <2>1 DEF RouteTable, IInv
<1> QED
  BY <1>7, <1>8, <1>9 DEF IInv

(***************************************************************************)
(* Writing the interface completes the entry, and the AP is told.          *)
(***************************************************************************)
LEMMA NodeApAddIntfIInv ==
  ASSUME IInv, NodeApAddIntf
  PROVE  IInv'
<1> DEFINE e == svc.conn
<1>1. /\ svc.pc = "add"
      /\ svc' = NoRequest
      /\ established' = established \cup {e}
      /\ node_ap_map' = [node_ap_map EXCEPT ![e.ap].node_intf = e.intf]
      /\ intfs' = intfs
      /\ Observe
  BY DEF NodeApAddIntf
<1>2. e \in Conns
  BY <1>1 DEF IInv, RoutesTypeOK, NoRequest
<1>3. /\ e.ap \in ApCports
      /\ e.intf \in Intfs
      /\ e.cport \in Cports
      /\ e = Conn(e.intf, e.cport, e.ap)
  BY <1>2 DEF Conns, Conn
<1>4. InProgress(svc') \in SUBSET Conns /\ ~Destroying(svc') /\ ~Destroying(svc)
  BY <1>1 DEF InProgress, Destroying, NoRequest
<1>5. \A d \in established : d.ap # e.ap /\ d.ap \in ApCports
  BY <1>1 DEF IInv, SvcOK, RoutesTypeOK, Conns
<1>6. /\ node_ap_map[e.ap].node_cport = e.cport
      /\ node_ap_map[e.ap].node_intf = None
  <2>1. Conn(node_ap_map[e.ap].node_intf, node_ap_map[e.ap].node_cport, e.ap) \notin established
    BY <1>5 DEF Conn
  <2> QED
    BY <1>1, <1>3, <1>4, <2>1 DEF IInv, SvcOK
<1>7. /\ node_ap_map'[e.ap] = [node_intf |-> e.intf, node_cport |-> e.cport]
      /\ \A a \in ApCports : a # e.ap => node_ap_map'[a] = node_ap_map[a]
      /\ node_ap_map' \in [ApCports -> [node_intf : Intfs \cup {None}, node_cport : Cports]]
  BY <1>1, <1>3, <1>6 DEF IInv, RoutesTypeOK
<1>8. RoutesTypeOK' /\ LookupOK' /\ CreateNeverMisroutes' /\ NodeFound'
  BY <1>1, <1>2, <1>4, <1>6, <1>7, ObserveKeeps DEF IInv, RoutesTypeOK
<1>9. SvcOK'
  BY <1>1, <1>3, <1>4, <1>7 DEF SvcOK, IInv, NoRequest
<1>10. RouteTable'
  BY <1>1, <1>3, <1>4, <1>5, <1>7 DEF RouteTable, SvcOK, IInv
<1> QED
  BY <1>8, <1>9, <1>10 DEF IInv

(***************************************************************************)
(* An entry stands for one connection: no other has the same AP cport.     *)
(***************************************************************************)
LEMMA ApDestroysIInv ==
  ASSUME IInv, NEW e \in established, ApDestroys(e)
  PROVE  IInv'
<1>1. /\ svc.pc = "idle"
      /\ established' = established \ {e}
      /\ svc' = [pc |-> "removeCport", conn |-> e]
      /\ UNCHANGED <<intfs, node_ap_map>>
      /\ Observe
  BY DEF ApDestroys
<1>2. e \in Conns
  BY DEF IInv, RoutesTypeOK
<1>3. InProgress(svc') \in SUBSET Conns /\ Destroying(svc') /\ ~Destroying(svc)
  BY <1>1, <1>2 DEF InProgress, Destroying
<1>4. RoutesTypeOK' /\ LookupOK' /\ CreateNeverMisroutes' /\ NodeFound'
  BY <1>1, <1>2, <1>3, ObserveKeeps DEF IInv, RoutesTypeOK
<1>5. ASSUME NEW d \in established'
      PROVE  d.ap # e.ap
  <2>1. d \in Conns /\ d \in established /\ d # e
    BY <1>1 DEF IInv, RoutesTypeOK
  <2>2. SUFFICES ASSUME d.ap = e.ap PROVE FALSE
    OBVIOUS
  <2>3. [node_intf |-> d.intf, node_cport |-> d.cport]
          = [node_intf |-> e.intf, node_cport |-> e.cport]
    BY <2>1, <2>2 DEF IInv, RouteTable
  <2>4. d.intf = e.intf /\ d.cport = e.cport
    BY <2>3
  <2> QED
    BY <1>2, <2>1, <2>2, <2>4 DEF Conns
<1>6. ASSUME NEW a \in ApCports, node_ap_map[a].node_intf # None
      PROVE  \/ Conn(node_ap_map[a].node_intf, node_ap_map[a].node_cport, a) \in established'
             \/ e.ap = a
  BY <1>1, <1>3, <1>6 DEF IInv, SvcOK, Conn
<1>7. SvcOK'
  BY <1>1, <1>3, <1>5, <1>6 DEF SvcOK
<1>8. RouteTable'
  BY <1>1 DEF RouteTable, IInv
<1> QED
  BY <1>4, <1>7, <1>8 DEF IInv

(***************************************************************************)
(* The entry of the connection that is being destroyed is nobody's.        *)
(***************************************************************************)
LEMMA NodeApRemoveCportIInv ==
  ASSUME IInv, NodeApRemoveCport
  PROVE  IInv'
<1> DEFINE e == svc.conn
<1>1. /\ svc.pc = "removeCport"
      /\ svc' = [svc EXCEPT !.pc = "removeIntf"]
      /\ node_ap_map' = [node_ap_map EXCEPT ![e.ap].node_cport = 0]
      /\ UNCHANGED <<intfs, established>>
      /\ Observe
  BY DEF NodeApRemoveCport
<1>2. e \in Conns /\ svc = [pc |-> "removeCport", conn |-> e]
  BY <1>1 DEF IInv, RoutesTypeOK, NoRequest
<1>3. svc' = [pc |-> "removeIntf", conn |-> e]
  BY <1>1, <1>2
<1>4. InProgress(svc') \in SUBSET Conns /\ Destroying(svc') /\ Destroying(svc)
  BY <1>1, <1>2, <1>3 DEF InProgress, Destroying
<1>5. e.ap \in ApCports /\ \A d \in established : d.ap # e.ap /\ d.ap \in ApCports
  BY <1>1, <1>2 DEF IInv, SvcOK, RoutesTypeOK, Conns
<1>6. /\ \A a \in ApCports : a # e.ap => node_ap_map'[a] = node_ap_map[a]
      /\ node_ap_map' \in [ApCports -> [node_intf : Intfs \cup {None}, node_cport : Cports]]
  BY <1>1, <1>5, BridgeAssumption DEF IInv, RoutesTypeOK
<1>7. RoutesTypeOK' /\ LookupOK' /\ CreateNeverMisroutes' /\ NodeFound'
  BY <1>1, <1>2, <1>3, <1>4, <1>6, ObserveKeeps DEF IInv, RoutesTypeOK
<1>8. SvcOK'
  <2>1. \A a \in ApCports : a # e.ap /\ node_ap_map[a].node_intf # None =>
          Conn(node_ap_map[a].node_intf, node_ap_map[a].node_cport, a) \in established
    BY DEF IInv, SvcOK
  <2> QED
    BY <1>1, <1>3, <1>4, <1>5, <1>6, <2>1 DEF SvcOK
<1>9. RouteTable'
  BY <1>1, <1>3, <1>5, <1>6 DEF RouteTable, IInv
<1> QED
  BY <1>7, <1>8, <1>9 DEF IInv

LEMMA NodeApRemoveIntfIInv ==
  ASSUME IInv, NodeApRemoveIntf
  PROVE  IInv'
<1> DEFINE e == svc.conn
<1>1. /\ svc.pc = "removeIntf"
      /\ svc' = NoRequest
      /\ node_ap_map' = [node_ap_map EXCEPT ![e.ap].node_intf = None]
      /\ UNCHANGED <<intfs, established>>
      /\ Observe
  BY DEF NodeApRemoveIntf
<1>2. e \in Conns
  BY <1>1 DEF IInv, RoutesTypeOK, NoRequest
<1>3. InProgress(svc') \in SUBSET Conns /\ ~Destroying(svc') /\ Destroying(svc)
  BY <1>1 DEF InProgress, Destroying, NoRequest
<1>4. e.ap \in ApCports /\ \A d \in established : d.ap # e.ap /\ d.ap \in ApCports
  BY <1>1, <1>2 DEF IInv, SvcOK, RoutesTypeOK, Conns
<1>5. /\ node_ap_map'[e.ap].node_intf = None
      /\ \A a \in ApCports : a # e.ap => node_ap_map'[a] = node_ap_map[a]
      /\ node_ap_map' \in [ApCports -> [node_intf : Intfs \cup {None}, node_cport : Cports]]
  BY <1>1, <1>4 DEF IInv, RoutesTypeOK
<1>6. RoutesTypeOK' /\ LookupOK' /\ CreateNeverMisroutes' /\ NodeFound'
  BY <1>1, <1>3, <1>5, ObserveKeeps DEF IInv, RoutesTypeOK
<1>7. \A a \in ApCports : node_ap_map'[a].node_intf # None =>
        Conn(node_ap_map'[a].node_intf, node_ap_map'[a].node_cport, a) \in established
  BY <1>5 DEF IInv, SvcOK
<1>8. SvcOK'
  BY <1>1, <1>7 DEF SvcOK, NoRequest
<1>9. RouteTable'
  BY <1>1, <1>4, <1>5, <1>7 DEF RouteTable, IInv
<1> QED
  BY <1>6, <1>8, <1>9 DEF IInv

(***************************************************************************)
(* What LookupOK, CreateNeverMisroutes and NodeFound say of one lookup,  *)
(* and that a step of one sender has only that to keep.                    *)
(***************************************************************************)
LookupInv(l) ==
  /\ l.pc # "idle" =>
      /\ PeersIn(established, l.intf, l.cport) \subseteq l.possible
      /\ l.stable \subseteq PeersIn(established, l.intf, l.cport)
      /\ l.intf # None
      /\ l.quiet => ~Destroying(svc)
      /\ l.pc # "done" => l.target = None /\ \A a \in l.stable : a >= l.i
      /\ l.pc = "cport" => l.i < NumRoutes
      /\ l.pc = "cport" /\ l.quiet => node_ap_map[l.i].node_intf = l.intf
  /\ l.pc = "done" /\ l.quiet => l.target \in l.possible \cup {None}
  /\ l.pc = "done" /\ l.stable # {} => l.target # None

LEMMA SenderStep ==
  ASSUME IInv, NEW s \in Senders, NEW l, l \in Lookups, LookupInv(l),
         sender' = [sender EXCEPT ![s] = l],
         UNCHANGED <<intfs, node_ap_map, svc, established>>
  PROVE  IInv'
<1>1. RoutesTypeOK'
  BY DEF IInv, RoutesTypeOK
<1>2. SvcOK' /\ RouteTable'
  BY DEF IInv, SvcOK, RouteTable
<1>3. sender'[s] = l /\ \A r \in Senders : r # s => sender'[r] = sender[r]
  BY DEF IInv, RoutesTypeOK
<1>4. LookupOK'
  BY <1>3 DEF IInv, LookupOK, LookupInv
<1>5. CreateNeverMisroutes' /\ NodeFound'
  BY <1>3 DEF IInv, CreateNeverMisroutes, NodeFound, LookupInv
<1> QED
  BY <1>1, <1>2, <1>4, <1>5 DEF IInv

LEMMA SenderInv ==
  ASSUME IInv, NEW s \in Senders
  PROVE  sender[s] \in Lookups /\ LookupInv(sender[s])
BY DEF IInv, RoutesTypeOK, LookupOK, CreateNeverMisroutes, NodeFound, LookupInv

LEMMA LookupIInv ==
  ASSUME IInv, NEW s \in Senders, NEW n \in Intfs, NEW c \in Cports, Lookup(s, n, c)
  PROVE  IInv'
<1> DEFINE P == PeersIn(established \cup InProgress(svc), n, c)
           S == PeersIn(established, n, c)
           q == ~Destroying(svc)
           l == [pc |-> "intf", intf |-> n, cport |-> c, i |-> 0, target |-> None,
                 possible |-> P, stable |-> S, quiet |-> q]
<1>1. sender' = [sender EXCEPT ![s] = l] /\ UNCHANGED <<intfs, node_ap_map, svc, established>>
  BY DEF Lookup
<1>2. established \in SUBSET Conns /\ InProgress(svc) \in SUBSET Conns
  BY DEF IInv, RoutesTypeOK, InProgress, NoRequest
<1>3. P \in SUBSET ApCports /\ S \in SUBSET ApCports /\ S \subseteq P
  <2>1. established \cup InProgress(svc) \in SUBSET Conns
    BY <1>2
  <2>2. P \subseteq ApCports /\ S \subseteq ApCports
    BY <1>2, <2>1, PeersTyped
  <2>3. S \subseteq P
    BY DEF PeersIn
  <2> QED
    BY <2>2, <2>3
<1>4. n # None /\ 0 \in 0..NumRoutes
  BY BridgeAssumption DEF Intfs
<1>5. q \in BOOLEAN
  OBVIOUS
<1>6. l \in Lookups
  <2> HIDE DEF P, S, q
  <2> QED
    BY <1>3, <1>4, <1>5 DEF Lookups
<1>7. \A a \in S : a >= 0
  BY <1>3 DEF ApCports
<1>8. LookupInv(l)
  BY <1>3, <1>4, <1>7 DEF LookupInv
<1> HIDE DEF l
<1> QED
  BY <1>1, <1>6, <1>8, SenderStep

(***************************************************************************)
(* An entry that a lookup passes over is not that of a connection it must  *)
(* find.                                                                   *)
(***************************************************************************)
LEMMA StableEntry ==
  ASSUME IInv, NEW n, NEW c, NEW a \in PeersIn(established, n, c)
  PROVE  /\ a \in ApCports
         /\ node_ap_map[a].node_intf = n
         /\ node_ap_map[a].node_cport = c
<1>1. PICK e \in established : e.intf = n /\ e.cport = c /\ e.ap = a
  BY DEF PeersIn
<1>2. node_ap_map[a] = [node_intf |-> n, node_cport |-> c]
  BY <1>1 DEF IInv, RouteTable
<1>3. e \in Conns
  BY DEF IInv, RoutesTypeOK
<1> QED
  BY <1>1, <1>2, <1>3 DEF Conns

LEMMA ReadIntfIInv ==
  ASSUME IInv, NEW s \in Senders, ReadIntf(s)
  PROVE  IInv'
<1> DEFINE l == sender[s]
<1>1. l.pc = "intf" /\ l.i < NumRoutes /\ UNCHANGED <<intfs, node_ap_map, svc, established>>
  BY DEF ReadIntf
<1>2. l \in Lookups /\ LookupInv(l)
  BY SenderInv
<1>3. CASE node_ap_map[l.i].node_intf = l.intf
  <2> DEFINE m == [l EXCEPT !.pc = "cport"]
  <2>1. sender' = [sender EXCEPT ![s] = m]
    BY <1>3 DEF ReadIntf
  <2>2. m \in Lookups
    BY <1>2 DEF Lookups
  <2>3. /\ m.pc = "cport" /\ m.intf = l.intf /\ m.cport = l.cport /\ m.i = l.i
        /\ m.target = l.target /\ m.possible = l.possible /\ m.stable = l.stable
        /\ m.quiet = l.quiet
    BY <1>2 DEF Lookups
  <2> HIDE DEF m
  <2>4. LookupInv(m)
    BY <1>1, <1>2, <1>3, <2>3 DEF LookupInv
  <2> QED
    BY <1>1, <2>1, <2>2, <2>4, SenderStep
<1>4. CASE node_ap_map[l.i].node_intf # l.intf
  <2> DEFINE m == [l EXCEPT !.i = l.i + 1]
  <2>1. sender' = [sender EXCEPT ![s] = m]
    BY <1>4 DEF ReadIntf
  <2>2. l.i + 1 \in 0..NumRoutes
    BY <1>1, <1>2, BridgeAssumption DEF Lookups
  <2>3. m \in Lookups
    BY <1>2, <2>2 DEF Lookups
  <2>4. /\ m.pc = l.pc /\ m.intf = l.intf /\ m.cport = l.cport /\ m.i = l.i + 1
        /\ m.target = l.target /\ m.possible = l.possible /\ m.stable = l.stable
        /\ m.quiet = l.quiet
    BY <1>2 DEF Lookups
  <2>5. \A a \in l.stable : a >= l.i + 1
    <3>1. SUFFICES ASSUME NEW a \in l.stable PROVE a >= l.i + 1
      OBVIOUS
    <3>2. a \in PeersIn(established, l.intf, l.cport) /\ a >= l.i
      BY <1>1, <1>2 DEF LookupInv
    <3>3. a \in ApCports /\ a # l.i
      BY <1>4, <3>2, StableEntry
    <3>4. a \in Nat /\ l.i \in Nat
      BY <1>2, <3>3, BridgeAssumption DEF ApCports, Lookups
    <3> QED
      BY <3>2, <3>3, <3>4
  <2> HIDE DEF m
  <2>6. LookupInv(m)
    BY <1>1, <1>2, <2>4, <2>5 DEF LookupInv
  <2> QED
    BY <1>1, <2>1, <2>3, <2>6, SenderStep
<1> QED
  BY <1>3, <1>4

(***************************************************************************)
(* A match: unless a connection is being destroyed, the entry is one the   *)
(* AP knows of (SvcOK), so that the sender was connected to it.            *)
(***************************************************************************)
LEMMA ReadCportIInv ==
  ASSUME IInv, NEW s \in Senders, ReadCport(s)
  PROVE  IInv'
<1> DEFINE l == sender[s]
<1>1. l.pc = "cport" /\ UNCHANGED <<intfs, node_ap_map, svc, established>>
  BY DEF ReadCport
<1>2. l \in Lookups /\ LookupInv(l)
  BY SenderInv
<1>3. l.i < NumRoutes /\ l.i \in 0..NumRoutes
  BY <1>1, <1>2 DEF LookupInv, Lookups
<1>4. l.i \in ApCports /\ l.i + 1 \in 0..NumRoutes /\ l.i # None
  BY <1>3, BridgeAssumption DEF ApCports
<1>5. CASE node_ap_map[l.i].node_cport = l.cport
  <2> DEFINE m == [l EXCEPT !.pc = "done", !.target = l.i]
  <2>1. sender' = [sender EXCEPT ![s] = m]
    BY <1>5 DEF ReadCport
  <2>2. m \in Lookups
    BY <1>2, <1>4 DEF Lookups
  <2>3. /\ m.pc = "done" /\ m.intf = l.intf /\ m.cport = l.cport /\ m.i = l.i
        /\ m.target = l.i /\ m.possible = l.possible /\ m.stable = l.stable
        /\ m.quiet = l.quiet
    BY <1>2 DEF Lookups
  <2>4. l.quiet => l.i \in l.possible
    <3>1. SUFFICES ASSUME l.quiet PROVE l.i \in l.possible
      OBVIOUS
    <3>2. /\ ~Destroying(svc)
          /\ node_ap_map[l.i].node_intf = l.intf
          /\ l.intf # None
          /\ PeersIn(established, l.intf, l.cport) \subseteq l.possible
      BY <1>1, <1>2, <3>1 DEF LookupInv
    <3>3. Conn(l.intf, l.cport, l.i) \in established
      BY <1>4, <1>5, <3>2 DEF IInv, SvcOK
    <3>4. l.i \in PeersIn(established, l.intf, l.cport)
      BY <3>3 DEF PeersIn, Conn
    <3> QED
      BY <3>2, <3>4
  <2> HIDE DEF m
  <2>5. LookupInv(m)
    BY <1>1, <1>2, <1>4, <2>3, <2>4 DEF LookupInv
  <2> QED
    BY <1>1, <2>1, <2>2, <2>5, SenderStep
<1>6. CASE node_ap_map[l.i].node_cport # l.cport
  <2> DEFINE m == [l EXCEPT !.pc = "intf", !.i = l.i + 1]
  <2>1. sender' = [sender EXCEPT ![s] = m]
    BY <1>6 DEF ReadCport
  <2>2. m \in Lookups
    BY <1>2, <1>4 DEF Lookups
  <2>3. /\ m.pc = "intf" /\ m.intf = l.intf /\ m.cport = l.cport /\ m.i = l.i + 1
        /\ m.target = l.target /\ m.possible = l.possible /\ m.stable = l.stable
        /\ m.quiet = l.quiet
    BY <1>2 DEF Lookups
  <2>4. \A a \in l.stable : a >= l.i + 1
    <3>1. SUFFICES ASSUME NEW a \in l.stable PROVE a >= l.i + 1
      OBVIOUS
    <3>2. a \in PeersIn(established, l.intf, l.cport) /\ a >= l.i
      BY <1>1, <1>2 DEF LookupInv
    <3>3. a \in ApCports /\ a # l.i
      BY <1>6, <3>2, StableEntry
    <3>4. a \in Nat /\ l.i \in Nat
      BY <1>3, <3>3, BridgeAssumption DEF ApCports
    <3> QED
      BY <3>2, <3>3, <3>4
  <2> HIDE DEF m
  <2>5. LookupInv(m)
    BY <1>1, <1>2, <2>3, <2>4 DEF LookupInv
  <2> QED
    BY <1>1, <2>1, <2>2, <2>5, SenderStep
<1> QED
  BY <1>5, <1>6

(***************************************************************************)
(* All entries passed over: none was connected throughout.                 *)
(***************************************************************************)
LEMMA NotFoundIInv ==
  ASSUME IInv, NEW s \in Senders, NotFound(s)
  PROVE  IInv'
<1> DEFINE l == sender[s]
           m == [l EXCEPT !.pc = "done"]
<1>1. /\ l.pc = "intf" /\ l.i = NumRoutes
      /\ UNCHANGED <<intfs, node_ap_map, svc, established>>
  BY DEF NotFound
<1>2. l \in Lookups /\ LookupInv(l)
  BY SenderInv
<1>3. sender' = [sender EXCEPT ![s] = m]
  BY DEF NotFound
<1>4. m \in Lookups
  BY <1>2 DEF Lookups
<1>5. /\ m.pc = "done" /\ m.intf = l.intf /\ m.cport = l.cport /\ m.i = l.i
      /\ m.target = l.target /\ m.possible = l.possible /\ m.stable = l.stable
      /\ m.quiet = l.quiet
  BY <1>2 DEF Lookups
<1>6. l.target = None /\ \A a \in l.stable : a >= NumRoutes
  BY <1>1, <1>2 DEF LookupInv
<1>7. l.stable = {}
  BY <1>2, <1>6, BridgeAssumption DEF Lookups, ApCports
<1> HIDE DEF m
<1>8. LookupInv(m)
  BY <1>1, <1>2, <1>5, <1>6, <1>7 DEF LookupInv
<1> QED
  BY <1>1, <1>3, <1>4, <1>8, SenderStep

LEMMA WriteIInv ==
  ASSUME IInv, NEW s \in Senders, Write(s)
  PROVE  IInv'
<1>1. sender' = [sender EXCEPT ![s] = NoLookup] /\ UNCHANGED <<intfs, node_ap_map, svc, established>>
  BY DEF Write
<1>2. NoLookup \in Lookups
  BY BridgeAssumption DEF NoLookup, Lookups
<1>3. LookupInv(NoLookup)
  BY DEF NoLookup, LookupInv
<1> QED
  BY <1>1, <1>2, <1>3, SenderStep

(***************************************************************************)
(* What the AP sends reads the table and changes nothing.                  *)
(***************************************************************************)
LEMMA ApIInv ==
  ASSUME IInv, UNCHANGED <<intfs, node_ap_map, svc, established, sender>>
  PROVE  IInv'
BY DEF IInv, RoutesTypeOK, SvcOK, RouteTable, LookupOK, CreateNeverMisroutes, NodeFound

LEMMA NextIInv ==
  ASSUME IInv, [Next]_vars
  PROVE  IInv'
<1>1. ASSUME NEW n \in Nodes, InterfaceAdd(n) \/ InterfaceRemove(n)
      PROVE  IInv'
  BY <1>1, InterfaceIInv
<1>2. ASSUME NEW n \in Nodes, NEW c \in Cports, NEW a \in ApCports,
             ApCreates(Conn(n, c, a))
      PROVE  IInv'
  <2>1. Conn(n, c, a) \in Conns
    BY DEF Conn, Conns, Intfs
  <2> QED
    BY <1>2, <2>1, ApCreatesIInv
<1>3. ASSUME NEW e \in established, ApDestroys(e)
      PROVE  IInv'
  BY <1>3, ApDestroysIInv
<1>4. CASE SvcRequest
  BY <1>4, CreateFailsIInv, NodeApAddCportIInv, NodeApAddIntfIInv,
     NodeApRemoveCportIInv, NodeApRemoveIntfIInv DEF SvcRequest
<1>5. ASSUME NEW s \in Senders, Send(s)
      PROVE  IInv'
  BY <1>5, ReadIntfIInv, ReadCportIInv, NotFoundIInv, WriteIInv DEF Send
<1>6. ASSUME NEW s \in Senders, NEW n \in Intfs, NEW c \in Cports, Lookup(s, n, c)
      PROVE  IInv'
  BY <1>6, LookupIInv
<1>7. CASE ApReadCport \/ ApWrite \/ \E e \in established : ApSend(e)
  BY <1>7, ApIInv DEF ApSend, ApReadCport, ApWrite
<1>8. CASE UNCHANGED vars
  BY <1>8, ApIInv DEF vars
<1> QED
  BY <1>1, <1>2, <1>3, <1>4, <1>5, <1>6, <1>7, <1>8 DEF Next

(***************************************************************************)
(* What the AP sends.  Its connection is held unless the AP destroys it,   *)
(* and the entry of a connection that is held is what the AP knows         *)
(* (RouteTable), whichever of the two fields is read.                      *)
(***************************************************************************)
ApInv ==
  /\ ap \in ApSends
  /\ ApOK

LEMMA ApSendKeeps ==
  ASSUME IInv, ApInv, NEW e \in established, ApSend(e)
  PROVE  ApInv'
<1> DEFINE m == [pc |-> "cport", conn |-> e, held |-> TRUE,
                 intf |-> node_ap_map[e.ap].node_intf, cport |-> 0]
<1>1. ap' = m /\ established' = established
  BY DEF ApSend
<1>2. e \in Conns
  BY DEF IInv, RoutesTypeOK
<1>3. node_ap_map[e.ap] = [node_intf |-> e.intf, node_cport |-> e.cport]
  BY DEF IInv, RouteTable
<1>4. node_ap_map[e.ap].node_intf = e.intf
  BY <1>3
<1>5. m \in ApSends
  BY <1>2, <1>4, BridgeAssumption DEF ApSends, Conns
<1> QED
  BY <1>1, <1>4, <1>5 DEF ApInv, ApOK

LEMMA ApReadCportKeeps ==
  ASSUME IInv, ApInv, ApReadCport
  PROVE  ApInv'
<1> DEFINE c == node_ap_map[ap.conn.ap].node_cport
<1>1. /\ ap.pc = "cport"
      /\ ap' = [ap EXCEPT !.pc = "done", !.cport = c]
      /\ established' = established
  BY DEF ApReadCport
<1>2. /\ ap \in [pc : {"cport", "done"}, conn : Conns, held : BOOLEAN,
                 intf : Intfs \cup {None}, cport : Cports]
  BY <1>1 DEF ApInv, ApSends, NoSend
<1>3. c \in Cports
  BY <1>2 DEF IInv, RoutesTypeOK, Conns
<1>4. ap.held => c = ap.conn.cport
  <2>1. SUFFICES ASSUME ap.held PROVE c = ap.conn.cport
    OBVIOUS
  <2>2. ap.conn \in established
    BY <2>1 DEF ApInv, ApOK
  <2>3. node_ap_map[ap.conn.ap] = [node_intf |-> ap.conn.intf, node_cport |-> ap.conn.cport]
    BY <2>2 DEF IInv, RouteTable
  <2> QED
    BY <2>3
<1> HIDE DEF c
<1>5. /\ ap' \in ApSends
      /\ ap'.conn = ap.conn /\ ap'.held = ap.held /\ ap'.intf = ap.intf /\ ap'.cport = c
  BY <1>1, <1>2, <1>3 DEF ApSends
<1> QED
  BY <1>1, <1>4, <1>5 DEF ApInv, ApOK

LEMMA ApDestroysKeeps ==
  ASSUME ApInv, NEW e \in established, ApDestroys(e)
  PROVE  ApInv'
<1> DEFINE h == ap.held /\ ap.conn # e
<1>1. ap' = [ap EXCEPT !.held = h] /\ established' = established \ {e}
  BY DEF ApDestroys
<1>2. h \in BOOLEAN /\ (h => ap.held /\ ap.conn # e)
  OBVIOUS
<1> HIDE DEF h
<1>3. CASE ap = NoSend
  <2>1. ~ap.held
    BY <1>3 DEF NoSend
  <2>2. ap' = NoSend
    BY <1>1, <1>2, <1>3, <2>1 DEF NoSend
  <2> QED
    BY <2>2 DEF ApInv, ApSends, ApOK, NoSend
<1>4. CASE ap # NoSend
  <2>1. ap \in [pc : {"cport", "done"}, conn : Conns, held : BOOLEAN,
               intf : Intfs \cup {None}, cport : Cports]
    BY <1>4 DEF ApInv, ApSends
  <2>2. /\ ap' \in ApSends
        /\ ap'.conn = ap.conn /\ ap'.held = h /\ ap'.pc = ap.pc
        /\ ap'.intf = ap.intf /\ ap'.cport = ap.cport
    BY <1>1, <1>2, <2>1 DEF ApSends
  <2> QED
    BY <1>1, <1>2, <2>2 DEF ApInv, ApOK
<1> QED
  BY <1>3, <1>4

LEMMA NextApInv ==
  ASSUME IInv, ApInv, [Next]_vars
  PROVE  ApInv'
<1>1. ASSUME ap' = ap, established \subseteq established'
      PROVE  ApInv'
  BY <1>1 DEF ApInv, ApOK
<1>2. ASSUME NEW n \in Nodes, InterfaceAdd(n) \/ InterfaceRemove(n)
      PROVE  ApInv'
  BY <1>1, <1>2 DEF InterfaceAdd, InterfaceRemove
<1>3. ASSUME NEW n \in Nodes, NEW c \in Cports, NEW a \in ApCports,
             ApCreates(Conn(n, c, a))
      PROVE  ApInv'
  BY <1>1, <1>3 DEF ApCreates
<1>4. ASSUME NEW e \in established, ApDestroys(e)
      PROVE  ApInv'
  BY <1>4, ApDestroysKeeps
<1>5. CASE SvcRequest
  BY <1>1, <1>5 DEF SvcRequest, CreateFails, NodeApAddCport, NodeApAddIntf,
     NodeApRemoveCport, NodeApRemoveIntf
<1>6. ASSUME NEW e \in established, ApSend(e)
      PROVE  ApInv'
  BY <1>6, ApSendKeeps
<1>7. CASE ApReadCport
  BY <1>7, ApReadCportKeeps
<1>8. CASE ApWrite
  BY <1>8 DEF ApWrite, ApInv, ApSends, ApOK, NoSend
<1>9. ASSUME NEW s \in Senders, Send(s)
      PROVE  ApInv'
  BY <1>1, <1>9 DEF Send, ReadIntf, ReadCport, NotFound, Write
<1>10. ASSUME NEW s \in Senders, NEW n \in Intfs, NEW c \in Cports, Lookup(s, n, c)
      PROVE  ApInv'
  BY <1>1, <1>10 DEF Lookup
<1>11. CASE UNCHANGED vars
  BY <1>1, <1>11 DEF vars
<1> QED
  BY <1>2, <1>3, <1>4, <1>5, <1>6, <1>7, <1>8, <1>9, <1>10, <1>11 DEF Next

-----------------------------------------------------------------------------
(***************************************************************************)
(* Every reachable state satisfies the inductive invariant.                *)
(***************************************************************************)
THEOREM Invariance == Spec => [](IInv /\ ApInv)
<1>1. Init => IInv /\ ApInv
  BY InitIInv DEF Init, ApInv, ApSends, ApOK, NoSend
<1>2. IInv /\ ApInv /\ [Next]_vars => IInv' /\ ApInv'
  BY NextIInv, NextApInv
<1> QED
  BY <1>1, <1>2, PTL DEF Spec

(***************************************************************************)
(* Whatever the SVC requests and the lookups of the senders do to each     *)
(* other, node_ap_map keeps AP cports of existing interfaces only, and a   *)
(* lookup stays within the table.                                          *)
(***************************************************************************)
THEOREM TypeCorrect == Spec => []TypeOK
<1>1. IInv /\ ApInv => TypeOK
  BY DEF IInv, ApInv, TypeOK
<1> QED
  BY <1>1, Invariance, PTL

(***************************************************************************)
(* Between SVC requests node_ap_map is what the AP believes it to be.      *)
(***************************************************************************)
THEOREM RoutesAsTheApKnows == Spec => []RouteTable
<1>1. IInv => RouteTable
  BY DEF IInv
<1> QED
  BY <1>1, Invariance, PTL

(***************************************************************************)
(* A connection being created never makes a lookup on another thread       *)
(* return an AP cport its sender was not connected to.                     *)
(***************************************************************************)
THEOREM CreationIsSafe == Spec => []CreateNeverMisroutes
<1>1. IInv => CreateNeverMisroutes
  BY DEF IInv
<1> QED
  BY <1>1, Invariance, PTL

(***************************************************************************)
(* A cport that stays connected during a lookup is found, and what the AP  *)
(* sends on a connection that stays reaches that connection's other side.  *)
(***************************************************************************)
THEOREM ConnectedIsFound == Spec => []StableFound
<1>1. IInv /\ ApInv => StableFound
  BY DEF IInv, ApInv, ApOK, ApFound, StableFound
<1> QED
  BY <1>1, Invariance, PTL
=============================================================================
