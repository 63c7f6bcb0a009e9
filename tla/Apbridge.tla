----------------------------- MODULE Apbridge -----------------------------
(***************************************************************************)
(* The APBridge routes between the cports of the AP and those of the node  *)
(* interfaces (apbridge.c, interfaces.c).  The SVC creates and destroys    *)
(* connections at the AP's request, on the thread the AP's messages come   *)
(* in on; nodes look up where to send on threads of their own, and what    *)
(* the AP sends is forwarded by its entry.  The route table node_ap_map    *)
(* has no lock: an entry is written field by field while others read it    *)
(* field by field.                                                         *)
(*                                                                         *)
(* The fields are written in the order of the program, node_intf is read   *)
(* once per entry (line 49), and each access is atomic: what compilers     *)
(* make of it for the single-core targets.  A removed interface keeps its  *)
(* id (only tests call gb_interface_dealloc).                              *)
(*                                                                         *)
(* The AP is external, and so is the interface that calls gb_apbridge_send *)
(* for it: it never connects an AP cport or a node cport twice, waits for  *)
(* one SVC request at a time, and sends on cports it knows to be connected *)
(* (an index that is in the table, and an entry that is not NULL when it   *)
(* starts), one message at a time.  Its interface is there and can write.  *)
(***************************************************************************)
EXTENDS Naturals

CONSTANTS
  Nodes,     \* node interfaces (id >= INTF_START_ID)
  Svc,       \* the SVC interface
  Cports,    \* cports of a node; 0 is its control cport
  NumRoutes, \* AP_MAX_NODES, the size of node_ap_map
  Senders,   \* threads that send for a node or for the SVC
  None       \* NULL, no target

ASSUME BridgeAssumption ==
  /\ Svc \notin Nodes
  /\ None \notin Nodes \cup {Svc}
  /\ Cports \subseteq Nat /\ 0 \in Cports
  /\ NumRoutes \in Nat \ {0}
  /\ None \notin 0..NumRoutes

ApCports == 0..NumRoutes - 1
Intfs == Nodes \cup {Svc}

VARIABLES
  intfs,         \* the interfaces gb_interface_get finds
  node_ap_map,   \* per AP cport: node_intf and node_cport
  svc,           \* the SVC request being handled: pc and connection
  established,   \* the connections the AP knows of
  sender,        \* per thread: a lookup, and what was connected during it
  ap             \* what the AP sends: its connection and whether that is held
                 \* since, and what was read of the entry

vars == <<intfs, node_ap_map, svc, established, sender, ap>>

Conn(n, c, a) == [intf |-> n, cport |-> c, ap |-> a]
NoRoute == [node_intf |-> None, node_cport |-> 0]
NoRequest == [pc |-> "idle", conn |-> None]
NoLookup == [pc |-> "idle", intf |-> None, cport |-> 0, i |-> 0, target |-> None,
             possible |-> {}, stable |-> {}, quiet |-> TRUE]
NoSend == [pc |-> "idle", conn |-> None, held |-> FALSE, intf |-> None, cport |-> 0]

\* After gb_svc_init: AP cport 0 is connected to cport 0 of the SVC.
Init ==
  /\ intfs = {Svc}
  /\ node_ap_map = [a \in ApCports |->
       IF a = 0 THEN [node_intf |-> Svc, node_cport |-> 0] ELSE NoRoute]
  /\ svc = NoRequest
  /\ established = {Conn(Svc, 0, 0)}
  /\ sender = [s \in Senders |-> NoLookup]
  /\ ap = NoSend

-----------------------------------------------------------------------------
(* What a lookup may find: the AP cports connected to its cport at some    *)
(* time, those connected all the time, and whether no connection was being *)
(* destroyed meanwhile.                                                    *)

PeersIn(conns, n, c) == {e.ap : e \in {d \in conns : d.intf = n /\ d.cport = c}}
InProgress(request) == IF request.pc = "idle" THEN {} ELSE {request.conn}
Destroying(request) == request.pc \in {"removeCport", "removeIntf"}

Observe ==
  sender' = [s \in Senders |->
    LET l == sender[s] IN
    IF l.pc = "idle" THEN l ELSE
    [l EXCEPT
       !.possible = @ \cup PeersIn(established' \cup InProgress(svc'), l.intf, l.cport),
       !.stable = @ \cap PeersIn(established', l.intf, l.cport),
       !.quiet = @ /\ ~Destroying(svc')]]

-----------------------------------------------------------------------------
(* Node interfaces come and go (gb_interface_add, gb_interface_remove).    *)

InterfaceAdd(n) ==
  /\ n \notin intfs
  /\ intfs' = intfs \cup {n}
  /\ UNCHANGED <<node_ap_map, svc, established, sender, ap>>

InterfaceRemove(n) ==
  /\ n \in intfs
  /\ intfs' = intfs \ {n}
  /\ UNCHANGED <<node_ap_map, svc, established, sender, ap>>

-----------------------------------------------------------------------------
(* gb_apbridge_connection_create and gb_apbridge_connection_destroy.       *)

ApCreates(e) ==
  /\ svc.pc = "idle"
  /\ \A d \in established : d.ap # e.ap /\ <<d.intf, d.cport>> # <<e.intf, e.cport>>
  /\ svc' = [pc |-> "create", conn |-> e]
  /\ UNCHANGED <<intfs, node_ap_map, established, ap>>
  /\ Observe

\* The interface is gone, its create_connection fails, or the AP cport is
\* taken or beyond the table: the SVC replies with an error.
CreateFails ==
  /\ svc.pc = "create"
  /\ svc' = NoRequest
  /\ UNCHANGED <<intfs, node_ap_map, established, ap>>
  /\ Observe

\* Mutant: the interface is written before the cport.
NodeApAddIntfFirst ==
  /\ svc.pc = "create"
  /\ svc.conn.intf \in intfs
  /\ node_ap_map[svc.conn.ap].node_intf = None
  /\ node_ap_map' = [node_ap_map EXCEPT ![svc.conn.ap].node_intf = svc.conn.intf]
  /\ svc' = [svc EXCEPT !.pc = "add"]
  /\ UNCHANGED <<intfs, established, ap>>
  /\ Observe

\* node_ap_add: the entry is free; its cport is written first ...
NodeApAddCport ==
  /\ svc.pc = "create"
  /\ svc.conn.intf \in intfs
  /\ node_ap_map[svc.conn.ap].node_intf = None
  /\ node_ap_map' = [node_ap_map EXCEPT ![svc.conn.ap].node_cport = svc.conn.cport]
  /\ svc' = [svc EXCEPT !.pc = "add"]
  /\ UNCHANGED <<intfs, established, ap>>
  /\ Observe

\* ... and then its interface.  The SVC replies.
NodeApAddIntf ==
  /\ svc.pc = "add"
  /\ node_ap_map' = [node_ap_map EXCEPT ![svc.conn.ap].node_intf = svc.conn.intf]
  /\ established' = established \cup {svc.conn}
  /\ svc' = NoRequest
  /\ UNCHANGED <<intfs, ap>>
  /\ Observe

ApDestroys(e) ==
  /\ svc.pc = "idle"
  /\ established' = established \ {e}
  /\ svc' = [pc |-> "removeCport", conn |-> e]
  /\ ap' = [ap EXCEPT !.held = @ /\ ap.conn # e]
  /\ UNCHANGED <<intfs, node_ap_map>>
  /\ Observe

\* node_ap_remove: the cport first ...
NodeApRemoveCport ==
  /\ svc.pc = "removeCport"
  /\ node_ap_map' = [node_ap_map EXCEPT ![svc.conn.ap].node_cport = 0]
  /\ svc' = [svc EXCEPT !.pc = "removeIntf"]
  /\ UNCHANGED <<intfs, established, ap>>
  /\ Observe

\* Mutant: the interface is only cleared while it is in the cache.
NodeApRemoveIntfCached ==
  /\ svc.pc = "removeIntf"
  /\ node_ap_map' = IF svc.conn.intf \in intfs
                    THEN [node_ap_map EXCEPT ![svc.conn.ap].node_intf = None]
                    ELSE node_ap_map
  /\ svc' = NoRequest
  /\ UNCHANGED <<intfs, established, ap>>
  /\ Observe

\* ... then the interface, whether it is still there or not.
NodeApRemoveIntf ==
  /\ svc.pc = "removeIntf"
  /\ node_ap_map' = [node_ap_map EXCEPT ![svc.conn.ap].node_intf = None]
  /\ svc' = NoRequest
  /\ UNCHANGED <<intfs, established, ap>>
  /\ Observe

-----------------------------------------------------------------------------
(* gb_apbridge_send of a node or of the SVC: node_to_ap_cport.             *)

Lookup(s, n, c) ==
  /\ sender[s].pc = "idle"
  /\ sender' = [sender EXCEPT ![s] =
       [pc |-> "intf", intf |-> n, cport |-> c, i |-> 0, target |-> None,
        possible |-> PeersIn(established \cup InProgress(svc), n, c),
        stable |-> PeersIn(established, n, c),
        quiet |-> ~Destroying(svc)]]
  /\ UNCHANGED <<intfs, node_ap_map, svc, established, ap>>

\* One entry of node_to_ap_cport: node_intf ...
ReadIntf(s) ==
  LET l == sender[s] IN
  /\ l.pc = "intf"
  /\ l.i < NumRoutes
  /\ sender' = [sender EXCEPT ![s] =
       IF node_ap_map[l.i].node_intf = l.intf THEN [l EXCEPT !.pc = "cport"]
       ELSE [l EXCEPT !.i = @ + 1]]
  /\ UNCHANGED <<intfs, node_ap_map, svc, established, ap>>

\* ... and then, when it is the sender's interface, node_cport.
ReadCport(s) ==
  LET l == sender[s] IN
  /\ l.pc = "cport"
  /\ sender' = [sender EXCEPT ![s] =
       IF node_ap_map[l.i].node_cport = l.cport
       THEN [l EXCEPT !.pc = "done", !.target = l.i]
       ELSE [l EXCEPT !.pc = "intf", !.i = @ + 1]]
  /\ UNCHANGED <<intfs, node_ap_map, svc, established, ap>>

\* Mutant: the last entry is not searched.
NotFoundEarly(s) ==
  /\ sender[s].pc = "intf"
  /\ sender[s].i >= NumRoutes - 1
  /\ sender' = [sender EXCEPT ![s].pc = "done"]
  /\ UNCHANGED <<intfs, node_ap_map, svc, established, ap>>

\* Mutant: the index after the last entry is returned instead of -EINVAL.
NotFoundIndex(s) ==
  /\ sender[s].pc = "intf"
  /\ sender[s].i = NumRoutes
  /\ sender' = [sender EXCEPT ![s].pc = "done", ![s].target = NumRoutes]
  /\ UNCHANGED <<intfs, node_ap_map, svc, established, ap>>

\* -EINVAL.
NotFound(s) ==
  /\ sender[s].pc = "intf"
  /\ sender[s].i = NumRoutes
  /\ sender' = [sender EXCEPT ![s].pc = "done"]
  /\ UNCHANGED <<intfs, node_ap_map, svc, established, ap>>

\* The message is written to cport target of the AP, or the call fails.
Write(s) ==
  /\ sender[s].pc = "done"
  /\ sender' = [sender EXCEPT ![s] = NoLookup]
  /\ UNCHANGED <<intfs, node_ap_map, svc, established, ap>>

-----------------------------------------------------------------------------
(* gb_apbridge_send of the AP: the entry of its cport is not looked for.   *)

\* Its node_intf is read ...
ApSend(e) ==
  /\ ap.pc = "idle"
  /\ ap' = [pc |-> "cport", conn |-> e, held |-> TRUE,
            intf |-> node_ap_map[e.ap].node_intf, cport |-> 0]
  /\ UNCHANGED <<intfs, node_ap_map, svc, established, sender>>

\* ... and then its node_cport.
ApReadCport ==
  /\ ap.pc = "cport"
  /\ ap' = [ap EXCEPT !.pc = "done", !.cport = node_ap_map[ap.conn.ap].node_cport]
  /\ UNCHANGED <<intfs, node_ap_map, svc, established, sender>>

\* The message is written to that interface.
ApWrite ==
  /\ ap.pc = "done"
  /\ ap' = NoSend
  /\ UNCHANGED <<intfs, node_ap_map, svc, established, sender>>

-----------------------------------------------------------------------------
SvcRequest ==
  \/ CreateFails
  \/ NodeApAddCport
  \/ NodeApAddIntf
  \/ NodeApRemoveCport
  \/ NodeApRemoveIntf

Send(s) == ReadIntf(s) \/ ReadCport(s) \/ NotFound(s) \/ Write(s)

Next ==
  \/ \E n \in Nodes : InterfaceAdd(n) \/ InterfaceRemove(n)
  \/ \E n \in Nodes, c \in Cports, a \in ApCports : ApCreates(Conn(n, c, a))
  \/ \E e \in {d \in established : d.intf # Svc} : ApDestroys(e)
  \/ SvcRequest
  \/ ApReadCport \/ ApWrite \/ \E e \in established : ApSend(e)
  \/ \E s \in Senders : Send(s) \/ \E n \in Intfs, c \in Cports : Lookup(s, n, c)

Spec == Init /\ [][Next]_vars

-----------------------------------------------------------------------------
(* Properties *)

Conns == [intf : Intfs, cport : Cports, ap : ApCports]
Lookups ==
  [pc : {"idle", "intf", "cport", "done"}, intf : Intfs \cup {None}, cport : Cports,
   i : 0..NumRoutes, target : ApCports \cup {None},
   possible : SUBSET ApCports, stable : SUBSET ApCports, quiet : BOOLEAN]

ApSends ==
  [pc : {"cport", "done"}, conn : Conns, held : BOOLEAN, intf : Intfs \cup {None},
   cport : Cports] \cup {NoSend}

RoutesTypeOK ==
  /\ intfs \subseteq Intfs
  /\ node_ap_map \in [ApCports -> [node_intf : Intfs \cup {None}, node_cport : Cports]]
  /\ svc \in [pc : {"create", "add", "removeCport", "removeIntf"}, conn : Conns]
             \cup {NoRequest}
  /\ established \subseteq Conns
  /\ sender \in [Senders -> Lookups]

TypeOK == RoutesTypeOK /\ ap \in ApSends

(***************************************************************************)
(* Between SVC requests the route table is what the AP believes, entry by  *)
(* entry, whatever requests failed and whichever interfaces have left the  *)
(* cache and come back in the meantime.                                    *)
(***************************************************************************)
RouteTable ==
  /\ \A e \in established :
       node_ap_map[e.ap] = [node_intf |-> e.intf, node_cport |-> e.cport]
  /\ svc.pc = "idle" => \A a \in ApCports :
       node_ap_map[a].node_intf # None =>
         Conn(node_ap_map[a].node_intf, node_ap_map[a].node_cport, a) \in established

(***************************************************************************)
(* The strengthening the theorems need: what an entry holds while a        *)
(* request is half done, and what a lookup has established so far.         *)
(***************************************************************************)
SvcOK ==
  /\ svc.pc # "idle" => \A e \in established : e.ap # svc.conn.ap
  /\ svc.pc = "add" => node_ap_map[svc.conn.ap].node_cport = svc.conn.cport
  /\ \A a \in ApCports : node_ap_map[a].node_intf # None =>
       \/ Conn(node_ap_map[a].node_intf, node_ap_map[a].node_cport, a) \in established
       \/ Destroying(svc) /\ svc.conn.ap = a

LookupOK ==
  \A s \in Senders : sender[s].pc # "idle" =>
    /\ PeersIn(established, sender[s].intf, sender[s].cport) \subseteq sender[s].possible
    /\ sender[s].stable \subseteq PeersIn(established, sender[s].intf, sender[s].cport)
    /\ sender[s].intf # None
    /\ sender[s].quiet => ~Destroying(svc)
    /\ sender[s].pc # "done" =>
         sender[s].target = None /\ \A a \in sender[s].stable : a >= sender[s].i
    /\ sender[s].pc = "cport" => sender[s].i < NumRoutes
    /\ sender[s].pc = "cport" /\ sender[s].quiet =>
         node_ap_map[sender[s].i].node_intf = sender[s].intf

(***************************************************************************)
(* A message goes to the AP cport its sender is connected to ("Looks up    *)
(* the target connected inteface and sends the greybus message",           *)
(* apbridge.h).  While its cport is connected, what node_to_ap_cport        *)
(* returns was connected to it at some time of the lookup.                 *)
(***************************************************************************)
RoutedToPeer ==
  \A s \in Senders : sender[s].pc = "done" /\ sender[s].stable # {} =>
    sender[s].target \in sender[s].possible

(***************************************************************************)
(* Creating connections never disturbs a lookup that runs at the same      *)
(* time: the order in which node_ap_add writes the two fields keeps a half *)
(* written entry from matching.                                            *)
(***************************************************************************)
CreateNeverMisroutes ==
  \A s \in Senders : sender[s].pc = "done" /\ sender[s].quiet =>
    sender[s].target \in sender[s].possible \cup {None}

ApOK ==
  ap.held =>
    /\ ap.conn \in established
    /\ ap.intf = ap.conn.intf
    /\ ap.pc = "done" => ap.cport = ap.conn.cport

(***************************************************************************)
(* A message on a connection that is there throughout reaches the other    *)
(* side, whatever is created and destroyed around it: that of a node or of *)
(* the SVC is never refused, that of the AP goes to the interface and the  *)
(* cport it is connected to.                                               *)
(***************************************************************************)
NodeFound ==
  \A s \in Senders : sender[s].pc = "done" /\ sender[s].stable # {} =>
    sender[s].target # None

ApFound ==
  ap.pc = "done" /\ ap.held =>
    ap.intf = ap.conn.intf /\ ap.cport = ap.conn.cport

StableFound == NodeFound /\ ApFound
=============================================================================
