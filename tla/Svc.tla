--------------------------------- MODULE Svc ---------------------------------
(***************************************************************************)
(* The start of the SVC (svc.c): gb_svc_init connects it to the AP, sends  *)
(* its version and waits on a semaphore until the AP has answered the      *)
(* hello that follows.  The AP may be slower than the wait, and then the   *)
(* application may stop the SVC and the bridge and start them again.       *)
(***************************************************************************)
EXTENDS Naturals, Sequences

CONSTANTS
  MaxInits, \* bounds on the calls of gb_svc_init
  MaxEvents \* and on the modules inserted and inserted and removed

ASSUME SvcAssumption == MaxInits \in Nat /\ MaxEvents \in Nat

VARIABLES
  svc_intf,  \* is the interface of the SVC in the list?
  connected, \* does cport 0 of the AP lead to the SVC?
  waiting,   \* is gb_svc_init waiting?
  svc_init,  \* the semaphore
  result,    \* of the last gb_svc_init
  to_ap,     \* requests the AP has still to answer
  helloed,   \* has a hello been answered since gb_svc_init was called?
  late,      \* has one been answered when nobody waited?
  inits, events

svc_vars == <<svc_intf, connected, waiting, svc_init, result, to_ap, helloed, late, inits,
              events>>

SvcInit ==
  /\ svc_intf = FALSE /\ connected = FALSE /\ waiting = FALSE /\ svc_init = 0
  /\ result = "none" /\ to_ap = <<>> /\ helloed = FALSE /\ late = FALSE
  /\ inits = 0 /\ events = 0

\* gb_svc_init up to the wait, of an SVC that was stopped or not.  Its connection is
\* still there, unless the bridge was stopped too; the version may not go out.
InitBegin ==
  /\ ~waiting /\ inits < MaxInits
  /\ inits' = inits + 1 /\ svc_intf' = TRUE /\ helloed' = FALSE
  /\ \/ /\ connected /\ result' = "EALREADY"
        /\ UNCHANGED <<connected, waiting, to_ap>>
     \/ /\ ~connected /\ connected' = TRUE
        /\ \/ waiting' = TRUE /\ result' = "none" /\ to_ap' = Append(to_ap, "version")
           \/ result' = "errno" /\ UNCHANGED <<waiting, to_ap>>
  /\ UNCHANGED <<svc_init, late, events>>

InitEnd ==
  /\ waiting /\ waiting' = FALSE
  /\ \/ svc_init > 0 /\ svc_init' = svc_init - 1 /\ result' = "ok"
     \/ svc_init = 0 /\ result' = "EAGAIN" /\ UNCHANGED svc_init
  /\ UNCHANGED <<svc_intf, connected, to_ap, helloed, late, inits, events>>

\* gb_svc_deinit; gb_apbridge_deinit, before or after it.
Deinit ==
  /\ ~waiting /\ svc_intf /\ svc_intf' = FALSE
  /\ UNCHANGED <<connected, waiting, svc_init, result, to_ap, helloed, late, inits, events>>
ApbridgeDeinit ==
  /\ ~waiting /\ connected /\ connected' = FALSE
  /\ UNCHANGED <<svc_intf, waiting, svc_init, result, to_ap, helloed, late, inits, events>>

Answering(request) == connected /\ to_ap # <<>> /\ Head(to_ap) = request

\* Mutant: the case of the version response falls through to the next.
VersionResponseAndHello ==
  /\ to_ap' = Append(Tail(to_ap), "hello")
  /\ svc_init' = 1
  /\ UNCHANGED <<helloed, late>>

\* svc_version_response_handler, svc_send_hello: the hello may not go out.
VersionResponse ==
  /\ to_ap' \in {Append(Tail(to_ap), "hello"), Tail(to_ap)}
  /\ UNCHANGED <<svc_init, helloed, late>>

\* k_sem_give: the semaphore counts up to 1.
HelloResponse ==
  /\ to_ap' = Tail(to_ap)
  /\ svc_init' = 1
  /\ helloed' = TRUE /\ late' = (late \/ ~waiting)

\* The answers are looked at whether or not anybody waits for them; those about
\* modules are logged only.
Response ==
  /\ \/ Answering("version") /\ VersionResponse
     \/ Answering("hello") /\ HelloResponse
     \/ Answering("module") /\ to_ap' = Tail(to_ap) /\ UNCHANGED <<svc_init, helloed, late>>
  /\ UNCHANGED <<svc_intf, connected, waiting, result, inits, events>>

\* gb_svc_send_module_inserted and gb_svc_send_module_removed; without a connection
\* they fail.
ModuleEvent ==
  /\ connected /\ events < MaxEvents
  /\ events' = events + 1 /\ to_ap' = Append(to_ap, "module")
  /\ UNCHANGED <<svc_intf, connected, waiting, svc_init, result, helloed, late, inits>>

SvcNext == InitBegin \/ InitEnd \/ Deinit \/ ApbridgeDeinit \/ Response \/ ModuleEvent

-----------------------------------------------------------------------------
SvcTypeOK ==
  /\ svc_intf \in BOOLEAN /\ connected \in BOOLEAN /\ waiting \in BOOLEAN
  /\ svc_init \in 0..1 /\ result \in {"none", "ok", "EALREADY", "EAGAIN", "errno"}
  /\ to_ap \in Seq({"version", "hello", "module"})
  /\ helloed \in BOOLEAN /\ late \in BOOLEAN
  /\ inits \in 0..MaxInits /\ events \in 0..MaxEvents

\* gb_svc_init succeeds only when the AP has answered a hello since it was called,
\* unless an earlier call had given up before its hello was answered: the semaphore
\* is then still given (svc.c:256).
SvcReady == result = "ok" => helloed \/ late
=============================================================================
