---------------------------- MODULE FwDownload ----------------------------
(***************************************************************************)
(* Firmware update over Greybus: the management driver (fw_management.c)   *)
(* accepts a load request and the download driver (fw_download.c) fetches  *)
(* the image chunk by chunk, writes it to flash and reports the outcome.   *)
(* Both run on the core's worker thread, so that a handler is one step.    *)
(*                                                                         *)
(* Sizes and offsets count chunks of DATA_SIZE_MAX bytes; OffsetSpan is    *)
(* the number of chunks a 16-bit byte offset can tell apart (2^16 / 64).   *)
(* The AP is external: it serves firmware as a Greybus host does.          *)
(***************************************************************************)
EXTENDS Naturals, Sequences, SequencesExt

CONSTANTS
  Firmware,     \* the images the AP can serve
  ImageSize,    \* number of chunks of each image
  OffsetSpan,   \* chunks addressable by a uint16_t offset
  MaxLoads,     \* bound: load requests of the AP
  MaxFailures,  \* bound: failed answers of the AP and failed flash writes
  None          \* no request (req_id = -1), no firmware

ASSUME FwAssumption ==
  /\ ImageSize \in [Firmware -> Nat]
  /\ OffsetSpan \in Nat \ {0}
  /\ MaxLoads \in Nat /\ MaxFailures \in Nat
  /\ None \notin Firmware /\ None \notin Nat

VARIABLES
  priv,       \* priv_data: fw_id, fw_size, offset, req_id
  flash,      \* the chunks written since flash_img_init
  toNode,     \* messages on their way to the node
  toAp,       \* messages on their way to the AP
  served,     \* firmware the AP has found and not yet released
  load,       \* the load the AP waits for: its id, or None
  nLoads,     \* loads issued so far
  failures,   \* failed answers and writes so far
  refused,    \* the AP refused something of the current load
  disturbed   \* a flash write failed, or the AP gave up half way

vars == <<priv, flash, toNode, toAp, served, load, nLoads, failures, refused, disturbed>>
apVars == <<served, load, nLoads, refused, disturbed>>

\* Chunk k of firmware f, and the whole image.
Chunk(f, k) == [fw |-> f, k |-> k]
Image(f) == [k \in 1..ImageSize[f] |-> Chunk(f, k - 1)]

Init ==
  /\ priv = [id |-> None, size |-> 0, offset |-> 0, req |-> None]
  /\ flash = <<>>
  /\ toNode = <<>> /\ toAp = <<>>
  /\ served = {}
  /\ load = None /\ nLoads = 0
  /\ failures = 0 /\ refused = FALSE /\ disturbed = FALSE

-----------------------------------------------------------------------------
(* The messages of the node. *)

Find(f) == [type |-> "find", fw |-> f]
Release(f) == [type |-> "release", fw |-> f]
Ack(ok) == [type |-> "ack", ok |-> ok]
Loaded(id, status) == [type |-> "loaded", id |-> id, status |-> status]

\* gb_fw_download_fetch_firmware: the parameter is a uint16_t.
Fetch(f, offset) == [type |-> "fetch", fw |-> f, offset |-> offset % OffsetSpan]

-----------------------------------------------------------------------------
(* The node's handlers: each takes the oldest message. *)

Receive(type) ==
  /\ toNode # <<>>
  /\ Head(toNode).type = type
  /\ toNode' = Tail(toNode)

\* Mutant: the request id is not kept for the report.
LoadAndValidateForgets ==
  /\ Receive("load")
  /\ toAp' = IF Head(toNode).unipro
             THEN toAp \o <<Ack(TRUE), Find(Head(toNode).fw)>>
             ELSE Append(toAp, Ack(FALSE))
  /\ UNCHANGED <<priv, flash, failures, apVars>>

\* fw_mgmt_interface_fw_load_and_validate, gb_fw_download_find_firmware:
\* only GB_FW_LOAD_METHOD_UNIPRO is accepted.
LoadAndValidate ==
  /\ Receive("load")
  /\ IF Head(toNode).unipro
     THEN /\ priv' = [priv EXCEPT !.req = Head(toNode).id]
          /\ toAp' = toAp \o <<Ack(TRUE), Find(Head(toNode).fw)>>
     ELSE toAp' = Append(toAp, Ack(FALSE)) /\ UNCHANGED priv
  /\ UNCHANGED <<flash, failures, apVars>>

\* Mutant: flash and offset keep what an earlier, failed download left.
FindResponseResumes ==
  /\ Receive("found")
  /\ IF Head(toNode).ok
     THEN /\ priv' = [priv EXCEPT !.id = Head(toNode).fw, !.size = Head(toNode).size]
          /\ toAp' = Append(toAp, Fetch(Head(toNode).fw, 0))
     ELSE UNCHANGED <<priv, toAp>>
  /\ UNCHANGED <<flash, failures, apVars>>

\* gb_fw_download_find_firmware_response_handler.  The id of the first
\* fetch is read from the response after its release: if another thread has
\* taken the memory by then, it is anything.
FindResponse ==
  /\ Receive("found")
  /\ IF Head(toNode).ok
     THEN /\ flash' = <<>>
          /\ priv' = [priv EXCEPT !.id = Head(toNode).fw, !.size = Head(toNode).size,
                                  !.offset = 0]
          /\ \E id \in Firmware \cup {None} : toAp' = Append(toAp, Fetch(id, 0))
     ELSE UNCHANGED <<priv, flash, toAp>>
  /\ UNCHANGED <<failures, apVars>>

\* Mutant: every answer counts as a full chunk.
CurSizeFull == 1

\* The bytes of this answer, in chunks, and whether they complete the image.
CurSize == IF priv.offset < priv.size THEN 1 ELSE 0
IsFinal == priv.offset + CurSize >= priv.size

\* What is sent before the data is written: the next request or the release.
NextRequest ==
  IF IsFinal THEN Release(priv.id) ELSE Fetch(priv.id, priv.offset + CurSize)

FetchRefused ==
  /\ Receive("data")
  /\ ~Head(toNode).ok
  /\ UNCHANGED <<priv, flash, toAp, failures, apVars>>

\* Mutant: the next chunk is requested after the release as well.
FetchResponseNoElse ==
  /\ Receive("data")
  /\ Head(toNode).ok
  /\ flash' = IF CurSize = 1 THEN Append(flash, Head(toNode).chunk) ELSE flash
  /\ toAp' = (IF IsFinal THEN Append(toAp, Release(priv.id)) ELSE toAp)
               \o <<Fetch(priv.id, priv.offset + CurSize)>>
               \o (IF IsFinal THEN <<Loaded(priv.req, "validated")>> ELSE <<>>)
  /\ priv' = [priv EXCEPT !.offset = @ + CurSize, !.req = IF IsFinal THEN None ELSE @]
  /\ UNCHANGED <<failures, apVars>>

\* gb_fw_download_fetch_firmware_response_handler when the write succeeds;
\* gb_fw_download_fetch_final reports what MCUboot says of the image.
FetchResponse ==
  /\ Receive("data")
  /\ Head(toNode).ok
  /\ flash' = IF CurSize = 1 THEN Append(flash, Head(toNode).chunk) ELSE flash
  /\ \E status \in {"validated", "failed"} :
       toAp' = Append(toAp, NextRequest)
                 \o (IF IsFinal THEN <<Loaded(priv.req, status)>> ELSE <<>>)
  /\ priv' = [priv EXCEPT !.offset = @ + CurSize, !.req = IF IsFinal THEN None ELSE @]
  /\ UNCHANGED <<failures, apVars>>

\* The same when flash_img_buffered_write fails: gb_fw_download_early_fail
\* is given fw_size for the request id, of which uint8_t keeps the low byte of
\* a number of bytes (any number, in a model that counts chunks), and the
\* request sent before the write stays outstanding.
FetchResponseWriteFails ==
  /\ Receive("data")
  /\ Head(toNode).ok
  /\ failures < MaxFailures /\ failures' = failures + 1
  /\ \E id \in 0..MaxLoads :
       toAp' = Append(toAp, NextRequest) \o <<Release(priv.id), Loaded(id, "failed")>>
  /\ priv' = [priv EXCEPT !.offset = @ + CurSize]
  /\ disturbed' = TRUE
  /\ UNCHANGED <<flash, served, load, nLoads, refused>>

Node ==
  \/ LoadAndValidate
  \/ FindResponse
  \/ FetchRefused
  \/ FetchResponse
  \/ FetchResponseWriteFails

-----------------------------------------------------------------------------
(* The AP (external). *)

\* A management client asks for an image; it waits for one load at a time.
ApLoad(f, unipro) ==
  /\ load = None
  /\ nLoads < MaxLoads
  /\ nLoads' = nLoads + 1
  /\ load' = nLoads'
  /\ refused' = FALSE
  /\ toNode' = Append(toNode, [type |-> "load", id |-> nLoads', fw |-> f, unipro |-> unipro])
  /\ UNCHANGED <<priv, flash, toAp, served, failures, disturbed>>

\* It gives up.  While messages of that load are in flight, the next load
\* is disturbed by them.
ApGivesUp ==
  /\ load # None
  /\ load' = None
  /\ served' = {}
  /\ disturbed' = (disturbed \/ toNode # <<>> \/ toAp # <<>>)
  /\ UNCHANGED <<priv, flash, toNode, toAp, nLoads, failures, refused>>

ApTake(type) ==
  /\ toAp # <<>>
  /\ Head(toAp).type = type
  /\ toAp' = Tail(toAp)

\* ok = FALSE: the AP refuses, counted as a failure.
ApAnswers(m, ok) ==
  /\ toNode' = Append(toNode, m)
  /\ refused' = (refused \/ ~ok)
  /\ IF ok THEN UNCHANGED failures
     ELSE failures < MaxFailures /\ failures' = failures + 1

ApFind(ok) ==
  LET f == Head(toAp).fw IN
  /\ ApTake("find")
  /\ ApAnswers([type |-> "found", ok |-> ok, fw |-> f, size |-> ImageSize[f]], ok)
  /\ served' = IF ok THEN served \cup {f} ELSE served
  /\ UNCHANGED <<priv, flash, load, nLoads, disturbed>>

\* Data outside the image, or of firmware it does not serve, is refused.
ApFetch(ok) ==
  LET m == Head(toAp) IN
  /\ ApTake("fetch")
  /\ IF m.fw \in served /\ m.offset < ImageSize[m.fw]
     THEN ApAnswers([type |-> "data", ok |-> ok, chunk |-> Chunk(m.fw, m.offset)], ok)
     ELSE /\ ~ok
          /\ toNode' = Append(toNode, [type |-> "data", ok |-> FALSE])
          /\ refused' = TRUE
          /\ UNCHANGED failures
  /\ UNCHANGED <<priv, flash, served, load, nLoads, disturbed>>

ApAck ==
  /\ ApTake("ack")
  /\ load' = IF Head(toAp).ok THEN load ELSE None
  /\ UNCHANGED <<priv, flash, toNode, served, nLoads, failures, refused, disturbed>>

ApRelease ==
  /\ ApTake("release")
  /\ served' = served \ {Head(toAp).fw}
  /\ UNCHANGED <<priv, flash, toNode, load, nLoads, failures, refused, disturbed>>

ApLoaded ==
  /\ ApTake("loaded")
  /\ load' = IF Head(toAp).id = load THEN None ELSE load
  /\ UNCHANGED <<priv, flash, toNode, served, nLoads, failures, refused, disturbed>>

ApServes ==
  \/ \E ok \in BOOLEAN : ApFind(ok) \/ ApFetch(ok)
  \/ ApAck
  \/ ApRelease
  \/ ApLoaded

Next ==
  \/ Node
  \/ ApServes
  \/ ApGivesUp
  \/ \E f \in Firmware, unipro \in BOOLEAN : ApLoad(f, unipro)

(***************************************************************************)
(* The worker handles what arrives and the AP answers what it is asked;    *)
(* nothing makes the AP start a load or give one up.                       *)
(***************************************************************************)
SafeSpec == Init /\ [][Next]_vars
Spec == SafeSpec /\ WF_vars(Node) /\ WF_vars(ApServes)

-----------------------------------------------------------------------------
(* Properties *)

NodeMessages ==
  [type : {"find", "release"}, fw : Firmware]
    \cup [type : {"fetch"}, fw : Firmware \cup {None}, offset : Nat]
    \cup [type : {"ack"}, ok : BOOLEAN]
    \cup [type : {"loaded"}, id : Nat \cup {None}, status : {"validated", "failed"}]

TypeOK ==
  /\ priv \in [id : Firmware \cup {None}, size : Nat, offset : Nat, req : Nat \cup {None}]
  /\ flash \in Seq([fw : Firmware, k : Nat])
  /\ priv.offset <= priv.size
  /\ toAp \in Seq(NodeMessages)
  /\ served \subseteq Firmware
  /\ load \in Nat \cup {None}

\* The reports the node sends in this step.
Sent == SubSeq(toAp', Len(toAp) + 1, Len(toAp'))
Reports == {Sent[i] : i \in {j \in 1..Len(Sent) : Sent[j].type = "loaded"}}

(***************************************************************************)
(* "Validated" is only reported for the request that is being served and   *)
(* when every chunk of its image has been written, once and in order, also *)
(* after downloads that were refused half way.  Outside of it are a failed *)
(* write and the leftovers of a load the AP gave up.                       *)
(***************************************************************************)
ValidatedIsWhole ==
  [][ Len(toAp') > Len(toAp) /\ ~disturbed' =>
        \A m \in Reports : m.status = "validated" =>
          m.id = priv.req /\ m.id = nLoads /\ flash' = Image(priv.id) ]_vars

(***************************************************************************)
(* The image reaches the flash in order: chunk k is the k-th written,      *)
(* whatever earlier loads left in priv_data and in the flash context.  The *)
(* offset of a fetch request has 32 bits on the wire (greybus_protocols.h, *)
(* __le32 offset), so that this should hold for images of any size.        *)
(***************************************************************************)
FlashInOrder ==
  ~disturbed => \A k \in 1..Len(flash) :
    flash[k] = Chunk(priv.id, k - 1)

(***************************************************************************)
(* The node never asks for data of firmware it has released: the release   *)
(* is the last request of a download.                                      *)
(***************************************************************************)
ReleaseIsLast ==
  ~disturbed => \A i, j \in 1..Len(toAp) :
    i < j /\ toAp[i].type = "release" =>
      toAp[j].type = "loaded" /\ toAp[j].id # None

(***************************************************************************)
(* A load in which the AP refuses nothing and no write fails is reported   *)
(* to the AP, whatever became of the loads before it.  (A refused find or  *)
(* fetch is not reported at all: the AP is left to its timeout.)           *)
(***************************************************************************)
LoadReported ==
  \A n \in 1..MaxLoads :
    (load = n) ~> (load # n \/ refused \/ disturbed)
=============================================================================
