----------------------------- MODULE DongleBoot -----------------------------
(***************************************************************************)
(* Start-up, Wi-Fi and firmware upload of the dongle firmware: app_main    *)
(* and wifi_handler of main.cpp, the upload handler of lux_ota.h.          *)
(*                                                                         *)
(* The flash holds two application partitions.  The power may fail at any  *)
(* moment; the HTTP server runs one handler at a time.  What ESP-IDF does  *)
(* is taken from its documentation: esp_ota_begin erases the partition it  *)
(* is given, the first esp_ota_write rejects what is not an image, and     *)
(* esp_ota_end rejects an image that is not complete.                      *)
(***************************************************************************)
EXTENDS Naturals, Sequences

CONSTANTS
  MAX_RETRY, (* 10 in the code                                             *)
  Pieces     (* recv calls a complete image takes                          *)

ASSUME BootAssumption == MAX_RETRY \in Nat /\ Pieces \in Nat \ {0}

Slots == {"ota_0", "ota_1"}
OtherSlot(s) == IF s = "ota_0" THEN "ota_1" ELSE "ota_0"

VARIABLES
  main,     (* how far app_main is                                         *)
  server,   (* the HTTP server runs                                        *)
  router,   (* the access point of the house is there                      *)
  sta,      (* the station: off, connecting, associated, up, given up      *)
  s_retry,
  bits,     (* s_wifi_evt                                                  *)
  tries,    (* history: connection attempts since the last address         *)
  upload,   (* the upload handler                                          *)
  remaining,(* pieces of the request body still to come                    *)
  body,     (* what the client uploads: an image, a part of one, something *)
            (* else                                                        *)
  slot,     (* what is in the partitions                                   *)
  written,  (* pieces in the partition being written                       *)
  bootslot, (* what the boot loader will start                             *)
  running   (* what it has started                                         *)

start == <<main, server>>
wifi  == <<router, sta, s_retry, bits, tries>>
flash == <<slot, written, bootslot, running>>
http  == <<upload, remaining, body>>
vars  == <<start, wifi, http, flash>>

Steps == <<"nvs", "shared_state", "wifi_init", "wait", "mdns", "ota", "services", "running">>
Step(n) == Steps[n]

ResetRam ==
  /\ main' = 1 /\ server' = FALSE
  /\ sta' = "off" /\ s_retry' = 0 /\ bits' = {} /\ tries' = 0
  /\ upload' = "none" /\ remaining' = 0 /\ body' = "none"

Init ==
  /\ main = 1 /\ server = FALSE
  /\ router \in BOOLEAN /\ sta = "off" /\ s_retry = 0 /\ bits = {} /\ tries = 0
  /\ upload = "none" /\ remaining = 0 /\ body = "none"
  /\ slot = [s \in Slots |-> IF s = "ota_0" THEN "image" ELSE "empty"]
  /\ written = 0 /\ bootslot = "ota_0" /\ running = "ota_0"

(* The boot loader starts the partition that was chosen. *)
Boot == ResetRam /\ running' = bootslot /\ UNCHANGED <<router, slot, bootslot>> /\ written' = 0

PowerFails == Boot

(***************************************************************************)
(* app_main: it starts the station and waits for either bit, half a minute *)
(* at most, before it starts the servers.                                  *)
(***************************************************************************)
app_main ==
  /\ Step(main) \notin {"wifi_init", "wait", "ota", "running"}
  /\ main' = main + 1
  /\ UNCHANGED <<server, wifi, http, flash>>

wifi_init ==
  /\ Step(main) = "wifi_init"
  /\ main' = main + 1
  /\ sta' = "connecting" /\ tries' = 1
  /\ UNCHANGED <<server, router, s_retry, bits, http, flash>>

(* One of the bits is set, or the wait times out. *)
WaitForWifi ==
  /\ Step(main) = "wait"
  /\ main' = main + 1
  /\ UNCHANGED <<server, wifi, http, flash>>

(* httpd_start may fail: the firmware then runs on without the server.     *)
lux_ota_start ==
  /\ Step(main) = "ota"
  /\ main' = main + 1
  /\ server' \in BOOLEAN
  /\ UNCHANGED <<wifi, http, flash>>

(***************************************************************************)
(* wifi_handler.                                                           *)
(***************************************************************************)
(* Mutant: the retries of earlier outages count.                           *)
GotIpKeepsCount ==
  /\ sta = "associated" /\ router
  /\ sta' = "up" /\ bits' = bits \cup {"OK"} /\ tries' = 0
  /\ UNCHANGED <<start, router, s_retry, http, flash>>

GotIp ==
  /\ sta = "associated" /\ router
  /\ sta' = "up" /\ s_retry' = 0 /\ bits' = bits \cup {"OK"} /\ tries' = 0
  /\ UNCHANGED <<start, router, http, flash>>

Associated ==
  /\ sta = "connecting" /\ router
  /\ sta' = "associated"
  /\ UNCHANGED <<start, router, s_retry, bits, tries, http, flash>>

(* Mutant: the next attempt is left to a timer that nobody starts.         *)
StaDisconnectedWaits ==
  /\ sta \in {"connecting", "associated", "up"}
  /\ IF s_retry < MAX_RETRY
     THEN /\ sta' = "off" /\ s_retry' = s_retry + 1 /\ tries' = tries + 1
          /\ UNCHANGED bits
     ELSE sta' = "given_up" /\ bits' = bits \cup {"FAIL"} /\ UNCHANGED <<s_retry, tries>>
  /\ UNCHANGED <<start, router, http, flash>>

(* WIFI_EVENT_STA_DISCONNECTED: an attempt fails or a connection is lost,  *)
(* also with the access point there (a beacon missed, the password wrong). *)
StaDisconnected ==
  /\ sta \in {"connecting", "associated", "up"}
  /\ IF s_retry < MAX_RETRY
     THEN /\ sta' = "connecting" /\ s_retry' = s_retry + 1 /\ tries' = tries + 1
          /\ UNCHANGED bits
     ELSE sta' = "given_up" /\ bits' = bits \cup {"FAIL"} /\ UNCHANGED <<s_retry, tries>>
  /\ UNCHANGED <<start, router, http, flash>>

RouterChanges == router' = ~router /\ UNCHANGED <<start, sta, s_retry, bits, tries, http, flash>>

(***************************************************************************)
(* ota_upload_handler.                                                     *)
(***************************************************************************)
Target == OtherSlot(running)    (* esp_ota_get_next_update_partition       *)

(* The status page posts multipart/form-data: its body does not begin with *)
(* the image.                                                              *)
Bodies == {"image", "truncated", "form"}

Post ==
  /\ server /\ upload = "none"
  /\ upload' = "begin"
  /\ body' \in Bodies
  /\ remaining' = IF body' = "truncated" THEN Pieces - 1 ELSE Pieces
  /\ UNCHANGED <<start, wifi, flash>>

(* The response with an error and the return of the handler. *)
UploadEnds == upload' = "none" /\ remaining' = 0 /\ body' = "none" /\ written' = 0

OtaBegin ==
  /\ upload = "begin"
  /\ \/ /\ upload' = "recv" /\ slot' = [slot EXCEPT ![Target] = "part"] /\ written' = 0
        /\ UNCHANGED <<remaining, body>>
     \/ UploadEnds /\ UNCHANGED slot
  /\ UNCHANGED <<start, wifi, bootslot, running>>

ReceivePiece ==
  /\ upload = "recv" /\ remaining > 0 /\ body # "form"
  /\ remaining' = remaining - 1 /\ written' = written + 1
  /\ UNCHANGED <<start, wifi, upload, body, slot, bootslot, running>>

(* httpd_req_recv or esp_ota_write fails: esp_ota_abort. *)
ReceiveOrWriteFails ==
  /\ upload = "recv" /\ remaining > 0
  /\ UploadEnds
  /\ UNCHANGED <<start, wifi, slot, bootslot, running>>

(* Mutant: the result of esp_ota_end is not looked at.                     *)
OtaEndUnchecked ==
  /\ upload = "recv" /\ remaining = 0
  /\ slot' = [slot EXCEPT ![Target] = IF body = "image" THEN "image" ELSE "part"]
  /\ upload' = "chosen"
  /\ UNCHANGED <<start, wifi, remaining, body, written, bootslot, running>>

OtaEnd ==
  /\ upload = "recv" /\ remaining = 0
  /\ IF written = Pieces /\ body = "image"
     THEN /\ slot' = [slot EXCEPT ![Target] = "image"]
          /\ upload' = "chosen"
          /\ UNCHANGED <<remaining, body, written>>
     ELSE UploadEnds /\ UNCHANGED slot
  /\ UNCHANGED <<start, wifi, bootslot, running>>

(* esp_ota_set_boot_partition, whose result is not looked at. *)
SetBootPartition ==
  /\ upload = "chosen"
  /\ bootslot' \in {bootslot, Target}
  /\ upload' = "restart"
  /\ UNCHANGED <<start, wifi, remaining, body, slot, written, running>>

Restart == upload = "restart" /\ Boot

Startup == app_main \/ wifi_init \/ WaitForWifi \/ lux_ota_start
wifi_handler == GotIp \/ Associated \/ StaDisconnected
ota_upload_handler ==
  OtaBegin \/ ReceivePiece \/ ReceiveOrWriteFails \/ OtaEnd \/ SetBootPartition \/ Restart

Next == Startup \/ wifi_handler \/ ota_upload_handler \/ Post \/ RouterChanges \/ PowerFails

(* app_main runs, and an attempt to connect ends in one way or the other;  *)
(* a connection once made need not.                                        *)
Spec == Init /\ [][Next]_vars
        /\ WF_vars(Startup) /\ WF_vars(sta # "up" /\ wifi_handler) /\ WF_vars(ota_upload_handler)

-----------------------------------------------------------------------------
TypeOK ==
  /\ main \in 1..Len(Steps) /\ server \in BOOLEAN
  /\ router \in BOOLEAN
  /\ sta \in {"off", "connecting", "associated", "up", "given_up"}
  /\ s_retry \in 0..MAX_RETRY /\ tries \in 0..MAX_RETRY + 1 /\ bits \subseteq {"OK", "FAIL"}
  /\ upload \in {"none", "begin", "recv", "chosen", "restart"}
  /\ remaining \in 0..Pieces /\ written \in 0..Pieces /\ body \in Bodies \cup {"none"}
  /\ slot \in [Slots -> {"empty", "part", "image"}]
  /\ bootslot \in Slots /\ running \in Slots

(* Whenever the power fails, during an upload or after a failed one, what  *)
(* the boot loader will start is an image that was written to its end and  *)
(* accepted.                                                               *)
BootsWhole == slot[bootslot] = "image"

(* The station gives up after MAX_RETRY attempts in a row without an       *)
(* address, one more after a start, and never because of an outage that    *)
(* it had already overcome.                                                *)
GivesUpInTime == sta = "given_up" => tries \in {MAX_RETRY, MAX_RETRY + 1}

StaysPowered == <>[][~Boot]_vars

(* Once the access point is there for good and the connection to it is no  *)
(* longer lost, the station has an address, unless it had given up: from   *)
(* whatever state the outages left it in, it goes on trying.               *)
StationReturns ==
  StaysPowered /\ <>[]router /\ <>[][~StaDisconnected]_vars => <>[](sta \in {"up", "given_up"})
=============================================================================
