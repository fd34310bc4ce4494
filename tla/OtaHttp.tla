------------------------------ MODULE OtaHttp ------------------------------
(***************************************************************************)
(* The ota_http component: the action sets the URLs or the MD5 and calls   *)
(* flash(), which blocks the main loop: it saves the Wi-Fi credentials,    *)
(* fetches the MD5 when it has none, downloads the image into the update   *)
(* backend while hashing it, compares, ends the update and restarts.       *)
(*                                                                         *)
(* A file of the server is a sequence of chunks and its MD5 stands for the *)
(* file, as two files with one MD5 are not to be met.  The HTTP client,    *)
(* the backend and the server are modelled from how the component uses     *)
(* them.  A user name or password only changes the URL that is asked for.  *)
(***************************************************************************)
EXTENDS Naturals, Sequences

CONSTANTS
  Files,       (* the images that the server may offer                     *)
  Chunks,      (* reads of HTTP_RECV_BUFFER bytes that an image takes      *)
  ReadTimeout, (* fruitless reads until the client's timeout               *)
  Networks,    (* Wi-Fi networks                                           *)
  MaxPlays     (* bound: how often the action is played                    *)

ASSUME OtaAssumption ==
  /\ Files \cap {"empty", "junk"} = {} /\ "none" \notin Networks
  /\ Chunks \in Nat \ {0} /\ ReadTimeout \in Nat /\ MaxPlays \in Nat

VARIABLES
  pc,             (* where flash() and do_ota_() are; "idle": neither runs *)
  md5_url, url,   (* whether the two URLs are set                          *)
  md5_expected,   (* the file whose MD5 it is; "junk": the MD5 of none     *)
  update_started, (* member: data was given to a backend, now or earlier   *)
  open,           (* the platform's update was begun and neither ended nor *)
                  (* aborted; preferences cannot be written meanwhile      *)
  body,           (* what was received, hashed and written                 *)
  silent,         (* fruitless reads since last_data_time                  *)
  boot,           (* the image that the next restart starts                *)
  wifi,           (* the network that WiFi.SSID() and WiFi.psk() tell      *)
  rtc,            (* the network in OtaWifiRtcStore, "none": no magic      *)
  server,         (* the files that the server's two URLs give             *)
  given,          (* history: the files whose MD5 the action or the server *)
                  (* gave since the last attempt failed                    *)
  plays           (* bound: actions played so far                          *)

component == <<md5_url, url, md5_expected, update_started>>
backend   == <<open, boot>>
outside   == <<wifi, server, plays>>
vars == <<pc, component, backend, body, silent, rtc, outside, given>>

Pieces     == [of: Files, no: 1..Chunks]
Noise      == [of |-> "noise", no |-> 0]
Image(f)   == [i \in 1..Chunks |-> [of |-> f, no |-> i]]
Factory    == <<Noise>>

Init ==
  /\ pc = "idle" /\ md5_url = FALSE /\ url = FALSE
  /\ md5_expected = "empty" /\ update_started = FALSE
  /\ open = FALSE /\ boot = Factory
  /\ body = <<>> /\ silent = 0
  /\ wifi \in Networks /\ rtc = "none"
  /\ server \in [md5: Files, image: Files]
  /\ given = {} /\ plays = 0

-----------------------------------------------------------------------------
(* set_md5_url, with a URL that validate_url_ accepts or not, or set_md5.  *)
set_md5_url(valid) ==
  /\ md5_url' = valid
  /\ md5_expected' = IF valid THEN "empty" ELSE md5_expected
  /\ UNCHANGED given

set_md5(f) ==
  /\ md5_expected' = f /\ given' = given \cup {f}
  /\ UNCHANGED md5_url

save_wifi_to_rtc_Once == rtc' = IF wifi = "none" \/ rtc # "none" THEN rtc ELSE wifi

(* Part A: nothing is saved without an active network.                     *)
save_wifi_to_rtc_ == rtc' = IF wifi = "none" THEN rtc ELSE wifi

(* flash() up to the first call that takes time.                           *)
flash ==
  IF ~url' THEN pc' = "idle" /\ UNCHANGED rtc
  ELSE /\ save_wifi_to_rtc_
       /\ pc' = IF md5_expected' = "empty" THEN "md5" ELSE "get"

(* OtaHttpRequestComponentFlashAction::play: one of the two keys, then URL.*)
play ==
  /\ pc = "idle" /\ plays < MaxPlays /\ plays' = plays + 1
  /\ (\E valid \in BOOLEAN: set_md5_url(valid)) \/ (\E f \in Files: set_md5(f))
  /\ url' \in BOOLEAN
  /\ flash
  /\ UNCHANGED <<update_started, backend, body, silent, wifi, server>>

-----------------------------------------------------------------------------
(* http_get_md5_: without a URL, without an answer, or with one too short, *)
(* it fails; a read that fails halfway leaves some of the 32 bytes behind, *)
(* and an error page of 32 bytes is as good as an MD5.                     *)
http_get_md5_ ==
  /\ pc = "md5"
  /\ \/ pc' = "failed" /\ md5_expected' \in {"empty", "junk"} /\ UNCHANGED given
     \/ /\ md5_url /\ wifi # "none"
        /\ pc' = "get"
        /\ \/ md5_expected' = server.md5 /\ given' = given \cup {server.md5}
           \/ md5_expected' = "junk" /\ UNCHANGED given
  /\ UNCHANGED <<md5_url, url, update_started, backend, body, silent, rtc, outside>>

(* The request for the image: no answer, or not 200, fails.                *)
get ==
  /\ pc = "get"
  /\ pc' = "failed" \/ (wifi # "none" /\ pc' = "begin")
  /\ body' = <<>>
  /\ UNCHANGED <<component, backend, silent, rtc, outside, given>>

(* cleanup_ aborts the backend only when update_started_.                  *)
cleanup_(started, opened) == open' = (opened /\ ~started)

begin ==
  /\ pc = "begin"
  /\ \/ pc' = "read" /\ open' = TRUE
     \/ pc' = "failed" /\ cleanup_(update_started, open)
  /\ silent' = 0
  /\ UNCHANGED <<component, boot, body, rtc, outside, given>>

-----------------------------------------------------------------------------
(* The loop of do_ota_, one read() a step.                                 *)
Reading == pc = "read" /\ Len(body) < Chunks

RetryRearms ==
  /\ Reading
  /\ silent' = 0
  /\ UNCHANGED <<pc, component, backend, body, rtc, outside, given>>

(* RETRY, or TIMEOUT once the client's time has passed since the last data.*)
Retry ==
  /\ Reading /\ silent < ReadTimeout
  /\ silent' = silent + 1
  /\ UNCHANGED <<pc, component, backend, body, rtc, outside, given>>

Fails ==
  /\ cleanup_(update_started, open)
  /\ pc' = "failed"
  /\ UNCHANGED <<component, boot, body, silent, rtc, outside, given>>

TimesOut   == Reading /\ silent = ReadTimeout /\ Fails
ReadFails  == Reading /\ Fails

(* COMPLETE: the last chunk of a chunked answer came early.                *)
Complete ==
  /\ Reading /\ pc' = "verify"
  /\ UNCHANGED <<component, backend, body, silent, rtc, outside, given>>

DataMarksLater ==
  /\ Reading
  /\ body' \in {Append(body, Image(server.image)[Len(body) + 1]), Append(body, Noise)}
  /\ silent' = 0
  /\ \/ pc' = "read" /\ UNCHANGED open /\ update_started' = TRUE
     \/ pc' = "failed" /\ cleanup_(update_started, open) /\ UNCHANGED update_started
  /\ UNCHANGED <<md5_url, url, md5_expected, boot, rtc, outside, given>>

(* DATA: hashed and written.                                               *)
Data ==
  /\ Reading
  /\ body' \in {Append(body, Image(server.image)[Len(body) + 1]), Append(body, Noise)}
  /\ silent' = 0
  /\ update_started' = TRUE
  /\ \/ pc' = "read" /\ UNCHANGED open
     \/ pc' = "failed" /\ cleanup_(TRUE, open)
  /\ UNCHANGED <<md5_url, url, md5_expected, boot, rtc, outside, given>>

verify ==
  /\ pc = "verify" \/ (pc = "read" /\ Len(body) = Chunks)
  /\ IF md5_expected \in Files /\ body = Image(md5_expected)
     THEN pc' = "end" /\ UNCHANGED open
     ELSE pc' = "failed" /\ cleanup_(update_started, open)
  /\ UNCHANGED <<component, boot, body, silent, rtc, outside, given>>

(* backend->end() makes the image the one to start.                        *)
end ==
  /\ pc = "end"
  /\ \/ pc' = "sync" /\ boot' = body /\ open' = FALSE
     \/ pc' = "failed" /\ UNCHANGED boot /\ cleanup_(update_started, open)
  /\ UNCHANGED <<component, body, silent, rtc, outside, given>>

-----------------------------------------------------------------------------
FailedKeepsMd5 ==
  /\ pc = "failed" /\ pc' = "idle"
  /\ given' = {}
  /\ UNCHANGED <<component, backend, body, silent, rtc, outside>>

(* The two branches at the end of flash().  Part B: global_preferences->   *)
(* sync(), whose result is not looked at.  What it writes is the           *)
(* platform's: with nothing changed since the last one, perhaps nothing.   *)
Sync ==
  /\ pc = "sync" /\ pc' = "reboot"
  /\ UNCHANGED <<component, backend, body, silent, rtc, outside, given>>

Failed ==
  /\ pc = "failed" /\ pc' = "idle"
  /\ md5_expected' = "empty"
  /\ given' = {}
  /\ UNCHANGED <<md5_url, url, update_started, backend, body, silent, rtc, outside>>

Boot ==
  /\ pc' = "idle" /\ md5_url' = FALSE /\ url' = FALSE /\ md5_expected' = "empty"
  /\ update_started' = FALSE /\ open' = FALSE /\ body' = <<>> /\ silent' = 0
  /\ given' = {}
  /\ UNCHANGED <<boot, outside>>

safe_reboot == pc = "reboot" /\ Boot /\ UNCHANGED rtc

-----------------------------------------------------------------------------
(* RTC memory survives a restart but not a loss of power.                  *)
PowerFails == pc # "idle" /\ Boot /\ rtc' = "none"

(* The user moves the device to another network, or out of reach.          *)
Roams ==
  /\ pc = "idle"
  /\ wifi' \in (Networks \cup {"none"}) \ {wifi}
  /\ UNCHANGED <<pc, component, backend, body, silent, rtc, server, plays, given>>

(* The server's files are replaced one after the other, not during a       *)
(* request.                                                                *)
Publish ==
  /\ pc \in {"idle", "get"}
  /\ \E f \in Files:
       \/ server.md5 # f /\ server' = [server EXCEPT !.md5 = f]
       \/ server.image # f /\ server' = [server EXCEPT !.image = f]
  /\ UNCHANGED <<pc, component, backend, body, silent, rtc, wifi, plays, given>>

Waits  == Retry \/ TimesOut
Device == http_get_md5_ \/ get \/ begin \/ Waits \/ verify \/ end \/ Sync \/ Failed \/ safe_reboot
Next   == play \/ Device \/ ReadFails \/ Complete \/ Data \/ PowerFails \/ Roams \/ Publish

SafetySpec == Init /\ [][Next]_vars
Spec       == SafetySpec /\ WF_vars(Device)

-----------------------------------------------------------------------------
(* The values that the variables take.                                     *)
TypeOK ==
  /\ pc \in {"idle", "md5", "get", "begin", "read", "verify", "end", "sync", "reboot", "failed"}
  /\ md5_url \in BOOLEAN /\ url \in BOOLEAN /\ update_started \in BOOLEAN
  /\ md5_expected \in Files \cup {"empty", "junk"}
  /\ open \in BOOLEAN
  /\ body \in Seq(Pieces \cup {Noise}) /\ Len(body) <= Chunks
  /\ silent \in 0..ReadTimeout
  /\ boot \in Seq(Pieces \cup {Noise})
  /\ wifi \in Networks \cup {"none"} /\ rtc \in Networks \cup {"none"}
  /\ server \in [md5: Files, image: Files]
  /\ given \subseteq Files /\ plays \in 0..MaxPlays

(* Only a whole image is made the one to start, and only one whose MD5 was *)
(* given since the last attempt failed: what an earlier attempt left       *)
(* behind, in the member or in the partition, cannot vouch for it.         *)
VerifiedImage == [][boot' # boot => \E f \in given: boot' = Image(f)]_vars

(* An attempt that fails leaves no update open, and the preferences can be *)
(* written again, when it or an earlier one wrote data.                    *)
NotLeftOpen == pc \in {"idle", "failed"} /\ (body # <<>> \/ update_started) => ~open

(* The restart into the new image finds the credentials of the network the *)
(* device is in, in RTC memory: not those that an earlier attempt saved in *)
(* another network, and not none.                                          *)
CredentialsKept == pc = "reboot" => rtc = wifi /\ rtc # "none"

(* An attempt ends, whether or not the server still sends.                 *)
AttemptsEnd == pc # "idle" ~> pc = "idle"

=============================================================================
