--------------------------- MODULE OtaHttpProofs ---------------------------
(***************************************************************************)
(* What OtaHttp's runs check, for any files, chunk counts, networks and    *)
(* timeouts.                                                               *)
(***************************************************************************)
EXTENDS OtaHttp, TLAPS

(* An expected MD5 of a file is one that was given in this attempt, and    *)
(* only a whole image that has it gets as far as the end of the update.    *)
Vouched ==
  /\ md5_expected \in Files => md5_expected \in given
  /\ pc = "end" => md5_expected \in Files /\ body = Image(md5_expected)

(* Data are written only with update_started_, and then every way out of   *)
(* the loop has aborted or ended the update.                               *)
Accounted ==
  /\ body # <<>> => update_started
  /\ pc \in {"idle", "failed", "md5", "get", "begin"} /\ update_started => ~open

(* From flash() to the restart the device stays in the network it saved.   *)
Saved ==
  /\ pc \in {"begin", "read", "verify", "end", "sync", "reboot"} => wifi # "none"
  /\ pc \notin {"idle", "failed"} /\ wifi # "none" => rtc = wifi

OtaInv == TypeOK /\ Vouched /\ Accounted /\ Saved

-----------------------------------------------------------------------------
(* An image is a sequence of the chunks of its file.                       *)
LEMMA ImageType ==
  ASSUME NEW f \in Files
  PROVE  /\ Image(f) \in Seq(Pieces \cup {Noise})
         /\ Len(Image(f)) = Chunks
         /\ \A i \in 1..Chunks : Image(f)[i] \in Pieces
  <1>1. \A i \in 1..Chunks : [of |-> f, no |-> i] \in Pieces BY DEF Pieces
  <1>2. Chunks \in Nat BY OtaAssumption DEF OtaAssumption
  <1> QED BY <1>1, <1>2 DEF Image

(* What a read that brings data appends.                                   *)
LEMMA DataType ==
  ASSUME TypeOK, Reading,
         body' \in {Append(body, Image(server.image)[Len(body) + 1]), Append(body, Noise)}
  PROVE  body' \in Seq(Pieces \cup {Noise}) /\ Len(body') <= Chunks /\ body' # <<>>
  <1>1. server.image \in Files BY DEF TypeOK
  <1>2. Chunks \in Nat /\ Len(body) \in Nat /\ Len(body) < Chunks
    BY OtaAssumption DEF OtaAssumption, TypeOK, Reading
  <1>3. Len(body) + 1 \in 1..Chunks BY <1>2
  <1>4. Image(server.image)[Len(body) + 1] \in Pieces BY <1>1, <1>3, ImageType
  <1>5. body \in Seq(Pieces \cup {Noise}) BY DEF TypeOK
  <1>6. PICK c \in Pieces \cup {Noise} : body' = Append(body, c) BY <1>4
  <1>7. Len(body') = Len(body) + 1 /\ body' \in Seq(Pieces \cup {Noise}) BY <1>5, <1>6
  <1> QED BY <1>2, <1>7

-----------------------------------------------------------------------------
LEMMA InitInv == Init => OtaInv
  <1> SUFFICES ASSUME Init PROVE OtaInv OBVIOUS
  <1> USE OtaAssumption DEF OtaAssumption
  <1>1. boot \in Seq(Pieces \cup {Noise}) BY DEF Init, Factory
  <1>2. body \in Seq(Pieces \cup {Noise}) /\ Len(body) <= Chunks BY DEF Init
  <1>3. 0 \in 0..ReadTimeout /\ 0 \in 0..MaxPlays OBVIOUS
  <1>4. silent \in 0..ReadTimeout /\ plays \in 0..MaxPlays BY <1>3 DEF Init
  <1>5. server \in [md5: Files, image: Files] BY DEF Init
  <1>6. TypeOK BY <1>1, <1>2, <1>4, <1>5 DEF Init, TypeOK
  <1>7. Vouched /\ Accounted /\ Saved BY DEF Init, Vouched, Accounted, Saved
  <1> QED BY <1>6, <1>7 DEF OtaInv

(* Each action keeps the types.                                            *)
LEMMA StepTypes == TypeOK /\ [Next]_vars => TypeOK'
  <1> SUFFICES ASSUME TypeOK, [Next]_vars PROVE TypeOK' OBVIOUS
  <1> USE OtaAssumption DEF OtaAssumption
  <1>1. CASE play
    BY <1>1 DEF play, set_md5_url, set_md5, flash, save_wifi_to_rtc_, backend, TypeOK
  <1>2. CASE http_get_md5_
    BY <1>2 DEF http_get_md5_, backend, outside, TypeOK
  <1>0. <<>> \in Seq(Pieces \cup {Noise}) /\ Len(<<>>) <= Chunks /\ 0 \in 0..ReadTimeout
    OBVIOUS
  <1>3. CASE get
    BY <1>3, <1>0 DEF get, component, backend, outside, TypeOK
  <1>4. CASE begin
    BY <1>4, <1>0 DEF begin, cleanup_, component, outside, TypeOK
  <1>5. CASE Retry
    BY <1>5 DEF Retry, Reading, component, backend, outside, TypeOK
  <1>6. CASE Fails
    BY <1>6 DEF Fails, cleanup_, component, outside, TypeOK
  <1>7. CASE Complete
    BY <1>7 DEF Complete, component, backend, outside, TypeOK
  <1>8. CASE Data
    <2>1. body' \in Seq(Pieces \cup {Noise}) /\ Len(body') <= Chunks
      BY <1>8, DataType DEF Data
    <2> QED BY <1>8, <1>0, <2>1 DEF Data, cleanup_, outside, TypeOK
  <1>9. CASE verify
    BY <1>9 DEF verify, cleanup_, component, outside, TypeOK
  <1>10. CASE end
    BY <1>10 DEF end, cleanup_, component, outside, TypeOK
  <1>11. CASE Sync
    BY <1>11 DEF Sync, component, backend, outside, TypeOK
  <1>12. CASE Failed
    BY <1>12 DEF Failed, backend, outside, TypeOK
  <1>13. CASE Boot /\ rtc' \in {rtc, "none"}
    BY <1>13, <1>0 DEF Boot, outside, TypeOK
  <1>14. CASE Roams
    BY <1>14 DEF Roams, component, backend, TypeOK
  <1>15. CASE Publish
    BY <1>15 DEF Publish, component, backend, TypeOK
  <1>16. CASE UNCHANGED vars
    BY <1>16 DEF vars, component, backend, outside, TypeOK
  <1> QED
    BY <1>1, <1>2, <1>3, <1>4, <1>5, <1>6, <1>7, <1>8, <1>9, <1>10, <1>11, <1>12, <1>13,
       <1>14, <1>15, <1>16
    DEF Next, Device, Waits, TimesOut, ReadFails, safe_reboot, PowerFails

LEMMA StepInv == OtaInv /\ [Next]_vars => OtaInv'
  <1> SUFFICES ASSUME OtaInv, [Next]_vars PROVE OtaInv' OBVIOUS
  <1> USE OtaAssumption DEF OtaAssumption, OtaInv
  <1>0. TypeOK' BY StepTypes
  <1>1. Vouched'
    <2> USE DEF Vouched
    <2>1. CASE play
      BY <2>1 DEF play, set_md5_url, set_md5, flash, save_wifi_to_rtc_, backend, TypeOK
    <2>2. CASE http_get_md5_ BY <2>2 DEF http_get_md5_, TypeOK
    <2>3. CASE get BY <2>3 DEF get, component
    <2>4. CASE begin BY <2>4 DEF begin, component
    <2>5. CASE Retry \/ Fails \/ Complete
      BY <2>5 DEF Retry, Reading, Fails, Complete, component
    <2>6. CASE Data BY <2>6 DEF Data
    <2>7. CASE verify BY <2>7 DEF verify, component
    <2>8. CASE end BY <2>8 DEF end, component
    <2>9. CASE Sync \/ Roams \/ Publish BY <2>9 DEF Sync, Roams, Publish, component
    <2>10. CASE Failed \/ Boot BY <2>10 DEF Failed, Boot
    <2>11. CASE UNCHANGED vars BY <2>11 DEF vars, component
    <2> QED
      BY <2>1, <2>2, <2>3, <2>4, <2>5, <2>6, <2>7, <2>8, <2>9, <2>10, <2>11
      DEF Next, Device, Waits, TimesOut, ReadFails, safe_reboot, PowerFails
  <1>2. Accounted'
    <2> USE DEF Accounted
    <2>1. CASE play BY <2>1 DEF play, flash, backend
    <2>2. CASE http_get_md5_ BY <2>2 DEF http_get_md5_, backend
    <2>3. CASE get BY <2>3 DEF get, component, backend
    <2>4. CASE begin BY <2>4 DEF begin, cleanup_, component
    <2>5. CASE Retry \/ Complete BY <2>5 DEF Retry, Reading, Complete, component, backend
    <2>6. CASE Fails BY <2>6 DEF Fails, cleanup_, component
    <2>7. CASE Data BY <2>7 DEF Data, cleanup_
    <2>8. CASE verify BY <2>8 DEF verify, cleanup_, component
    <2>9. CASE end BY <2>9 DEF end, cleanup_, component
    <2>10. CASE Sync BY <2>10 DEF Sync, component
    <2>11. CASE Failed BY <2>11 DEF Failed, backend
    <2>12. CASE Boot BY <2>12 DEF Boot
    <2>13. CASE Roams \/ Publish \/ UNCHANGED vars
      BY <2>13 DEF Roams, Publish, vars, component, backend
    <2> QED
      BY <2>1, <2>2, <2>3, <2>4, <2>5, <2>6, <2>7, <2>8, <2>9, <2>10, <2>11, <2>12, <2>13
      DEF Next, Device, Waits, TimesOut, ReadFails, safe_reboot, PowerFails
  <1>3. Saved'
    <2> USE DEF Saved
    <2>1. CASE play BY <2>1 DEF play, flash, save_wifi_to_rtc_, backend
    <2>2. CASE http_get_md5_ BY <2>2 DEF http_get_md5_, backend, outside
    <2>3. CASE get BY <2>3 DEF get, backend, outside
    <2>4. CASE begin BY <2>4 DEF begin, outside
    <2>5. CASE Retry \/ Fails \/ Complete
      BY <2>5 DEF Retry, Reading, Fails, Complete, backend, outside
    <2>6. CASE Data BY <2>6 DEF Data, Reading, outside
    <2>7. CASE verify BY <2>7 DEF verify, outside
    <2>8. CASE end BY <2>8 DEF end, outside
    <2>9. CASE Sync BY <2>9 DEF Sync, outside, Accounted
    <2>10. CASE Failed \/ Boot BY <2>10 DEF Failed, Boot, backend, outside
    <2>11. CASE Roams BY <2>11 DEF Roams, backend
    <2>12. CASE Publish \/ UNCHANGED vars BY <2>12 DEF Publish, vars, backend, outside
    <2> QED
      BY <2>1, <2>2, <2>3, <2>4, <2>5, <2>6, <2>7, <2>8, <2>9, <2>10, <2>11, <2>12
      DEF Next, Device, Waits, TimesOut, ReadFails, safe_reboot, PowerFails
  <1> QED BY <1>0, <1>1, <1>2, <1>3

LEMMA AlwaysInv == SafetySpec => []OtaInv
  BY InitInv, StepInv, PTL DEF SafetySpec

-----------------------------------------------------------------------------
(* The types hold for any number of files, chunks, reads and plays.        *)
THEOREM OtaTypeCorrect == SafetySpec => []TypeOK
  BY AlwaysInv, PTL DEF OtaInv

(* flash() and do_ota_(): whatever the server does between the two         *)
(* requests, and whatever an earlier attempt left behind, only a whole     *)
(* image whose MD5 was given since the last failure is made the next one.  *)
THEOREM OnlyVerifiedImages == SafetySpec => VerifiedImage
  <1>1. OtaInv /\ [Next]_vars => [boot' # boot => \E f \in given : boot' = Image(f)]_vars
    <2> SUFFICES ASSUME OtaInv, Next, boot' # boot PROVE \E f \in given : boot' = Image(f)
      OBVIOUS
    <2>1. end
      BY DEF Next, Device, Waits, TimesOut, ReadFails, safe_reboot, PowerFails, play,
             http_get_md5_, get, begin, Retry, Fails, Complete, Data, verify, Sync, Failed,
             Boot, Roams, Publish, backend
    <2>2. boot' = body /\ body = Image(md5_expected) /\ md5_expected \in given
      BY <2>1 DEF end, OtaInv, Vouched
    <2> QED BY <2>2
  <1> QED BY <1>1, AlwaysInv, PTL DEF SafetySpec, VerifiedImage

(* cleanup_: once data were written, a failed attempt leaves the update    *)
(* aborted, and the preferences writable.                                  *)
THEOREM NothingLeftOpen == SafetySpec => []NotLeftOpen
  <1>1. OtaInv => NotLeftOpen BY DEF OtaInv, Accounted, NotLeftOpen
  <1> QED BY <1>1, AlwaysInv, PTL

(* save_wifi_to_rtc_: the restart into the new image finds the network in  *)
(* use in RTC memory, whatever earlier attempts left there.  Nothing saves *)
(* when there is no network, but then no request gets an answer.           *)
THEOREM CredentialsAreKept == SafetySpec => []CredentialsKept
  <1>1. OtaInv => CredentialsKept BY DEF OtaInv, Saved, CredentialsKept
  <1> QED BY <1>1, AlwaysInv, PTL
=============================================================================
