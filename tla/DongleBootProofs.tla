-------------------------- MODULE DongleBootProofs --------------------------
(***************************************************************************)
(* What DongleBoot's run checks of its states, for any number of retries   *)
(* and any size of an image.                                               *)
(***************************************************************************)
EXTENDS DongleBoot, TLAPS

(* Until the boot partition is set the running one is the one to start,    *)
(* and the handler writes the other; it sets it only after esp_ota_end     *)
(* accepted the image.                                                     *)
Whole ==
  /\ slot[bootslot] = "image"
  /\ upload # "restart" => bootslot = running
  /\ upload = "chosen" => slot[Target] = "image"

(* s_retry counts the attempts that follow a failed one, tries all since   *)
(* an address was had.                                                     *)
Counted ==
  /\ main <= 3 => sta = "off" /\ s_retry = 0
  /\ sta \in {"connecting", "associated"} => tries \in {s_retry, s_retry + 1}
  /\ sta = "up" => s_retry = 0 /\ tries = 0
  /\ sta = "given_up" => s_retry = MAX_RETRY /\ tries \in {s_retry, s_retry + 1}

(* The parts of TypeOK.                                                     *)
WifiType ==
  /\ router \in BOOLEAN
  /\ sta \in {"off", "connecting", "associated", "up", "given_up"}
  /\ s_retry \in 0..MAX_RETRY /\ tries \in 0..MAX_RETRY + 1 /\ bits \subseteq {"OK", "FAIL"}
HttpType ==
  /\ upload \in {"none", "begin", "recv", "chosen", "restart"}
  /\ remaining \in 0..Pieces /\ body \in Bodies \cup {"none"}
FlashType ==
  /\ slot \in [Slots -> {"empty", "part", "image"}] /\ written \in 0..Pieces
  /\ bootslot \in Slots /\ running \in Slots

(* No more is written than the request's body holds.                       *)
Fits == upload = "recv" => written + remaining <= Pieces

BootInv == TypeOK /\ Fits /\ Whole /\ Counted

-----------------------------------------------------------------------------
LEMMA StepCount == Len(Steps) = 8
  BY DEF Steps

(* The steps of app_main by their number.                                  *)
LEMMA StepNames ==
  /\ Step(3) = "wifi_init" /\ Step(4) = "wait" /\ Step(6) = "ota" /\ Step(8) = "running"
  /\ \A n \in 1..8 :
       /\ Step(n) = "wifi_init" => n = 3
       /\ Step(n) = "wait" => n = 4
       /\ Step(n) = "ota" => n = 6
       /\ Step(n) \notin {"wifi_init", "wait", "ota", "running"} => n \in {1, 2, 5, 7}
  BY DEF Steps, Step

(* What a group of variables that stays the same contains.                 *)
LEMMA Same ==
  /\ UNCHANGED start => main' = main /\ server' = server
  /\ UNCHANGED wifi => /\ router' = router /\ sta' = sta /\ s_retry' = s_retry
                       /\ bits' = bits /\ tries' = tries
  /\ UNCHANGED http => upload' = upload /\ remaining' = remaining /\ body' = body
  /\ UNCHANGED flash => /\ slot' = slot /\ written' = written
                        /\ bootslot' = bootslot /\ running' = running
  BY DEF start, wifi, http, flash

LEMMA SameTypes ==
  /\ TypeOK <=> main \in 1..8 /\ server \in BOOLEAN /\ WifiType /\ HttpType /\ FlashType
  /\ WifiType /\ UNCHANGED wifi => WifiType'
  /\ HttpType /\ UNCHANGED http => HttpType'
  /\ FlashType /\ UNCHANGED flash => FlashType'
  <1>1. TypeOK <=> main \in 1..8 /\ server \in BOOLEAN /\ WifiType /\ HttpType /\ FlashType
    BY StepCount DEF TypeOK, WifiType, HttpType, FlashType
  <1>2. WifiType /\ UNCHANGED wifi => WifiType' BY Same DEF WifiType
  <1>3. HttpType /\ UNCHANGED http => HttpType' BY Same DEF HttpType
  <1>4. FlashType /\ UNCHANGED flash => FlashType' BY Same DEF FlashType
  <1> QED BY <1>1, <1>2, <1>3, <1>4

LEMMA SameTypesNext == TypeOK' <=> main' \in 1..8 /\ server' \in BOOLEAN /\ WifiType' /\ HttpType' /\ FlashType'
  BY StepCount DEF TypeOK, WifiType, HttpType, FlashType

(* The two partitions are different.                                       *)
LEMMA TargetIsOther == TypeOK => Target \in Slots /\ Target # running
  BY DEF TypeOK, Target, OtherSlot, Slots

-----------------------------------------------------------------------------
LEMMA BootInit == Init => BootInv
  <1> SUFFICES ASSUME Init PROVE BootInv OBVIOUS
  <1> USE BootAssumption DEF BootAssumption
  <1>1. "ota_0" \in Slots BY DEF Slots
  <1>2. 0 \in 0..MAX_RETRY /\ 0 \in 0..MAX_RETRY + 1 /\ 0 \in 0..Pieces /\ 1 \in 1..Len(Steps)
    BY StepCount
  <1>3. TypeOK BY <1>1, <1>2 DEF Init, TypeOK
  <1>4. Fits /\ Whole BY <1>1 DEF Init, Fits, Whole
  <1>5. Counted BY DEF Init, Counted
  <1> QED BY <1>3, <1>4, <1>5 DEF BootInv

(* A restart starts the chosen partition with nothing else kept.           *)
LEMMA BootKeeps == ASSUME BootInv, Boot PROVE BootInv'
  <1> USE BootAssumption DEF BootAssumption, BootInv, Boot, ResetRam
  <1>1. 0 \in 0..MAX_RETRY /\ 0 \in 0..MAX_RETRY + 1 /\ 0 \in 0..Pieces /\ 1 \in 1..Len(Steps)
    BY StepCount
  <1>2. TypeOK' BY <1>1 DEF TypeOK
  <1>3. Fits' /\ Whole' BY DEF Fits, Whole
  <1>4. Counted' BY DEF Counted
  <1> QED BY <1>2, <1>3, <1>4

LEMMA StartupKeeps == ASSUME BootInv, Startup PROVE BootInv'
  <1> USE BootAssumption, Same, StepCount DEF BootAssumption, BootInv
  <1>1. main \in 1..8 /\ server \in BOOLEAN BY DEF TypeOK
  <1>2. CASE app_main
    <2>1. main \in {1, 2, 5, 7} /\ main' = main + 1 BY <1>1, <1>2, StepNames DEF app_main
    <2>2. TypeOK' BY <1>2, <2>1, SameTypes, SameTypesNext DEF app_main
    <2>3. Fits' /\ Whole' BY <1>2 DEF app_main, Fits, Whole, Target
    <2>4. Counted' BY <1>2, <2>1 DEF app_main, Counted, TypeOK
    <2> QED BY <2>2, <2>3, <2>4
  <1>3. CASE wifi_init
    <2>1. main = 3 /\ main' = 4 BY <1>1, <1>3, StepNames DEF wifi_init
    <2>2. TypeOK' BY <1>3, <2>1 DEF wifi_init, TypeOK
    <2>3. Fits' /\ Whole' BY <1>3 DEF wifi_init, Fits, Whole, Target
    <2>4. Counted' BY <1>3, <2>1 DEF wifi_init, Counted
    <2> QED BY <2>2, <2>3, <2>4
  <1>4. CASE WaitForWifi
    <2>1. main = 4 /\ main' = 5 BY <1>1, <1>4, StepNames DEF WaitForWifi
    <2>2. TypeOK' BY <1>4, <2>1, SameTypes, SameTypesNext DEF WaitForWifi
    <2>3. Fits' /\ Whole' BY <1>4 DEF WaitForWifi, Fits, Whole, Target
    <2>4. Counted' BY <1>4, <2>1 DEF WaitForWifi, Counted, TypeOK
    <2> QED BY <2>2, <2>3, <2>4
  <1>5. CASE lux_ota_start
    <2>1. main = 6 /\ main' = 7 BY <1>1, <1>5, StepNames DEF lux_ota_start
    <2>2. TypeOK' BY <1>5, <2>1, SameTypes, SameTypesNext DEF lux_ota_start
    <2>3. Fits' /\ Whole' BY <1>5 DEF lux_ota_start, Fits, Whole, Target
    <2>4. Counted' BY <1>5, <2>1 DEF lux_ota_start, Counted, TypeOK
    <2> QED BY <2>2, <2>3, <2>4
  <1> QED BY <1>2, <1>3, <1>4, <1>5 DEF Startup

LEMMA WifiKeeps == ASSUME BootInv, wifi_handler \/ RouterChanges PROVE BootInv'
  <1> USE BootAssumption, Same DEF BootAssumption, BootInv
  <1>1. TypeOK'
    <2>1. main' \in 1..8 /\ server' \in BOOLEAN /\ HttpType' /\ FlashType'
      BY SameTypes
      DEF wifi_handler, GotIp, Associated, StaDisconnected, RouterChanges
    <2>2. WifiType'
      <3>1. CASE GotIp \/ Associated \/ RouterChanges
        <4>1. WifiType BY SameTypes
        <4>2. router' \in BOOLEAN
          BY <3>1, <4>1 DEF GotIp, Associated, RouterChanges, WifiType
        <4>3. bits' \subseteq {"OK", "FAIL"}
          BY <3>1, <4>1 DEF GotIp, Associated, RouterChanges, WifiType
        <4>4. s_retry' \in 0..MAX_RETRY /\ tries' \in 0..MAX_RETRY + 1
          BY <3>1, <4>1 DEF GotIp, Associated, RouterChanges, WifiType
        <4>5. sta' \in {"off", "connecting", "associated", "up", "given_up"}
          BY <3>1, <4>1 DEF GotIp, Associated, RouterChanges, WifiType
        <4> QED BY <4>2, <4>3, <4>4, <4>5 DEF WifiType
      <3>2. CASE StaDisconnected
        <4>1. WifiType /\ s_retry \in Nat /\ tries \in {s_retry, s_retry + 1}
          BY <3>2, SameTypes DEF StaDisconnected, WifiType, Counted
        <4>2. CASE s_retry < MAX_RETRY
          <5>1. UNCHANGED <<router, bits>> BY <3>2, <4>2 DEF StaDisconnected
          <5>2. s_retry' \in 0..MAX_RETRY /\ tries' \in 0..MAX_RETRY + 1
            BY <3>2, <4>1, <4>2 DEF StaDisconnected, WifiType
          <5>3. sta' = "connecting" BY <3>2, <4>2 DEF StaDisconnected
          <5> QED BY <4>1, <5>1, <5>2, <5>3 DEF WifiType
        <4>3. CASE ~(s_retry < MAX_RETRY)
          <5>1. bits' \subseteq {"OK", "FAIL"} /\ UNCHANGED <<router, s_retry, tries>>
            BY <3>2, <4>1, <4>3 DEF StaDisconnected, WifiType
          <5> QED BY <3>2, <4>1, <4>3, <5>1 DEF StaDisconnected, WifiType
        <4> QED BY <4>2, <4>3
      <3> QED BY <3>1, <3>2 DEF wifi_handler
    <2> QED BY <2>1, <2>2, SameTypesNext
  <1>2. Fits' /\ Whole'
    BY DEF wifi_handler, GotIp, Associated, StaDisconnected, RouterChanges, Fits, Whole,
           Target
  <1>3. Counted'
    BY DEF wifi_handler, GotIp, Associated, StaDisconnected, RouterChanges, TypeOK, Counted
  <1> QED BY <1>1, <1>2, <1>3

LEMMA UploadKeeps ==
  ASSUME BootInv,
         Post \/ OtaBegin \/ ReceivePiece \/ ReceiveOrWriteFails \/ OtaEnd \/ SetBootPartition
  PROVE  BootInv'
  <1> USE BootAssumption, Same, TargetIsOther DEF BootAssumption, BootInv
  <1>1. CASE Post
    <2>1. TypeOK'
      <3>1. main' \in 1..8 /\ server' \in BOOLEAN /\ WifiType' BY <1>1, SameTypes DEF Post
      <3>2. HttpType' BY <1>1, SameTypes DEF Post, Bodies, HttpType
      <3>3. FlashType' BY <1>1, SameTypes DEF Post
      <3> QED BY <3>1, <3>2, <3>3, SameTypesNext
    <2>2. Fits' /\ Whole' BY <1>1 DEF Post, Fits, Whole, Target
    <2>3. Counted' BY <1>1 DEF Post, Counted
    <2> QED BY <2>1, <2>2, <2>3
  <1>2. CASE OtaBegin
    <2>1. TypeOK'
      <3>1. main' \in 1..8 /\ server' \in BOOLEAN /\ WifiType' BY <1>2, SameTypes DEF OtaBegin
      <3>2. HttpType' BY <1>2, SameTypes DEF OtaBegin, UploadEnds, HttpType
      <3>3. FlashType' BY <1>2, SameTypes DEF OtaBegin, UploadEnds, FlashType
      <3> QED BY <3>1, <3>2, <3>3, SameTypesNext
    <2>2. Fits' /\ Whole' BY <1>2 DEF OtaBegin, UploadEnds, Fits, Whole, Target, TypeOK
    <2>3. Counted' BY <1>2 DEF OtaBegin, Counted
    <2> QED BY <2>1, <2>2, <2>3
  <1>3. CASE ReceivePiece
    <2>1. TypeOK'
      <3>1. main' \in 1..8 /\ server' \in BOOLEAN /\ WifiType' BY <1>3, SameTypes DEF ReceivePiece
      <3>2. HttpType' BY <1>3, SameTypes DEF ReceivePiece, HttpType
      <3>3. FlashType' BY <1>3, SameTypes DEF ReceivePiece, HttpType, FlashType, Fits
      <3> QED BY <3>1, <3>2, <3>3, SameTypesNext
    <2>2. Fits' /\ Whole' BY <1>3, SameTypes DEF ReceivePiece, Fits, Whole, Target, HttpType, FlashType
    <2>3. Counted' BY <1>3 DEF ReceivePiece, Counted
    <2> QED BY <2>1, <2>2, <2>3
  <1>4. CASE ReceiveOrWriteFails
    <2>1. TypeOK'
      <3>1. main' \in 1..8 /\ server' \in BOOLEAN /\ WifiType' BY <1>4, SameTypes DEF ReceiveOrWriteFails
      <3>2. HttpType' BY <1>4, SameTypes DEF ReceiveOrWriteFails, UploadEnds, HttpType
      <3>3. FlashType' BY <1>4, SameTypes DEF ReceiveOrWriteFails, UploadEnds, FlashType
      <3> QED BY <3>1, <3>2, <3>3, SameTypesNext
    <2>2. Fits' /\ Whole' BY <1>4 DEF ReceiveOrWriteFails, UploadEnds, Fits, Whole, Target
    <2>3. Counted' BY <1>4 DEF ReceiveOrWriteFails, Counted
    <2> QED BY <2>1, <2>2, <2>3
  <1>5. CASE OtaEnd
    <2>1. TypeOK' BY <1>5 DEF OtaEnd, UploadEnds, TypeOK
    <2>2. Fits' /\ Whole' BY <1>5 DEF OtaEnd, UploadEnds, Fits, Whole, Target, TypeOK
    <2>3. Counted' BY <1>5 DEF OtaEnd, Counted
    <2> QED BY <2>1, <2>2, <2>3
  <1>6. CASE SetBootPartition
    <2>1. TypeOK' BY <1>6 DEF SetBootPartition, TypeOK
    <2>2. Fits' /\ Whole' BY <1>6 DEF SetBootPartition, Fits, Whole, Target
    <2>3. Counted' BY <1>6 DEF SetBootPartition, Counted
    <2> QED BY <2>1, <2>2, <2>3
  <1> QED BY <1>1, <1>2, <1>3, <1>4, <1>5, <1>6

LEMMA BootStep == BootInv /\ [Next]_vars => BootInv'
  <1> SUFFICES ASSUME BootInv, [Next]_vars PROVE BootInv' OBVIOUS
  <1>1. CASE UNCHANGED vars
    BY <1>1 DEF vars, BootInv, start, wifi, http, flash, TypeOK, Fits, Whole, Counted, Target
  <1>2. CASE Boot BY <1>2, BootKeeps
  <1>3. CASE Next /\ ~Boot
    BY <1>3, StartupKeeps, WifiKeeps, UploadKeeps
    DEF Next, ota_upload_handler, Restart, PowerFails
  <1> QED BY <1>1, <1>2, <1>3

LEMMA BootAlways == Spec => []BootInv
  BY BootInit, BootStep, PTL DEF Spec

-----------------------------------------------------------------------------
(* The types hold for any MAX_RETRY and any number of pieces.              *)
THEOREM BootTypeCorrect == Spec => []TypeOK
  BY BootAlways, PTL DEF BootInv

(* ota_upload_handler: wherever the power fails, the boot loader finds a   *)
(* whole image in the partition it is to start.                            *)
THEOREM AlwaysBootsWhole == Spec => []BootsWhole
  <1>1. BootInv => BootsWhole BY DEF BootInv, Whole, BootsWhole
  <1> QED BY <1>1, BootAlways, PTL

(* wifi_handler: s_retry counts one outage, not several.                   *)
THEOREM GivesUpOnlyInTime == Spec => []GivesUpInTime
  <1>1. BootInv => GivesUpInTime BY DEF BootInv, Counted, GivesUpInTime
  <1> QED BY <1>1, BootAlways, PTL
=============================================================================
