--------------------------------- MODULE Ota ---------------------------------
(***************************************************************************)
(* ota.c with its callers: an upload streamed into the slot that is not    *)
(* running, the switch of the boot slot, the deferred restart, and the     *)
(* confirmation at the end of app_main, with a restart at any step.        *)
(*                                                                         *)
(*   app_main       brings the subsystems up, starts the web server, waits *)
(*                  for a connection, confirms the running image           *)
(*   HTTP server    h_api_ota and the requests that schedule a reboot      *)
(*   reboot_task    restarts the device 800 ms after it is scheduled       *)
(*                                                                         *)
(* Boot loader and OTA library (external) follow ESP-IDF with              *)
(* CONFIG_BOOTLOADER_APP_ROLLBACK_ENABLE, as sdkconfig.defaults sets it.   *)
(* The slots are those of partitions.csv; there is no factory slot.        *)
(***************************************************************************)
EXTENDS Integers

CONSTANTS
  Image,       \* images that pass validation
  Bad,         \* those that crash, or give up, before app_main confirms them
  Factory,     \* the image flashed at the factory
  Junk,        \* an upload that fails validation
  NoImage,
  Chunks,      \* calls of ota_write that an upload takes
  MaxReboots   \* bound of the model on reboot tasks at once

ASSUME ImageAssumption ==
  /\ Bad \subseteq Image /\ Factory \in Image \ Bad
  /\ Junk \notin Image /\ NoImage \notin Image \cup {Junk}
ASSUME ChunkAssumption == Chunks \in Nat \ {0}
ASSUME BoundAssumption == MaxReboots \in Nat \ {0}

VARIABLES
  flash,         \* what each slot holds, and how much of it is written
  imgState,      \* the state of each slot's entry in otadata
  preferred,     \* the slot of the newest entry
  running,       \* the slot running
  stage,         \* how far app_main is
  in_progress,   \* s_status.in_progress
  http,          \* where h_api_ota is
  reboots,       \* reboot tasks waiting
  accepted,      \* history: the image last answered with "update applied"
  erased         \* history: its slot has been erased since

loader == <<imgState, preferred, running>>
answer == <<accepted, erased>>
vars == <<flash, loader, stage, in_progress, http, reboots, answer>>

Slot == {0, 1}
Other(s) == 1 - s
Content == [image : Image \cup {Junk, NoImage}, written : 0 .. Chunks]

Whole(s) == flash[s].image \in Image /\ flash[s].written = Chunks

-----------------------------------------------------------------------------
(* The boot loader and the OTA library (external). *)

\* An image that was started and not confirmed is given up.
Demoted == [s \in Slot |-> IF imgState[s] = "PENDING" THEN "ABORTED" ELSE imgState[s]]

\* The newest entry not given up, or else the other one.
Chosen == IF Demoted[preferred] = "ABORTED" THEN Other(preferred) ELSE preferred

\* A new image is started on probation; one that fails validation is passed over.
BootLoader ==
  /\ imgState' = [Demoted EXCEPT ![Chosen] = IF @ = "NEW" THEN "PENDING" ELSE @]
  /\ running' = IF Whole(Chosen) THEN Chosen ELSE Other(Chosen)
  /\ stage' = IF Whole(Chosen) \/ Whole(Other(Chosen)) THEN "starting" ELSE "dead"

\* Neither the running slot nor, while the running image is on probation, the
\* other one may be written.
esp_ota_begin_allows(s) == s # running /\ imgState[running] # "PENDING"

esp_ota_set_boot_partition(s) ==
  /\ imgState' = [imgState EXCEPT ![s] = "NEW"]
  /\ preferred' = s

Reset ==
  /\ BootLoader
  /\ in_progress' = FALSE
  /\ http' = "idle"
  /\ reboots' = 0
  /\ accepted' = NoImage
  /\ erased' = FALSE
  /\ UNCHANGED <<flash, preferred>>

\* Power is lost, or the watchdog bites, at any moment.
PowerLoss == stage # "dead" /\ Reset

\* What makes an image bad.
Crash == stage \in {"starting", "serving"} /\ flash[running].image \in Bad /\ Reset

-----------------------------------------------------------------------------
(* app_main. *)

StartServer ==
  /\ stage = "starting"
  /\ stage' = "serving"
  /\ UNCHANGED <<flash, loader, in_progress, http, reboots, answer>>

\* ota_mark_valid; its own failure leaves the image on probation.
Confirmed(s) == IF imgState[s] = "PENDING" THEN {"VALID", "PENDING"} ELSE {imgState[s]}

\* Mutant: the image is confirmed before the subsystems are up.
MarkValid_First ==
  /\ stage = "starting"
  /\ stage' = "serving"
  /\ \E st \in Confirmed(running) : imgState' = [imgState EXCEPT ![running] = st]
  /\ UNCHANGED <<flash, preferred, running, in_progress, http, reboots, answer>>

\* The end of app_main, which a bad image does not reach.
MarkValid ==
  /\ stage = "serving"
  /\ flash[running].image \notin Bad
  /\ stage' = "ready"
  /\ \E st \in Confirmed(running) : imgState' = [imgState EXCEPT ![running] = st]
  /\ UNCHANGED <<flash, preferred, running, in_progress, http, reboots, answer>>

-----------------------------------------------------------------------------
(* The HTTP server: POST /api/ota. *)

Serving == stage \in {"serving", "ready"}

\* esp_ota_get_next_update_partition(NULL): the one after the running slot.
Target == Other(running)

Erase(body) == flash' = [flash EXCEPT ![Target] = [image |-> body, written |-> 0]]

MayBegin == Serving /\ http = "idle" /\ ~in_progress /\ esp_ota_begin_allows(Target)

\* ota_begin.  An image larger than the slot is refused before this.
OtaBegin ==
  /\ MayBegin
  /\ \E body \in Image \cup {Junk} : Erase(body)
  /\ erased' = TRUE
  /\ in_progress' = TRUE
  /\ http' = "receive"
  /\ UNCHANGED <<loader, stage, reboots, accepted>>

\* esp_ota_begin fails after it has erased.
BeginFails ==
  /\ MayBegin
  /\ Erase(NoImage)
  /\ erased' = TRUE
  /\ UNCHANGED <<loader, stage, in_progress, http, reboots, accepted>>

Remaining_OneMore == flash[Target].written <= Chunks  \* mutant: one write past the end
Remaining == flash[Target].written < Chunks

OtaWrite ==
  /\ http = "receive"
  /\ Remaining
  /\ flash' = [flash EXCEPT ![Target].written = @ + 1]
  /\ UNCHANGED <<loader, stage, in_progress, http, reboots, answer>>

\* Mutant: the handler answers without ota_abort.
UploadFails_NoAbort ==
  /\ http = "receive"
  /\ http' = "idle"
  /\ UNCHANGED <<flash, loader, stage, in_progress, reboots, answer>>

\* No buffer, a broken connection or a failed write: ota_abort.
UploadFails ==
  /\ http = "receive"
  /\ http' = "idle"
  /\ in_progress' = FALSE
  /\ UNCHANGED <<flash, loader, stage, reboots, answer>>

\* Mutant: the boot slot is not switched.
OtaEnd_NoSwitch ==
  /\ http = "receive"
  /\ ~Remaining
  /\ in_progress' = FALSE
  /\ http' = IF Whole(Target) THEN "reply" ELSE "idle"
  /\ UNCHANGED <<flash, loader, stage, reboots, answer>>

\* ota_end: validation, then the switch; either may fail.
OtaEnd ==
  /\ http = "receive"
  /\ ~Remaining
  /\ in_progress' = FALSE
  /\ \/ /\ Whole(Target)
        /\ esp_ota_set_boot_partition(Target)
        /\ http' = "reply"
     \/ UNCHANGED <<imgState, preferred>> /\ http' = "idle"
  /\ UNCHANGED <<flash, running, stage, reboots, answer>>

\* xTaskCreate may find no memory; nobody looks at its result.
schedule_reboot == reboots' = reboots \/ (reboots < MaxReboots /\ reboots' = reboots + 1)

Reply ==
  /\ http = "reply"
  /\ schedule_reboot
  /\ http' = "idle"
  /\ accepted' = flash[Target].image
  /\ erased' = FALSE
  /\ UNCHANGED <<flash, loader, stage, in_progress>>

\* POST /api/reboot, POST /api/factory-reset.
RebootRequest ==
  /\ Serving /\ http = "idle"
  /\ reboots < MaxReboots
  /\ reboots' = reboots + 1
  /\ UNCHANGED <<flash, loader, stage, in_progress, http, answer>>

\* reboot_task
Reboot == reboots > 0 /\ Reset

-----------------------------------------------------------------------------
Init ==
  /\ flash = [s \in Slot |-> IF s = 0 THEN [image |-> Factory, written |-> Chunks]
                                      ELSE [image |-> NoImage, written |-> 0]]
  /\ imgState = [s \in Slot |-> IF s = 0 THEN "VALID" ELSE "NONE"]
  /\ preferred = 0
  /\ running = 0
  /\ stage = "starting"
  /\ in_progress = FALSE
  /\ http = "idle"
  /\ reboots = 0
  /\ accepted = NoImage
  /\ erased = FALSE

AppMain == StartServer \/ MarkValid
Upload == OtaBegin \/ BeginFails \/ OtaWrite \/ UploadFails \/ OtaEnd \/ Reply
Next == AppMain \/ Upload \/ RebootRequest \/ Reboot \/ Crash \/ PowerLoss

\* app_main runs on, and a bad image does crash.  Nobody need upload anything.
Fairness == WF_vars(AppMain) /\ WF_vars(Crash)

Spec == Init /\ [][Next]_vars
FairSpec == Spec /\ Fairness

-----------------------------------------------------------------------------
(* Properties. *)

\* Every variable keeps its type; nothing is written past the end of an image.
TypeOK ==
  /\ flash \in [Slot -> Content]
  /\ imgState \in [Slot -> {"NONE", "NEW", "PENDING", "VALID", "ABORTED"}]
  /\ preferred \in Slot /\ running \in Slot
  /\ stage \in {"starting", "serving", "ready", "dead"}
  /\ in_progress \in BOOLEAN
  /\ http \in {"idle", "receive", "reply"}
  /\ reboots \in 0 .. MaxReboots
  /\ accepted \in Image \cup {NoImage} /\ erased \in BOOLEAN

\* Whatever is uploaded and whenever the power goes, one slot that the boot
\* loader has not given up holds a whole image that comes up.
GoodImageHeld ==
  \E s \in Slot : Whole(s) /\ flash[s].image \notin Bad /\ imgState[s] # "ABORTED"

\* When no upload is being served none counts as running: no way out of the
\* handler leaves the next upload refused with 429 until the next restart.
UpdateNotStuck == http = "idle" => ~in_progress

\* An update answered with "update applied", its slot left alone since, is
\* what the next restart starts, whatever the restart's reason.
AppliedIsStarted ==
  [][ stage' = "starting" /\ accepted # NoImage /\ ~erased
        => flash[running'].image = accepted ]_vars

\* INSTALLATION.md: "reverts automatically if the new image fails to come up".
CrashLoopEscaped == flash[running].image \in Bad ~> flash[running].image \notin Bad

\* API.md on POST /api/ota, response 200: "image written and validated; device
\* reboots into it".
AcceptedIsBooted ==
  [][ stage' = "starting" /\ accepted # NoImage => flash[running'].image = accepted ]_vars

\* main.c: "Rollback exists to escape an image that cannot run".  A restart
\* somebody asked for does not give up an image that can.
RollbackOnlyBad ==
  [][ Reboot /\ imgState[running] = "PENDING" /\ flash[running].image \notin Bad
        => running' = running ]_vars

=============================================================================
