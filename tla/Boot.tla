-------------------------------- MODULE Boot --------------------------------
(***************************************************************************)
(* main.c: the order in which app_main brings the subsystems up, what it   *)
(* does when one of them fails, and the tasks that run meanwhile.  An      *)
(* initialiser that fails leaves its subsystem's mutex NULL; taking a NULL *)
(* mutex stops FreeRTOS on an assertion, and the device restarts.          *)
(*                                                                         *)
(* What a subsystem does once it runs is in its own module: here a task is *)
(* the set of mutexes it takes.  The image and its confirmation are those  *)
(* of the module Ota, as seen from one boot.                               *)
(***************************************************************************)
EXTENDS Integers, Sequences, SequencesExt

CONSTANTS
  MaxFaults,  \* bound of the model: failures over all boots
  Nothing     \* no part

ASSUME FaultsAssumption == MaxFaults \in Nat

VARIABLES
  at,      \* how many parts app_main is done with; UpAndRunning at its end
  resets,  \* the device is about to restart
  ready,   \* parts whose mutex exists, and those that need none and are up
  tasks,   \* tasks created so far
  image,   \* the new image's state in otadata, or "old" after a rollback
  culprit, \* the part whose missing mutex stopped the device
  failed,  \* history: parts that failed in this boot
  faults   \* failures so far

BootVars == <<at, resets, ready, tasks, image, culprit, failed, faults>>

\* app_main's order.
Order_ServerFirst ==  \* mutant: the server is up before the updater it serves
  <<"storage", "config", "logger", "auth", "wifi", "csi", "motion", "display", "web", "ota">>
Order ==
  <<"storage", "config", "logger", "auth", "wifi", "csi", "motion", "display", "ota", "web">>

Part == ToSet(Order)
ASSUME NothingAssumption == Nothing \notin Part
UpAndRunning == Len(Order) + 1

BootInit ==
  /\ at = 0
  /\ resets = FALSE
  /\ ready = {}
  /\ tasks = {}
  /\ image \in {"pending", "valid"}
  /\ culprit = Nothing
  /\ failed = {}
  /\ faults = 0

-----------------------------------------------------------------------------
(* The mutexes each task takes.  wifi.c and the ring buffer check theirs for *)
(* NULL first, logger_log a flag; the others do not.                         *)

\* Below half a window of samples motion_process returns early, and without the
\* receive callback there are none.
Sampling == "receive callback" \in tasks

Status == {"config", "auth", "motion", "csi"}  \* build_status

Takes(task) ==
  CASE task = "receive callback" -> {"csi"}
    [] task = "csi" -> {"csi", "config"}
    [] task = "motion" -> IF Sampling THEN {"config", "csi", "motion"} ELSE {"config"}
    [] task = "display" -> {"config", "motion", "csi"}
    [] task = "server" -> Status \cup {"ota"}
    [] task = "push" -> Status
    [] task = "wifi" -> {"config"}
    [] task = "logger" -> {}

-----------------------------------------------------------------------------
(* app_main, one part after the other. *)

Turn(part) == ~resets /\ at < Len(Order) /\ Order[at + 1] = part

\* The part is up, with the tasks it has created.
Up(part, created) ==
  /\ Turn(part)
  /\ at' = at + 1
  /\ ready' = ready \cup {part}
  /\ tasks' = tasks \cup created
  /\ UNCHANGED <<resets, image, culprit, failed, faults>>

\* It is not; app_main goes on, or has the device restarted.
Down(part, fatal) ==
  /\ Turn(part) /\ faults < MaxFaults
  /\ at' = at + 1
  /\ resets' = fatal
  /\ failed' = failed \cup {part}
  /\ faults' = faults + 1
  /\ UNCHANGED <<ready, tasks, image, culprit>>

\* The part's mutex exists, but not the task that would use it.
Idle(part) ==
  /\ Turn(part) /\ faults < MaxFaults
  /\ at' = at + 1
  /\ ready' = ready \cup {part}
  /\ failed' = failed \cup {part}
  /\ faults' = faults + 1
  /\ UNCHANGED <<resets, tasks, image, culprit>>

GoOn == FALSE
GiveUp_Logged == FALSE  \* mutant: a fatal failure is logged like the others
GiveUp == TRUE

\* An NVS that has to be erased and cannot be is fatal (ESP_ERROR_CHECK).
Storage == Up("storage", {}) \/ Down("storage", GoOn) \/ Down("storage", GiveUp)
Config == Up("config", {}) \/ Down("config", GoOn)
Logger == Up("logger", {"logger"}) \/ Idle("logger") \/ Down("logger", GoOn)
Auth == Up("auth", {}) \/ Down("auth", GoOn)

\* ensure_stack fails, or config_get is called with the stack up.
Wifi ==
  \/ "config" \in ready /\ Up("wifi", {"wifi"})
  \/ Down("wifi", GiveUp)

WifiPanics ==
  /\ Turn("wifi") /\ "config" \notin ready
  /\ resets' = TRUE
  /\ culprit' = "config"
  /\ UNCHANGED <<at, ready, tasks, image, failed, faults>>

\* Without memory the mutex goes again; when the driver refuses it stays, without
\* callback and task; and the task may be refused with the callback registered.
Csi ==
  \/ Up("csi", {"receive callback", "csi"}) \/ Idle("csi") \/ Down("csi", GoOn)

CsiTaskFails ==
  /\ Turn("csi") /\ faults < MaxFaults
  /\ at' = at + 1
  /\ ready' = ready \cup {"csi"}
  /\ tasks' = tasks \cup {"receive callback"}
  /\ failed' = failed \cup {"csi"}
  /\ faults' = faults + 1
  /\ UNCHANGED <<resets, image, culprit>>

Motion == Up("motion", {"motion"}) \/ Idle("motion") \/ Down("motion", GoOn)
Display == Up("display", {"display"}) \/ Idle("display") \/ Down("display", GoOn)
Ota == Up("ota", {}) \/ Down("ota", GoOn)

\* No mutex, no server or no push task.
Web == Up("web", {"server", "push"}) \/ Down("web", GiveUp)

\* ota_mark_valid, at the end, after the wait for a connection.
ConfirmImage ==
  /\ ~resets /\ at = Len(Order)
  /\ at' = UpAndRunning
  /\ image' = IF image = "pending" THEN "valid" ELSE image
  /\ UNCHANGED <<resets, ready, tasks, culprit, failed, faults>>

-----------------------------------------------------------------------------
(* The tasks, and the restart. *)

Take(task, part) ==
  /\ ~resets
  /\ task \in tasks /\ part \in Takes(task) \ ready
  /\ resets' = TRUE
  /\ culprit' = part
  /\ UNCHANGED <<at, ready, tasks, image, failed, faults>>

\* The boot loader gives up an image that was not confirmed (module Ota).
Restart ==
  /\ resets
  /\ resets' = FALSE
  /\ at' = 0
  /\ ready' = {}
  /\ tasks' = {}
  /\ image' = IF image = "pending" THEN "old" ELSE image
  /\ culprit' = Nothing
  /\ failed' = {}
  /\ UNCHANGED faults

-----------------------------------------------------------------------------

BringUp ==
  \/ Storage \/ Config \/ Logger \/ Auth \/ Wifi \/ WifiPanics \/ Csi \/ CsiTaskFails
  \/ Motion \/ Display \/ Ota \/ Web \/ ConfirmImage

BootNext == BringUp \/ (\E task \in tasks, part \in Part : Take(task, part)) \/ Restart

BootSpec == BootInit /\ [][BootNext]_BootVars
FairBootSpec == BootSpec /\ WF_BootVars(BringUp) /\ WF_BootVars(Restart)

-----------------------------------------------------------------------------
(* Properties. *)

\* The order of app_main is right for the tasks it starts on the way: a task finds
\* a mutex missing only where its part has failed, never where it is still to come,
\* so that no boot restarts the device, and rolls a new image back, without a failure.
UsedAfterInit == resets => failed # {} /\ culprit \in failed \cup {Nothing}

\* "Only truly fatal bring-up failures trigger a reboot": whatever failed on the
\* way, the device gets to serve its dashboard in the end, and keeps to it.  (Parts
\* do not fail for ever: MaxFaults.)
ServiceRecovers == <>[](at = UpAndRunning /\ {"wifi", "web"} \subseteq ready)

\* "A failure to start CSI is logged and the rest of the system continues"
\* (docs/ARCHITECTURE.md).  The code violates it: without memory csi_init leaves
\* s_metrics_lock NULL, and the display task and the status request take it.
CsiFailureTolerated == culprit # "csi"

\* "Reaching this point means every subsystem initialised" (main.c): the code
\* confirms an image some part of which has failed.
ConfirmedIsWhole == at = UpAndRunning => failed = {}

=============================================================================
