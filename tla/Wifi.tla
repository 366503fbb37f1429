-------------------------------- MODULE Wifi --------------------------------
(***************************************************************************)
(* wifi.c: joining a network, retrying, falling back to the setup soft-AP  *)
(* and reconfiguring at run time.  Three tasks run its code:               *)
(*                                                                         *)
(*   "setup"  app_main in wifi_start, then the HTTP server task in         *)
(*            wifi_reconfigure;                                            *)
(*   "worker" wifi_worker_task, fed by the command queue;                  *)
(*   the default event loop task, which runs the two event handlers.       *)
(*                                                                         *)
(* The driver below them is external: it is modelled from the calls the    *)
(* code makes and the events the code handles.  One step of a task is one  *)
(* call into the driver or one access to shared state, so the tasks        *)
(* interleave wherever the code lets them; an event handler never blocks   *)
(* and is one step.                                                        *)
(***************************************************************************)
EXTENDS Integers, Sequences

CONSTANTS
  Network,       \* networks a user may configure
  Reachable,     \* those a join can succeed on
  NoNetwork,     \* empty wifi_ssid
  RetryMax,      \* NEXUS_WIFI_CONNECT_RETRY_MAX
  QueueLen,      \* capacity of s_cmd_q
  MaxReconfigs   \* bound of the model on configuration changes

ASSUME NetworkAssumption == Reachable \subseteq Network /\ NoNetwork \notin Network
ASSUME BoundAssumption ==
  RetryMax \in Nat \ {0} /\ QueueLen \in Nat \ {0} /\ MaxReconfigs \in Nat

VARIABLES
  config,          \* wifi_ssid in the stored configuration
  role,            \* s_role
  retry,           \* s_retry
  bits,            \* s_events: subset of {"CONNECTED", "FAIL"}
  reconfiguring,   \* s_reconfiguring
  cmdq,            \* s_cmd_q
  pc,              \* where "setup" and "worker" are
  radio,           \* driver: mode, started, link, net (the network it is set to)
  events,          \* the default event loop's queue
  panicked,        \* an ESP_ERROR_CHECK failed; the device is about to reboot
  reconfigs,       \* configuration changes so far
  failed           \* history: joins failed in a row, a lost link being the first

status == <<role, retry, bits>>
vars == <<config, status, reconfiguring, cmdq, pc, radio, events, panicked,
          reconfigs, failed>>

Event == [type : {"STA_START"}]
           \cup [type : {"DISCONNECTED"}, own : BOOLEAN]
           \cup [type : {"GOT_IP"}]
Command == {"RETRY_CONNECT", "FALLBACK_AP"}

StationSteps == {"sta_role", "sta_mode", "sta_config", "sta_start"}
SoftApSteps  == {"ap_role", "ap_mode", "ap_config", "ap_start"}
SetupSteps   == {"boot", "idle", "flag", "disconnect", "stop", "clear", "unflag"}
WorkerSteps  == {"receive", "backoff", "connect", "fallback"}

Goto(task, where) == pc' = [pc EXCEPT ![task] = where]

-----------------------------------------------------------------------------
(* The driver (external). *)

Down == [mode |-> "NULL", started |-> FALSE, link |-> "down", net |-> NoNetwork]

\* Leaving a link that was up or joining posts a disconnect event; own marks
\* the ones the firmware asked for.  The handlers do not see the mark.
LeaveEvents == IF radio.link = "down" THEN <<>> ELSE <<[type |-> "DISCONNECTED", own |-> TRUE]>>

esp_wifi_connect ==
  /\ radio' = IF radio.mode = "STA" /\ radio.started /\ radio.link = "down"
              THEN [radio EXCEPT !.link = "joining"] ELSE radio

esp_wifi_disconnect ==
  /\ radio' = [radio EXCEPT !.link = "down"]
  /\ events' = events \o LeaveEvents

esp_wifi_stop ==
  /\ radio' = [radio EXCEPT !.link = "down", !.started = FALSE]
  /\ events' = events \o LeaveEvents

\* Changing the mode of a started radio stops one interface and starts the other.
esp_wifi_set_mode(m) ==
  IF radio.mode = m
  THEN UNCHANGED <<radio, events>>
  ELSE /\ radio' = [radio EXCEPT !.mode = m, !.link = "down"]
       /\ events' = events \o LeaveEvents
            \o (IF radio.started /\ m = "STA" THEN <<[type |-> "STA_START"]>> ELSE <<>>)

\* Configuring an interface the mode does not have is an error.
ConfigAccepted(m) == radio.mode = m

esp_wifi_start ==
  /\ radio' = [radio EXCEPT !.started = TRUE]
  /\ events' = events \o (IF radio.mode = "STA" /\ ~radio.started
                          THEN <<[type |-> "STA_START"]>> ELSE <<>>)

JoinSucceeds ==
  /\ radio.link = "joining"
  /\ radio.net \in Reachable
  /\ radio' = [radio EXCEPT !.link = "up"]
  /\ events' = Append(events, [type |-> "GOT_IP"])
  /\ failed' = 0

JoinFails ==
  /\ radio.link = "joining"
  /\ radio' = [radio EXCEPT !.link = "down"]
  /\ events' = Append(events, [type |-> "DISCONNECTED", own |-> FALSE])
  /\ failed' = IF failed < RetryMax + 1 THEN failed + 1 ELSE failed

LinkLost ==
  /\ radio.link = "up"
  /\ radio' = [radio EXCEPT !.link = "down"]
  /\ events' = Append(events, [type |-> "DISCONNECTED", own |-> FALSE])
  /\ failed' = 1

DriverUnchanged == UNCHANGED <<config, status, reconfiguring, cmdq, pc, panicked, reconfigs>>

Join == ~panicked /\ (JoinSucceeds \/ JoinFails) /\ DriverUnchanged
Loss == ~panicked /\ LinkLost /\ DriverUnchanged

-----------------------------------------------------------------------------
(* The event loop task. *)

\* wifi_post_cmd: never blocks; a full queue drops the command.
Posted(c) == IF Len(cmdq) < QueueLen THEN Append(cmdq, c) ELSE cmdq

OnStaStart ==
  /\ esp_wifi_connect
  /\ UNCHANGED <<status, cmdq, failed>>

\* Mutants: one retry too many, one too few.
MayRetry_OneMore == retry <= RetryMax
MayRetry_OneLess == retry + 1 < RetryMax

MayRetry == retry < RetryMax

\* Mutant: looks at the flag before clearing the bit.
OnDisconnected_FlagFirst ==
  /\ IF reconfiguring
     THEN UNCHANGED <<bits, retry, cmdq>>
     ELSE /\ bits' = bits \ {"CONNECTED"}
          /\ retry' = IF MayRetry THEN retry + 1 ELSE retry
          /\ cmdq' = Posted(IF MayRetry THEN "RETRY_CONNECT" ELSE "FALLBACK_AP")
  /\ UNCHANGED <<role, radio, failed>>

\* Mutant: the fallback is asked for after every retry.
OnDisconnected_NoElse ==
  /\ bits' = bits \ {"CONNECTED"}
  /\ retry' = IF ~reconfiguring /\ MayRetry THEN retry + 1 ELSE retry
  /\ cmdq' = IF reconfiguring THEN cmdq
             ELSE (IF MayRetry THEN Posted("RETRY_CONNECT") ELSE cmdq) \o <<"FALLBACK_AP">>
  /\ UNCHANGED <<role, radio, failed>>

\* Mutant: gives up without asking for the fallback.
OnDisconnected_NoFallback ==
  /\ bits' = bits \ {"CONNECTED"}
  /\ retry' = IF MayRetry THEN retry + 1 ELSE retry
  /\ cmdq' = IF MayRetry THEN Posted("RETRY_CONNECT") ELSE cmdq
  /\ UNCHANGED <<role, radio, failed>>

OnDisconnected ==
  /\ IF reconfiguring
     THEN bits' = bits \ {"CONNECTED"} /\ UNCHANGED <<retry, cmdq>>
     ELSE IF MayRetry
          THEN /\ bits' = bits \ {"CONNECTED"}
               /\ retry' = retry + 1
               /\ cmdq' = Posted("RETRY_CONNECT")
          ELSE /\ bits' = (bits \ {"CONNECTED"}) \cup {"FAIL"}
               /\ cmdq' = Posted("FALLBACK_AP")
               /\ UNCHANGED retry
  /\ UNCHANGED <<role, radio, failed>>

OnGotIp ==
  /\ role' = "STA"
  /\ retry' = 0
  /\ bits' = bits \cup {"CONNECTED"}
  /\ UNCHANGED <<cmdq, radio, failed>>

EventLoop ==
  /\ ~panicked
  /\ events # <<>>
  /\ events' = Tail(events)
  /\ CASE Head(events).type = "STA_START"    -> OnStaStart
       [] Head(events).type = "DISCONNECTED" -> OnDisconnected
       [] Head(events).type = "GOT_IP"       -> OnGotIp
  /\ UNCHANGED <<config, reconfiguring, pc, panicked, reconfigs>>

-----------------------------------------------------------------------------
(* The worker task. *)

WorkerReceive ==
  /\ pc["worker"] = "receive"
  /\ cmdq # <<>>
  /\ cmdq' = Tail(cmdq)
  /\ Goto("worker", IF reconfiguring THEN "receive"
                    ELSE IF Head(cmdq) = "RETRY_CONNECT" THEN "backoff" ELSE "fallback")
  /\ UNCHANGED <<config, status, reconfiguring, radio, events, reconfigs, failed>>

\* Mutant: forgets to connect after the delay.
WorkerBackoff_NoConnect ==
  /\ pc["worker"] = "backoff"
  /\ Goto("worker", "receive")
  /\ UNCHANGED <<config, status, reconfiguring, cmdq, radio, events, reconfigs, failed>>

\* The flag is looked at again after the delay, but not atomically with the call.
WorkerBackoff ==
  /\ pc["worker"] = "backoff"
  /\ Goto("worker", IF reconfiguring THEN "receive" ELSE "connect")
  /\ UNCHANGED <<config, status, reconfiguring, cmdq, radio, events, reconfigs, failed>>

WorkerConnect ==
  /\ pc["worker"] = "connect"
  /\ esp_wifi_connect
  /\ Goto("worker", "receive")
  /\ UNCHANGED <<config, status, reconfiguring, cmdq, events, reconfigs, failed>>

\* start_softap_fallback up to its call of start_softap.
WorkerFallback ==
  /\ pc["worker"] = "fallback"
  /\ esp_wifi_stop
  /\ Goto("worker", "ap_role")
  /\ UNCHANGED <<config, status, reconfiguring, cmdq, reconfigs, failed>>

-----------------------------------------------------------------------------
(* start_station and start_softap, run by "setup" or "worker". *)

\* Where a task goes on when bring-up is complete.
AfterBringUp(task) ==
  IF task = "worker" THEN "receive" ELSE IF reconfiguring THEN "unflag" ELSE "idle"

StationRole(task) ==
  /\ pc[task] = "sta_role"
  /\ role' = "STA"
  /\ retry' = 0
  /\ failed' = 0
  /\ Goto(task, "sta_mode")
  /\ UNCHANGED <<config, bits, reconfiguring, cmdq, radio, events, panicked, reconfigs>>

SoftApRole(task) ==
  /\ pc[task] = "ap_role"
  /\ role' = "AP"
  /\ Goto(task, "ap_mode")
  /\ UNCHANGED <<config, retry, bits, reconfiguring, cmdq, radio, events, panicked,
                 reconfigs, failed>>

SetMode(task, here, mode, next) ==
  /\ pc[task] = here
  /\ esp_wifi_set_mode(mode)
  /\ Goto(task, next)
  /\ UNCHANGED <<config, status, reconfiguring, cmdq, panicked, reconfigs, failed>>

SetInterface(task, here, mode, next) ==
  /\ pc[task] = here
  /\ panicked' = ~ConfigAccepted(mode)
  /\ radio' = IF mode = "STA" THEN [radio EXCEPT !.net = config] ELSE radio
  /\ Goto(task, next)
  /\ UNCHANGED <<config, status, reconfiguring, cmdq, events, reconfigs, failed>>

StartRadio(task, here) ==
  /\ pc[task] = here
  /\ esp_wifi_start
  /\ Goto(task, AfterBringUp(task))
  /\ UNCHANGED <<config, status, reconfiguring, cmdq, panicked, reconfigs, failed>>

BringUp(task) ==
  \/ StationRole(task)
  \/ SetMode(task, "sta_mode", "STA", "sta_config")
  \/ SetInterface(task, "sta_config", "STA", "sta_start")
  \/ StartRadio(task, "sta_start")
  \/ SoftApRole(task)
  \/ SetMode(task, "ap_mode", "AP", "ap_config")
  \/ SetInterface(task, "ap_config", "AP", "ap_start")
  \/ StartRadio(task, "ap_start")

-----------------------------------------------------------------------------
(* app_main and the HTTP server task. *)

Configured == IF config = NoNetwork THEN "ap_role" ELSE "sta_role"

\* wifi_start
Boot ==
  /\ pc["setup"] = "boot"
  /\ Goto("setup", Configured)
  /\ UNCHANGED <<config, status, reconfiguring, cmdq, radio, events, reconfigs, failed>>

\* POST /api/config with another network, or another password for the same
\* one: config_set, then wifi_reconfigure.
Reconfigure ==
  /\ pc["setup"] = "idle"
  /\ reconfigs < MaxReconfigs
  /\ config' \in Network \cup {NoNetwork}
  /\ reconfigs' = reconfigs + 1
  /\ Goto("setup", "flag")
  /\ UNCHANGED <<status, reconfiguring, cmdq, radio, events, failed>>

RaiseFlag ==
  /\ pc["setup"] = "flag"
  /\ reconfiguring' = TRUE
  /\ Goto("setup", "disconnect")
  /\ UNCHANGED <<config, status, cmdq, radio, events, reconfigs, failed>>

Disconnect ==
  /\ pc["setup"] = "disconnect"
  /\ esp_wifi_disconnect
  /\ Goto("setup", "stop")
  /\ UNCHANGED <<config, status, reconfiguring, cmdq, reconfigs, failed>>

Stop ==
  /\ pc["setup"] = "stop"
  /\ esp_wifi_stop
  /\ Goto("setup", "clear")
  /\ UNCHANGED <<config, status, reconfiguring, cmdq, reconfigs, failed>>

ClearBits ==
  /\ pc["setup"] = "clear"
  /\ bits' = {}
  /\ Goto("setup", Configured)
  /\ UNCHANGED <<config, role, retry, reconfiguring, cmdq, radio, events, reconfigs, failed>>

LowerFlag ==
  /\ pc["setup"] = "unflag"
  /\ reconfiguring' = FALSE
  /\ Goto("setup", "idle")
  /\ UNCHANGED <<config, status, cmdq, radio, events, reconfigs, failed>>

-----------------------------------------------------------------------------
Restart ==
  /\ role' = "NONE" /\ retry' = 0 /\ bits' = {}
  /\ reconfiguring' = FALSE
  /\ cmdq' = <<>>
  /\ pc' = [setup |-> "boot", worker |-> "receive"]
  /\ radio' = Down
  /\ events' = <<>>
  /\ panicked' = FALSE
  /\ failed' = 0

Init ==
  /\ config \in Network \cup {NoNetwork}
  /\ role = "NONE" /\ retry = 0 /\ bits = {}
  /\ reconfiguring = FALSE
  /\ cmdq = <<>>
  /\ pc = [setup |-> "boot", worker |-> "receive"]
  /\ radio = Down
  /\ events = <<>>
  /\ panicked = FALSE
  /\ reconfigs = 0
  /\ failed = 0

\* A panic reboots the device; the configuration is in flash.
Reboot == panicked /\ Restart /\ UNCHANGED <<config, reconfigs>>

Worker ==
  /\ ~panicked
  /\ \/ (WorkerReceive \/ WorkerBackoff \/ WorkerConnect \/ WorkerFallback) /\ UNCHANGED panicked
     \/ BringUp("worker")

SetupStep == Boot \/ RaiseFlag \/ Disconnect \/ Stop \/ ClearBits \/ LowerFlag

Setup ==
  /\ ~panicked
  /\ \/ SetupStep /\ UNCHANGED panicked
     \/ BringUp("setup")

UserRequest == ~panicked /\ Reconfigure /\ UNCHANGED panicked

Next == Join \/ Loss \/ EventLoop \/ Worker \/ Setup \/ UserRequest \/ Reboot

\* Every task is scheduled, the driver reports the outcome of every join,
\* and a panic does reboot.  Links need not fail and users need not act.
Fairness ==
  WF_vars(Join) /\ WF_vars(EventLoop) /\ WF_vars(Worker) /\ WF_vars(Setup) /\ WF_vars(Reboot)

Spec == Init /\ [][Next]_vars
FairSpec == Spec /\ Fairness

-----------------------------------------------------------------------------
(* What callers see. *)

\* Mutant: an access point does not count.
IsConnected_StationOnly == "CONNECTED" \in bits

\* wifi_is_connected
IsConnected == role = "AP" \/ "CONNECTED" \in bits

\* What is really up.
Associated == radio.mode = "STA" /\ radio.link = "up"
SoftApUp == radio.mode = "AP" /\ radio.started

\* Nothing is under way: no event, no command, both tasks waiting.
Quiescent ==
  /\ ~panicked
  /\ events = <<>> /\ cmdq = <<>>
  /\ pc = [setup |-> "idle", worker |-> "receive"]

-----------------------------------------------------------------------------
(* Properties. *)

\* Every variable keeps its type; the retry counter never passes its limit.
TypeOK ==
  /\ config \in Network \cup {NoNetwork}
  /\ role \in {"NONE", "STA", "AP"}
  /\ retry \in 0 .. RetryMax
  /\ bits \subseteq {"CONNECTED", "FAIL"}
  /\ reconfiguring \in BOOLEAN
  /\ cmdq \in Seq(Command) /\ Len(cmdq) <= QueueLen
  /\ pc \in [setup : SetupSteps \cup StationSteps \cup SoftApSteps,
             worker : WorkerSteps \cup SoftApSteps]
  /\ radio \in [mode : {"NULL", "STA", "AP"}, started : BOOLEAN,
                link : {"down", "joining", "up"}, net : Network \cup {NoNetwork}]
  /\ events \in Seq(Event)
  /\ panicked \in BOOLEAN
  /\ reconfigs \in 0 .. MaxReconfigs
  /\ failed \in 0 .. RetryMax + 1

\* Once the event loop has caught up, WIFI_CONNECTED_BIT is set only while the
\* station has its link, whatever reconfigurations, joins and losses went
\* before.  app_main's wait and wifi_is_connected rely on the bit.
ConnectedBitTruthful == events = <<>> /\ "CONNECTED" \in bits => Associated

\* Commands pile up in s_cmd_q by at most one per reconfiguration: a device
\* nobody reconfigures never fills it, so none of its retries is dropped by
\* wifi_post_cmd, which ignores a full queue.
CommandsBounded == Len(cmdq) <= 1 + reconfigs

\* A device at rest is reachable or on its way: its soft-AP is up, or its
\* station has or is making a link.  Otherwise nobody will ever try again.
NeverStranded == Quiescent => SoftApUp \/ radio.link \in {"joining", "up"}

\* wifi_is_connected answers "associated (STA) or running as AP".
ConnectedReportTruthful == Quiescent => (IsConnected <=> Associated \/ SoftApUp)

\* Nobody has changed the configuration since the device was switched on.
LeftAlone == reconfigs = 0

\* Both of these hold of a device that is left alone, through every join, loss,
\* retry and fallback.  A reconfiguration can break either.
ReachableIfLeftAlone == LeftAlone => NeverStranded /\ ConnectedReportTruthful

\* Left alone, the worker gives up on a configured network only after the first
\* join and all RetryMax retries failed in a row.
FallbackEarned == [][ LeftAlone /\ pc["worker"] = "receive" /\ pc'["worker"] = "fallback"
                        => failed = RetryMax + 1 ]_vars

\* Left alone, a device whose network cannot be joined ends up serving its soft-AP.
FallbackReached == []LeftAlone => (config \notin Reachable ~> SoftApUp)

HandlesOwnDisconnect ==
  /\ ~panicked
  /\ events # <<>> /\ events' = Tail(events)
  /\ Head(events) = [type |-> "DISCONNECTED", own |-> TRUE]

\* The handler takes no action on a disconnect that wifi_reconfigure asked for:
\* no retry is counted and no command is posted.
OwnDisconnectIgnored == [][ HandlesOwnDisconnect => UNCHANGED <<retry, cmdq>> ]_vars

\* The soft-AP fallback does not run while wifi_reconfigure replaces the network.
FallbackGuarded == ~(reconfiguring /\ pc["worker"] \in {"fallback"} \cup SoftApSteps)

=============================================================================
