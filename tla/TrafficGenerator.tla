-------------------------- MODULE TrafficGenerator --------------------------
(***************************************************************************)
(* csi.c, the traffic generator: a ping session keeps packets coming.      *)
(* Once a second the housekeeping task looks at the settings and the link  *)
(* and, when they call for it, replaces the session.                       *)
(*                                                                         *)
(* The link is what the module Wifi makes of it; here it simply changes.   *)
(* It and the settings change between any two of the task's calls.         *)
(***************************************************************************)
EXTENDS Integers

CONSTANTS
  Rate,        \* sampling rates the settings may ask for, none of them 0
  Gateway,     \* gateways of the networks the device may join
  OwnGateway,  \* 192.168.4.1, its own address as an access point
  NoGateway,   \* 0.0.0.0, none of the above
  MaxMoves,    \* bound of the model: changes of the link
  MaxSettings  \* bound of the model: changes of the sampling rate

VARIABLES
  task,     \* where csi_task is, the rate it read and the gateway it got
  session,  \* s_ping: what it pings how often, or its absence
  current,  \* s_ping_rate_hz
  link,     \* the role, connected bit and gateway wifi.c answers with
  rate,     \* sampling_rate_hz of the settings
  moves,    \* changes of the link so far
  settings  \* changes of the rate so far

vars == <<task, session, current, link, rate, moves, settings>>

around == <<link, rate, moves, settings>>

NoSession == [target |-> NoGateway, rate |-> 0]
Asleep == [at |-> "sleep", rate |-> 0, target |-> NoGateway]

\* wifi_start has run: the device joins its network or is an access point.
Init ==
  /\ task = Asleep
  /\ session = NoSession
  /\ current = 0
  /\ \/ link = [role |-> "sta", connected |-> FALSE, gateway |-> NoGateway]
     \/ link = [role |-> "ap", connected |-> FALSE, gateway |-> OwnGateway]
  /\ rate \in Rate
  /\ moves = 0
  /\ settings = 0

-----------------------------------------------------------------------------
(* csi_task, the second half of its pass, and restart_traffic_generator. *)

\* Whichever way a call is answered, the pass goes on or is over.
Step(from, to) ==
  /\ task.at = from
  /\ task' = IF to = "sleep" THEN Asleep ELSE [task EXCEPT !.at = to]
  /\ UNCHANGED <<session, current>> /\ UNCHANGED around

\* config_get
ReadSettings ==
  /\ task.at = "sleep"
  /\ task' = [task EXCEPT !.at = "role", !.rate = rate]
  /\ UNCHANGED <<session, current>> /\ UNCHANGED around

\* wifi_get_role
CheckRole == Step("role", IF link.role = "sta" THEN "link" ELSE "sleep")

\* wifi_is_connected: an access point always is.
Connected == link.role = "ap" \/ link.connected

\* What the session lacks to be the one the settings ask for.
Outdated_RateOnly == current # task.rate  \* mutant: a failed session is not noticed
Outdated == session = NoSession \/ current # task.rate

CheckLink == Step("link", IF Connected /\ Outdated THEN "again" ELSE "sleep")

\* wifi_get_role, once more
RecheckRole == Step("again", IF link.role = "sta" THEN "gateway" ELSE "sleep")

\* wifi_get_gateway; the old session goes before the new one is made.
StopSession ==
  /\ task.at = "gateway" /\ link.gateway # NoGateway
  /\ task' = [task EXCEPT !.at = "session", !.target = link.gateway]
  /\ session' = NoSession
  /\ UNCHANGED current /\ UNCHANGED around

NothingToPing == link.gateway = NoGateway /\ Step("gateway", "sleep")

\* esp_ping_new_session and esp_ping_start
StartSession ==
  /\ task.at = "session"
  /\ session' = [target |-> task.target, rate |-> task.rate]
  /\ current' = task.rate
  /\ task' = Asleep
  /\ UNCHANGED around

\* No memory for the session: there is none until a later pass.
SessionFails == Step("session", "sleep")

-----------------------------------------------------------------------------
(* The rest of the device, each change of the link in one step. *)

Moves(next) ==
  /\ moves < MaxMoves /\ next # link
  /\ link' = next
  /\ moves' = moves + 1
  /\ UNCHANGED <<task, session, current, rate, settings>>

\* The station has an address, and perhaps a gateway.
GotIp ==
  \E g \in Gateway \cup {NoGateway} :
    Moves([role |-> "sta", connected |-> TRUE, gateway |-> g])

\* The station loses its network; nobody clears the gateway.
Disconnected == Moves([link EXCEPT !.connected = FALSE])

StartSta == Moves([link EXCEPT !.role = "sta", !.connected = FALSE])
StartAp == Moves([role |-> "ap", connected |-> FALSE, gateway |-> OwnGateway])

\* A request or a factory reset changes the sampling rate.
NewRate ==
  /\ settings < MaxSettings
  /\ rate' \in Rate \ {rate}
  /\ settings' = settings + 1
  /\ UNCHANGED <<task, session, current, link, moves>>

-----------------------------------------------------------------------------

TaskStep ==
  \/ ReadSettings \/ CheckRole \/ CheckLink \/ RecheckRole
  \/ StopSession \/ NothingToPing \/ StartSession \/ SessionFails

Next == TaskStep \/ GotIp \/ Disconnected \/ StartSta \/ StartAp \/ NewRate

Spec == Init /\ [][Next]_vars

\* The task keeps running, and memory for a session is not missing for ever.
FairSpec == Spec /\ WF_vars(TaskStep) /\ SF_vars(StartSession)

-----------------------------------------------------------------------------
(* Properties. *)

Online == link.role = "sta" /\ link.connected /\ link.gateway # NoGateway

\* Once the station keeps its network and the settings are left alone, there is a
\* ping session at the rate they ask for, whatever failed or was lost before.
PingFollowsRate ==
  \A r \in Rate : <>[](Online /\ rate = r) => <>[](session # NoSession /\ session.rate = r)

\* "(Re)configure the traffic generator when the sampling rate changes or once
\* the station has associated": in the end the session pings the gateway of the
\* network the station keeps.  The code violates it: a session made on one
\* network is kept on the next, because only a change of rate replaces it.
PingsGateway ==
  \A g \in Gateway : <>[](Online /\ link.gateway = g) => <>[](session.target = g)

=============================================================================
