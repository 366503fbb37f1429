------------------------------- MODULE Config -------------------------------
(***************************************************************************)
(* config.c over storage.c: the configuration in memory, its copy in       *)
(* flash, and the requests that change them (webserver.c).                 *)
(*                                                                         *)
(* A request is served by the one HTTP task, but in separate steps: the    *)
(* settings are stored, then the password, then Wi-Fi is told, and the     *)
(* device may lose power between any two.  A write may fail, and its       *)
(* result is ignored.  Thresholds are hundredths.  NVS is external: it     *)
(* keeps a blob whole or not at all.                                       *)
(***************************************************************************)
EXTENDS Integers

CONSTANTS
  Bodies,      \* bodies of POST /api/config: functions from some keys to values
  Passwords,   \* administrator passwords a request may set
  Factory,     \* NEXUS_DEFAULT_ADMIN_PASS
  NoPassword,  \* a request without admin_pass
  Ssids,       \* networks, the default one among them
  HomeSsid,    \* NEXUS_DEFAULT_WIFI_SSID
  Keys,        \* Wi-Fi passwords
  NoKey,       \* the empty one, also NEXUS_DEFAULT_WIFI_PASS
  Versions,    \* NEXUS_CONFIG_VERSION of the images that may be started
  MaxFaults    \* bound of the model on failing writes, reads and erasures

ASSUME PasswordAssumption == Factory \in Passwords /\ NoPassword \notin Passwords
ASSUME NetworkAssumption == HomeSsid \in Ssids /\ NoKey \in Keys
\* What config_apply_json finds under a key has the type it asks for.
ASSUME BodyAssumption ==
  \A body \in Bodies : \A key \in DOMAIN body :
    /\ key \in {"presence", "motion", "high", "rate", "brightness"} => body[key] \in Int
    /\ key = "ssid" => body[key] \in Ssids
    /\ key = "pass" => body[key] \in Keys
    /\ key # "cred"
ASSUME FaultAssumption == MaxFaults \in Nat /\ 0 \notin Versions

VARIABLES
  memory,   \* s_cfg
  flash,    \* the configuration's blob
  nvs,      \* nvs_flash_init succeeded
  version,  \* NEXUS_CONFIG_VERSION of the running image
  boot,     \* how far app_main has come
  request,  \* the request being served
  link,     \* the network wifi.c was last told to use
  leaving,  \* a factory reset has scheduled a restart
  faults,   \* failures so far
  stored    \* history: the last write reported success

vars == <<memory, flash, nvs, version, boot, request, link, leaving, faults, stored>>

-----------------------------------------------------------------------------
(* The algorithms. *)

\* utils_clampf, utils_clampi
Clamp(v, lo, hi) == IF v < lo THEN lo ELSE IF v > hi THEN hi ELSE v

Apart(lower, v) == IF lower < v THEN v ELSE lower + 5

\* config_validate: clamp, push apart, and clamp again what was pushed too far.
Validate_Once(c) ==  \* mutant: what was pushed apart is not clamped again
  LET p == Clamp(c.presence, 1, 95)
      m == Apart(p, Clamp(c.motion, 2, 98))
      h == Apart(m, Clamp(c.high, 5, 99))
  IN [c EXCEPT !.presence = p, !.motion = m, !.high = h,
               !.rate = Clamp(c.rate, 5, 100), !.brightness = Clamp(c.brightness, 0, 100)]
Validate(c) ==
  LET p == Clamp(c.presence, 1, 95)
      m == Apart(p, Clamp(c.motion, 2, 98))
      h == Apart(m, Clamp(c.high, 5, 99))
  IN [c EXCEPT !.presence = Clamp(p, 1, 95), !.motion = Clamp(m, 2, 98),
               !.high = Clamp(h, 5, 99),
               !.rate = Clamp(c.rate, 5, 100), !.brightness = Clamp(c.brightness, 0, 100)]

\* What config_validate promises: every number in its range and the thresholds
\* in order.
Ordered(c) ==
  /\ c.presence \in 1 .. 95 /\ c.motion \in 2 .. 98 /\ c.high \in 5 .. 99
  /\ c.presence < c.motion /\ c.motion < c.high
  /\ c.rate \in 5 .. 100 /\ c.brightness \in 0 .. 100

\* config_defaults; the hash of the default password is taken to succeed.
Defaults ==
  [presence |-> 12, motion |-> 35, high |-> 70, rate |-> 20, brightness |-> 80,
   ssid |-> HomeSsid, pass |-> NoKey, cred |-> Factory]

\* config_apply_json: an integer is cut to the width of its field before
\* anybody validates it; an empty Wi-Fi password changes nothing.
Effective(body) ==
  {key \in DOMAIN body : ~(key = "pass" /\ body[key] = NoKey)}

Taken(key, v) ==
  IF key = "rate" THEN v % 2 ^ 16 ELSE IF key = "brightness" THEN v % 2 ^ 8 ELSE v

Applied(c, body) ==
  [key \in DOMAIN c |-> IF key \in Effective(body) THEN Taken(key, body[key]) ELSE c[key]]

Network(c) == <<c.ssid, c.pass>>

-----------------------------------------------------------------------------
(* The blob and its store. *)

\* config_compute_crc: two configurations with the same checksum are the same.
Crc(c) == c

Absent == [version |-> 0, body |-> Defaults, crc |-> Defaults]

\* config_persist_locked
Blob_StaleCrc(c) == [version |-> version, body |-> c, crc |-> flash.crc]  \* mutant
Blob(c) == [version |-> version, body |-> c, crc |-> Crc(c)]

\* What config_init accepts.
Acceptable(blob) == blob.version = version /\ blob.crc = Crc(blob.body)

\* storage_set_blob: done, refused, or done and then reported as failed.
Fault == faults < MaxFaults /\ faults' = faults + 1

Persist(c) ==
  \/ nvs /\ flash' = Blob(c) /\ stored' = TRUE /\ faults' = faults
  \/ ~nvs /\ flash' = flash /\ stored' = FALSE /\ faults' = faults
  \/ nvs /\ Fault /\ flash' \in {flash, Blob(c)} /\ stored' = FALSE

-----------------------------------------------------------------------------
(* Requests, each step by the HTTP task. *)

None == [at |-> "none", body |-> [key \in {} |-> 0], cfg |-> Defaults, password |-> NoPassword,
         reconnect |-> FALSE]

Running == boot = "running"
Idle == Running /\ request = None

Reconnects_OnSsid(c) == c.ssid # memory.ssid  \* mutant: a new key alone is not used
Reconnects(c) == Network(c) # Network(memory)

\* h_api_config_post, up to the first write.
Post(body, password) ==
  /\ Idle
  /\ request' = [at |-> IF Effective(body) # {} THEN "set"
                        ELSE IF password # NoPassword THEN "password" ELSE "answer",
                 body |-> body, cfg |-> Applied(memory, body), password |-> password,
                 reconnect |-> Reconnects(Applied(memory, body))]
  /\ UNCHANGED <<memory, flash, nvs, version, boot, link, leaving, faults, stored>>

\* config_set: the credentials in memory stay.  Nothing reads the request's
\* settings again.
ConfigSet ==
  /\ request.at = "set"
  /\ memory' = [Validate(request.cfg) EXCEPT !.cred = memory.cred]
  /\ Persist(memory')
  /\ request' = [request EXCEPT !.at = IF request.password # NoPassword THEN "password" ELSE "answer",
                                !.body = None.body, !.cfg = None.cfg]
  /\ UNCHANGED <<nvs, version, boot, link, leaving>>

\* config_set_password: the hash fails and nothing is changed or written, or the
\* new credential is stored.  A password that was not taken stays in the request.
ConfigSetPassword ==
  /\ request.at = "password"
  /\ \/ /\ Fault
        /\ request' = [request EXCEPT !.at = "answer"]
        /\ UNCHANGED <<memory, flash, stored>>
     \/ /\ memory' = [memory EXCEPT !.cred = request.password]
        /\ Persist(memory')
        /\ request' = [request EXCEPT !.at = "answer", !.password = NoPassword]
  /\ UNCHANGED <<nvs, version, boot, link, leaving>>

\* The end of h_api_config_post: Wi-Fi is told if the network changed, and the
\* answer is "saved" whatever the writes reported.
Answer ==
  /\ request.at = "answer"
  /\ request' = None
  /\ link' = IF request.reconnect THEN Network(memory) ELSE link
  /\ UNCHANGED <<memory, flash, nvs, version, boot, leaving, faults, stored>>

\* h_api_factory_reset, which also clears the log and schedules a restart.
FactoryReset ==
  /\ Idle
  /\ memory' = Defaults
  /\ Persist(memory')
  /\ leaving' = TRUE
  /\ UNCHANGED <<nvs, version, boot, request, link>>

-----------------------------------------------------------------------------
(* Restarts. *)

\* Loss of power, a requested restart or a panic, at any moment; the boot
\* loader may start an image with another configuration version (Ota).
Restart ==
  /\ boot' = "storage"
  /\ version' \in Versions
  /\ memory' = Defaults
  /\ request' = None
  /\ leaving' = FALSE
  /\ nvs' = FALSE
  /\ UNCHANGED <<flash, link, faults, stored>>

\* storage_init: NVS comes up at once; or it is erased, because it cannot be used,
\* or not, and then comes up or fails, which leaves the device with volatile
\* settings.
StorageInit ==
  /\ boot = "storage"
  /\ boot' = "config"
  /\ \/ nvs' = TRUE /\ UNCHANGED <<flash, faults>>
     \/ nvs' \in BOOLEAN /\ flash' = Absent /\ Fault
     \/ nvs' = FALSE /\ flash' = flash /\ Fault
  /\ UNCHANGED <<memory, version, request, link, leaving, stored>>

\* The erasure itself fails, with the blob gone already or not: ESP_ERROR_CHECK
\* restarts the device.
EraseFails ==
  /\ boot = "storage"
  /\ Fault
  /\ flash' \in {flash, Absent}
  /\ version' \in Versions
  /\ UNCHANGED <<memory, nvs, boot, request, link, leaving, stored>>

\* config_init with a blob it accepts.
Load ==
  /\ boot = "config" /\ nvs /\ Acceptable(flash)
  /\ boot' = "wifi"
  /\ memory' = Validate(flash.body)
  /\ stored' = TRUE
  /\ UNCHANGED <<flash, nvs, version, request, link, leaving, faults>>

\* config_init without one: none stored, another version's, or not readable.
\* The defaults are written over whatever is there; a store that can be neither
\* read nor written counts as one failure.
LoadDefaults ==
  /\ boot = "config"
  /\ boot' = "wifi"
  /\ memory' = Defaults
  /\ \/ ~(nvs /\ Acceptable(flash)) /\ Persist(memory')
     \/ /\ nvs /\ Fault
        /\ \/ flash' = Blob(memory') /\ stored' = TRUE
           \/ flash' \in {flash, Blob(memory')} /\ stored' = FALSE
  /\ UNCHANGED <<nvs, version, request, link, leaving>>

\* wifi_start
WifiStart ==
  /\ boot = "wifi"
  /\ boot' = "running"
  /\ link' = Network(memory)
  /\ UNCHANGED <<memory, flash, nvs, version, request, leaving, faults, stored>>

Init ==
  /\ memory = Defaults
  /\ flash = Absent
  /\ nvs = FALSE
  /\ version \in Versions
  /\ boot = "storage"
  /\ request = None
  /\ link = Network(Defaults)
  /\ leaving = FALSE
  /\ faults = 0
  /\ stored = FALSE

Next ==
  \/ \E body \in Bodies, password \in Passwords \cup {NoPassword} : Post(body, password)
  \/ ConfigSet \/ ConfigSetPassword \/ Answer \/ FactoryReset
  \/ Restart \/ StorageInit \/ EraseFails \/ Load \/ LoadDefaults \/ WifiStart

Spec == Init /\ [][Next]_vars

-----------------------------------------------------------------------------
(* Properties. *)

\* Whatever a request asks for and whatever was loaded, the configuration in
\* memory and every acceptable one in flash has its thresholds in order and its
\* numbers in range, as the motion engine, csi.c and display.c take for granted:
\* "Enforce monotonic ordering presence < motion < high_motion" (config_validate).
\* CALIBRATION.md says otherwise, see ThresholdsOnlyClamped.
SettingsInOrder ==
  /\ Ordered(memory)
  /\ Ordered(flash.body)

\* Once a write has succeeded, a restart of the same image brings back exactly
\* what is in memory, settings and credentials, including what earlier failed
\* writes left unsaved (config_persist_locked, config_init).
RestartBringsBack ==
  Running /\ stored => Acceptable(flash) /\ Validate(flash.body) = memory

\* Between requests Wi-Fi uses the network in memory, until the restart that a
\* factory reset has scheduled (h_api_config_post).
NetworkInUse == Idle /\ ~leaving => link = Network(memory)

\* "The firmware clamps values to valid ranges but does not reorder them"
\* (CALIBRATION.md): a threshold is stored as the nearest value in its range,
\* whatever the others are.  The code violates it: config_validate changes
\* thresholds that are in range to put them in order.
ThresholdsOnlyClamped ==
  [][ConfigSet => /\ memory'.presence = Clamp(request.cfg.presence, 1, 95)
                  /\ memory'.motion = Clamp(request.cfg.motion, 2, 98)
                  /\ memory'.high = Clamp(request.cfg.high, 5, 99)]_vars

\* "Values are clamped to valid ranges server-side" (API.md): the value stored
\* for an integer is the nearest one in range.  The code violates it: the
\* integer is cut to 16 or 8 bits first, and 300 % becomes 44 %.
RequestClamped ==
  [][ConfigSet =>
       /\ "rate" \in DOMAIN request.body => memory'.rate = Clamp(request.body.rate, 5, 100)
       /\ "brightness" \in DOMAIN request.body
            => memory'.brightness = Clamp(request.body.brightness, 0, 100)]_vars

\* Settings "save to the device, surviving reboots" (USAGE.md): a request is
\* answered only when the last write succeeded and no password is left over.  The
\* code violates it: the results of config_set, config_set_password and
\* config_factory_reset are ignored.
AnsweredIsStored ==
  [][Answer \/ FactoryReset => stored' /\ request.password = NoPassword]_vars

=============================================================================
