---------------------------- MODULE ConfigProofs ----------------------------
(***************************************************************************)
(* Proofs about Config, for every set of request bodies, every number of   *)
(* failures and every set of image versions: config_validate puts any      *)
(* configuration in order and leaves one in order alone, so the settings   *)
(* are always in order, a restart brings back what was stored, and Wi-Fi   *)
(* uses the network in memory.  Unless something fails, what was answered  *)
(* is stored; an integer that fits its field is clamped as it came.        *)
(***************************************************************************)
EXTENDS Config, TLAPS

Settings ==
  [presence : Int, motion : Int, high : Int, rate : Int, brightness : Int,
   ssid : Ssids, pass : Keys, cred : Passwords]

\* config_validate keeps the fields and puts them in order, whatever they were.
LEMMA ValidateOrders ==
  ASSUME NEW c \in Settings
  PROVE  Validate(c) \in Settings /\ Ordered(Validate(c))
<1> DEFINE p == Clamp(c.presence, 1, 95)
           m == Apart(p, Clamp(c.motion, 2, 98))
           h == Apart(m, Clamp(c.high, 5, 99))
           p1 == Clamp(p, 1, 95)
           m1 == Clamp(m, 2, 98)
           h1 == Clamp(h, 5, 99)
           rate == Clamp(c.rate, 5, 100)
           brightness == Clamp(c.brightness, 0, 100)
           v == Validate(c)
<1>1. p \in 1 .. 95
  BY DEF Settings, Clamp
<1>2. m \in 2 .. 100 /\ p < m
  BY <1>1 DEF Settings, Clamp, Apart
<1>3. h \in 5 .. 105 /\ m < h
  BY <1>2 DEF Settings, Clamp, Apart
<1>4. rate \in 5 .. 100 /\ brightness \in 0 .. 100
  BY DEF Settings, Clamp
<1>5. v = [c EXCEPT !.presence = p1, !.motion = m1, !.high = h1, !.rate = rate,
                    !.brightness = brightness]
  BY DEF Validate
<1> HIDE DEF p, m, h, rate, brightness
<1>6. p1 \in 1 .. 95 /\ m1 \in 2 .. 98 /\ h1 \in 5 .. 99 /\ p1 < m1 /\ m1 < h1
  BY <1>1, <1>2, <1>3 DEF Clamp
<1> HIDE DEF p1, m1, h1, v
<1>7. p1 \in Int /\ m1 \in Int /\ h1 \in Int /\ rate \in Int /\ brightness \in Int
  BY <1>4, <1>6
<1>8. v \in Settings
  BY <1>5, <1>7 DEF Settings
<1>9. v.presence = p1 /\ v.motion = m1 /\ v.high = h1
  BY <1>5 DEF Settings
<1>10. v.rate = rate /\ v.brightness = brightness
  BY <1>5 DEF Settings
<1>11. Ordered(v)
  BY <1>4, <1>6, <1>9, <1>10 DEF Ordered
<1> QED
  BY <1>8, <1>11 DEF v

\* What is in order, config_validate leaves as it is.
LEMMA OrderedUnchanged ==
  ASSUME NEW c \in Settings, Ordered(c)
  PROVE  Validate(c) = c
<1> DEFINE p == Clamp(c.presence, 1, 95)
           m == Apart(p, Clamp(c.motion, 2, 98))
           h == Apart(m, Clamp(c.high, 5, 99))
<1>1. p = c.presence /\ Clamp(p, 1, 95) = c.presence
  BY DEF Ordered, Clamp
<1>2. m = c.motion /\ Clamp(m, 2, 98) = c.motion
  BY <1>1 DEF Ordered, Clamp, Apart
<1>3. h = c.high /\ Clamp(h, 5, 99) = c.high
  BY <1>2 DEF Ordered, Clamp, Apart
<1>4. Clamp(c.rate, 5, 100) = c.rate /\ Clamp(c.brightness, 0, 100) = c.brightness
  BY DEF Ordered, Clamp
<1>5. Validate(c) = [c EXCEPT !.presence = c.presence, !.motion = c.motion, !.high = c.high,
                              !.rate = c.rate, !.brightness = c.brightness]
  <2>1. Validate(c) = [c EXCEPT !.presence = Clamp(p, 1, 95), !.motion = Clamp(m, 2, 98),
                                !.high = Clamp(h, 5, 99), !.rate = Clamp(c.rate, 5, 100),
                                !.brightness = Clamp(c.brightness, 0, 100)]
    BY DEF Validate
  <2> HIDE DEF p, m, h
  <2> QED
    BY <2>1, <1>1, <1>2, <1>3, <1>4
<1> QED
  BY <1>5 DEF Settings

\* Once validated, a configuration is not changed by being loaded and validated
\* again at every boot.
THEOREM ValidateIdempotent ==
  ASSUME NEW c \in Settings
  PROVE  Validate(Validate(c)) = Validate(c)
BY ValidateOrders, OrderedUnchanged

-----------------------------------------------------------------------------

Requests ==
  [at : {"none", "set", "password", "answer"}, body : Bodies \cup {None.body}, cfg : Settings,
   password : Passwords \cup {NoPassword}, reconnect : BOOLEAN]

\* What is in memory, in flash and in the request being served has its type and
\* its order.
WellFormed ==
  /\ memory \in Settings /\ Ordered(memory)
  /\ flash.body \in Settings /\ Ordered(flash.body)
  /\ request \in Requests
  /\ request.at = "password" => request.password # NoPassword

\* From config_init on, a blob whose last write succeeded is memory itself.
Saved ==
  boot \in {"wifi", "running"} /\ stored
    => Acceptable(flash) /\ flash.body = memory

IInv == WellFormed /\ Saved

\* config_defaults needs no config_validate.
LEMMA DefaultsInOrder == Defaults \in Settings /\ Ordered(Defaults)
BY PasswordAssumption, NetworkAssumption DEF Defaults, Settings, Ordered

\* A request's copy of the configuration has the type of a configuration, not
\* yet its order.
LEMMA AppliedTyped ==
  ASSUME NEW c \in Settings, NEW body \in Bodies
  PROVE  Applied(c, body) \in Settings
<1> DEFINE a == Applied(c, body)
<1>1. DOMAIN c = {"presence", "motion", "high", "rate", "brightness", "ssid", "pass", "cred"}
  BY DEF Settings
<1>2. a = [key \in {"presence", "motion", "high", "rate", "brightness", "ssid", "pass", "cred"} |->
             IF key \in Effective(body) THEN Taken(key, body[key]) ELSE c[key]]
  BY <1>1 DEF Applied
<1>3. Effective(body) \subseteq DOMAIN body
  BY DEF Effective
<1> HIDE DEF a
<1>4. a["presence"] \in Int /\ a["motion"] \in Int /\ a["high"] \in Int
  BY <1>2, <1>3, BodyAssumption DEF Taken, Settings
<1>5. a["rate"] \in Int
  BY <1>2, <1>3, BodyAssumption DEF Taken, Settings
<1>6. a["brightness"] \in Int
  BY <1>2, <1>3, BodyAssumption DEF Taken, Settings
<1>7. a["ssid"] \in Ssids /\ a["pass"] \in Keys /\ a["cred"] \in Passwords
  BY <1>2, <1>3, BodyAssumption DEF Taken, Settings
<1> QED
  BY <1>2, <1>4, <1>5, <1>6, <1>7 DEF Settings, a

\* A write of the new memory, whatever becomes of it.
LEMMA PersistKeeps ==
  ASSUME NEW c \in Settings, Ordered(c), memory' = c, version' = version,
         WellFormed, Persist(c)
  PROVE  /\ flash'.body \in Settings /\ Ordered(flash'.body)
         /\ stored' => Acceptable(flash)' /\ flash'.body = memory'
<1>1. flash' = flash \/ flash' = Blob(c)
  BY DEF Persist
<1>2. Blob(c).body = c /\ Blob(c).version = version /\ Blob(c).crc = Crc(c)
  BY DEF Blob
<1>3. stored' => flash' = Blob(c)
  BY DEF Persist
<1> QED
  BY <1>1, <1>2, <1>3 DEF WellFormed, Acceptable

\* No request is being served.
LEMMA NoneTyped == None \in Requests /\ None.at = "none" /\ None.password = NoPassword
BY DefaultsInOrder DEF None, Requests

\* A request after config_set_password, whether the hash failed or not.
LEMMA PasswordMoves ==
  ASSUME WellFormed, ConfigSetPassword
  PROVE  /\ request' \in Requests /\ request'.at = "answer"
         /\ request'.reconnect = request.reconnect
<1>1. CASE request' = [request EXCEPT !.at = "answer"]
  BY <1>1 DEF WellFormed, Requests
<1>2. CASE request' = [request EXCEPT !.at = "answer", !.password = NoPassword]
  BY <1>2 DEF WellFormed, Requests
<1> QED
  BY <1>1, <1>2 DEF ConfigSetPassword

\* The device is switched on with the defaults in memory and no blob.
LEMMA InitIInv == Init => IInv
BY DefaultsInOrder, NoneTyped DEF Init, IInv, WellFormed, Saved, Absent

\* No step of a request or of a boot breaks the invariant.
LEMMA NextIInv == IInv /\ [Next]_vars => IInv'
<1> SUFFICES ASSUME IInv, [Next]_vars
             PROVE  IInv'
  OBVIOUS
<1> USE DEF IInv
<1>1. ASSUME NEW body \in Bodies, NEW password \in Passwords \cup {NoPassword}, Post(body, password)
      PROVE  IInv'
  <2>1. Applied(memory, body) \in Settings
    BY AppliedTyped DEF WellFormed
  <2>2. WellFormed'
    <3>1. request' \in Requests
      BY <1>1, <2>1 DEF Post, Requests, Reconnects
    <3>2. request'.at = "password" => request'.password # NoPassword
      BY <1>1 DEF Post
    <3> QED
      BY <1>1, <3>1, <3>2 DEF Post, WellFormed
  <2>3. Saved'
    BY <1>1 DEF Post, Saved, Acceptable
  <2> QED
    BY <2>2, <2>3
<1>2. CASE ConfigSet
  <2>1. Validate(request.cfg) \in Settings /\ Ordered(Validate(request.cfg))
    BY ValidateOrders DEF WellFormed, Requests
  <2>2. memory' \in Settings /\ Ordered(memory')
    <3> DEFINE v == Validate(request.cfg)
    <3> HIDE DEF v
    <3>1. memory' = [v EXCEPT !.cred = memory.cred]
      BY <1>2 DEF ConfigSet, v
    <3>2. v \in Settings /\ Ordered(v) /\ memory.cred \in Passwords
      BY <2>1 DEF WellFormed, Settings, v
    <3>3. memory' \in Settings
      BY <3>1, <3>2 DEF Settings
    <3>4. /\ memory'.presence = v.presence /\ memory'.motion = v.motion /\ memory'.high = v.high
          /\ memory'.rate = v.rate /\ memory'.brightness = v.brightness
      BY <3>1, <3>2 DEF Settings
    <3> QED
      BY <3>2, <3>3, <3>4 DEF Ordered
  <2>3. Persist(memory') /\ version' = version
    BY <1>2 DEF ConfigSet
  <2>4. /\ flash'.body \in Settings /\ Ordered(flash'.body)
        /\ stored' => Acceptable(flash)' /\ flash'.body = memory'
    BY <2>2, <2>3, PersistKeeps
  <2>5. request' \in Requests /\ (request'.at = "password" => request'.password # NoPassword)
    BY <1>2, NoneTyped DEF ConfigSet, WellFormed, Requests
  <2> QED
    BY <2>2, <2>4, <2>5 DEF WellFormed, Saved
<1>3. CASE ConfigSetPassword
  <2>0. request' \in Requests /\ request'.at = "answer"
    BY <1>3, PasswordMoves
  <2>1. CASE UNCHANGED <<memory, flash, stored>>
    BY <1>3, <2>0, <2>1 DEF ConfigSetPassword, WellFormed, Saved, Acceptable
  <2>2. CASE memory' = [memory EXCEPT !.cred = request.password] /\ Persist(memory')
    <3>0. /\ memory \in Settings /\ Ordered(memory) /\ request.password \in Passwords
          /\ memory' = [memory EXCEPT !.cred = request.password]
      BY <1>3, <2>2 DEF ConfigSetPassword, WellFormed, Requests
    <3>1. memory' \in Settings /\ Ordered(memory')
      <4>1. memory' \in Settings
        BY <3>0 DEF Settings
      <4>2. /\ memory'.presence = memory.presence /\ memory'.motion = memory.motion
            /\ memory'.high = memory.high
            /\ memory'.rate = memory.rate /\ memory'.brightness = memory.brightness
        BY <3>0 DEF Settings
      <4> QED
        BY <3>0, <4>1, <4>2 DEF Ordered
    <3>2. Persist(memory') /\ version' = version
      BY <1>3, <2>2 DEF ConfigSetPassword
    <3>3. /\ flash'.body \in Settings /\ Ordered(flash'.body)
          /\ stored' => Acceptable(flash)' /\ flash'.body = memory'
      BY <3>1, <3>2, PersistKeeps
    <3> QED
      BY <2>0, <3>1, <3>3 DEF WellFormed, Saved
  <2> QED
    BY <1>3, <2>1, <2>2 DEF ConfigSetPassword
<1>4. CASE Answer
  BY <1>4, NoneTyped DEF Answer, WellFormed, Saved, Acceptable
<1>5. CASE FactoryReset
  <2>1. memory' \in Settings /\ Ordered(memory')
    BY <1>5, DefaultsInOrder DEF FactoryReset
  <2>2. Persist(memory') /\ version' = version /\ request' = request
    BY <1>5 DEF FactoryReset
  <2>3. /\ flash'.body \in Settings /\ Ordered(flash'.body)
        /\ stored' => Acceptable(flash)' /\ flash'.body = memory'
    BY <2>1, <2>2, PersistKeeps
  <2> QED
    BY <2>1, <2>2, <2>3 DEF WellFormed, Saved
<1>6. CASE Restart
  BY <1>6, DefaultsInOrder, NoneTyped DEF Restart, WellFormed, Saved
<1>7. CASE StorageInit \/ EraseFails
  <2>1. /\ flash' = flash \/ flash' = Absent
        /\ memory' = memory /\ request' = request /\ boot' \in {"storage", "config"}
    BY <1>7 DEF StorageInit, EraseFails
  <2> QED
    BY <2>1, DefaultsInOrder DEF WellFormed, Saved, Absent
<1>8. CASE Load
  <2>1. memory' = flash.body
    BY <1>8, OrderedUnchanged DEF Load, WellFormed
  <2> QED
    BY <1>8, <2>1 DEF Load, WellFormed, Saved, Acceptable
<1>9. CASE LoadDefaults
  <2>1. memory' = Defaults /\ version' = version /\ request' = request
    BY <1>9 DEF LoadDefaults
  <2>2. CASE Persist(memory')
    <3>1. /\ flash'.body \in Settings /\ Ordered(flash'.body)
          /\ stored' => Acceptable(flash)' /\ flash'.body = memory'
      BY <2>1, <2>2, DefaultsInOrder, PersistKeeps
    <3> QED
      BY <2>1, <3>1, DefaultsInOrder DEF WellFormed, Saved
  <2>3. CASE flash' = Blob(memory') \/ (flash' = flash /\ stored' = FALSE)
    BY <2>1, <2>3, DefaultsInOrder DEF WellFormed, Saved, Acceptable, Blob
  <2> QED
    BY <1>9, <2>2, <2>3 DEF LoadDefaults
<1>10. CASE WifiStart
  BY <1>10 DEF WifiStart, WellFormed, Saved, Acceptable
<1>11. CASE UNCHANGED vars
  BY <1>11 DEF vars, WellFormed, Saved, Acceptable
<1> QED
  BY <1>1, <1>2, <1>3, <1>4, <1>5, <1>6, <1>7, <1>8, <1>9, <1>10, <1>11 DEF Next

\* Memory, flash and the request stay well formed, and a successful write stays
\* the truth about flash, through requests, failures, restarts and updates.
THEOREM InductiveInvariant == Spec => []IInv
<1> QED
  BY InitIInv, NextIInv, PTL DEF Spec

\* The configuration the other components read is in order in every reachable
\* state, whatever was asked for (config_validate).
THEOREM SettingsAlwaysInOrder == Spec => []SettingsInOrder
<1>1. IInv => SettingsInOrder
  BY DEF IInv, WellFormed, SettingsInOrder
<1> QED
  BY <1>1, InductiveInvariant, PTL

\* After a successful write a restart of the same image brings back what is in
\* memory (config_persist_locked, config_init).
THEOREM RestartAlwaysBringsBack == Spec => []RestartBringsBack
<1>1. IInv => RestartBringsBack
  BY OrderedUnchanged DEF IInv, WellFormed, Saved, RestartBringsBack, Running
<1> QED
  BY <1>1, InductiveInvariant, PTL

-----------------------------------------------------------------------------

\* How the network wifi.c was last told to use relates to the one in memory, before and
\* after config_set has changed the latter.  A device that is not up serves no request.
LinkKnown ==
  /\ Running \/ request.at = "none"
  /\ Running /\ ~leaving =>
       /\ request.at = "none" => link = Network(memory)
       /\ request.at = "set" =>
            /\ link = Network(memory)
            /\ request.reconnect \/ Network(request.cfg) = Network(memory)
       /\ request.at \in {"password", "answer"} => request.reconnect \/ link = Network(memory)

\* config_validate leaves the network alone.
LEMMA ValidateKeepsNetwork ==
  ASSUME NEW c \in Settings, NEW cred
  PROVE  Network([Validate(c) EXCEPT !.cred = cred]) = Network(c)
<1> DEFINE v == Validate(c)
<1>1. v \in Settings
  BY ValidateOrders
<1>2. v.ssid = c.ssid /\ v.pass = c.pass
  BY DEF Validate, Settings
<1> HIDE DEF v
<1>3. [v EXCEPT !.cred = cred].ssid = v.ssid /\ [v EXCEPT !.cred = cred].pass = v.pass
  BY <1>1 DEF Settings
<1> QED
  BY <1>2, <1>3 DEF Network, v

\* A body that sets nothing leaves a configuration as it is.
LEMMA NothingApplied ==
  ASSUME NEW c \in Settings, NEW body, Effective(body) = {}
  PROVE  Network(Applied(c, body)) = Network(c)
<1>1. DOMAIN c = {"presence", "motion", "high", "rate", "brightness", "ssid", "pass", "cred"}
  BY DEF Settings
<1> QED
  BY <1>1 DEF Applied, Network

\* Every step of a request keeps track of whether wifi.c has yet to be told.
LEMMA LinkStep == IInv /\ LinkKnown /\ [Next]_vars => LinkKnown'
<1> SUFFICES ASSUME IInv, LinkKnown, [Next]_vars
             PROVE  LinkKnown'
  OBVIOUS
<1>0. memory \in Settings /\ request.cfg \in Settings
  BY DEF IInv, WellFormed, Requests
<1>1. ASSUME NEW body \in Bodies, NEW password \in Passwords \cup {NoPassword}, Post(body, password)
      PROVE  LinkKnown'
  <2>1. /\ Running /\ Running' /\ leaving' = leaving /\ link' = link /\ memory' = memory
        /\ request.at = "none"
        /\ request'.at = IF Effective(body) # {} THEN "set"
                         ELSE IF password # NoPassword THEN "password" ELSE "answer"
        /\ request'.cfg = Applied(memory, body)
        /\ request'.reconnect <=> Network(Applied(memory, body)) # Network(memory)
    BY <1>1 DEF Post, Idle, Running, None, Reconnects
  <2> QED
    BY <1>0, <2>1, NothingApplied DEF LinkKnown
<1>2. CASE ConfigSet
  <2>1. /\ request.at = "set" /\ Running /\ boot' = boot /\ leaving' = leaving /\ link' = link
        /\ request'.at \in {"password", "answer"} /\ request'.reconnect = request.reconnect
    BY <1>2 DEF ConfigSet, LinkKnown
  <2>2. Network(memory') = Network(request.cfg)
    BY <1>0, <1>2, ValidateKeepsNetwork DEF ConfigSet
  <2> QED
    BY <2>1, <2>2 DEF LinkKnown, Running
<1>3. CASE ConfigSetPassword
  <2>1. /\ request.at = "password" /\ boot' = boot /\ leaving' = leaving /\ link' = link
        /\ request'.at = "answer" /\ request'.reconnect = request.reconnect
        /\ memory' = memory \/ memory' = [memory EXCEPT !.cred = request.password]
    BY <1>3, PasswordMoves DEF ConfigSetPassword, IInv
  <2>2. memory'.ssid = memory.ssid /\ memory'.pass = memory.pass
    BY <1>0, <2>1 DEF Settings
  <2> QED
    BY <2>1, <2>2 DEF LinkKnown, Running, Network
<1>4. CASE Answer
  BY <1>4 DEF Answer, LinkKnown, Running, Network, None
<1>5. CASE FactoryReset
  BY <1>5 DEF FactoryReset, Idle, LinkKnown, Running, None
<1>6. CASE Restart
  BY <1>6 DEF Restart, LinkKnown, Running, None
<1>7. CASE StorageInit \/ EraseFails \/ Load \/ LoadDefaults
  BY <1>7 DEF StorageInit, EraseFails, Load, LoadDefaults, LinkKnown, Running
<1>8. CASE WifiStart
  BY <1>8 DEF WifiStart, LinkKnown, Running, Network
<1>9. CASE UNCHANGED vars
  BY <1>9 DEF vars, LinkKnown, Running, Network
<1> QED
  BY <1>1, <1>2, <1>3, <1>4, <1>5, <1>6, <1>7, <1>8, <1>9 DEF Next

\* Between requests Wi-Fi uses the network in memory, whichever of the network's fields a
\* request named, whichever write failed and wherever a restart came in between.
THEOREM NetworkAlwaysInUse == Spec => []NetworkInUse
<1>1. Init => LinkKnown
  BY DEF Init, LinkKnown, Running, None
<1>2. LinkKnown => NetworkInUse
  BY DEF LinkKnown, NetworkInUse, Idle, None
<1> QED
  BY <1>1, <1>2, LinkStep, InductiveInvariant, PTL DEF Spec

-----------------------------------------------------------------------------
(* What the deviations from the documentation are confined to. *)

\* While nothing fails, NVS is up from storage_init on, the last write has succeeded from
\* config_init on, and no password is left over.  A request is served by a device that is up.
Unfailing ==
  /\ Running \/ request.at = "none"
  /\ faults \in Nat
  /\ faults = 0 => /\ boot # "storage" => nvs
                   /\ boot \in {"wifi", "running"} => stored
                   /\ request.at \in {"none", "answer"} => request.password = NoPassword

LEMMA PersistStores ==
  ASSUME NEW c, nvs, faults = 0, Persist(c)
  PROVE  faults' \in Nat /\ (faults' = 0 => stored')
BY DEF Persist, Fault

LEMMA FaultsGrow ==
  ASSUME NEW c, faults \in Nat, Persist(c)
  PROVE  faults' \in Nat /\ (faults' = 0 => faults = 0)
BY DEF Persist, Fault

LEMMA UnfailingStep == IInv /\ Unfailing /\ [Next]_vars => Unfailing'
<1> SUFFICES ASSUME IInv, Unfailing, [Next]_vars
             PROVE  Unfailing'
  OBVIOUS
<1>1. CASE \E body \in Bodies, password \in Passwords \cup {NoPassword} : Post(body, password)
  BY <1>1 DEF Post, Idle, Running, Unfailing
<1>2. CASE ConfigSet \/ ConfigSetPassword \/ FactoryReset
  <2>1. Running /\ boot' = boot /\ nvs' = nvs
    BY <1>2 DEF ConfigSet, ConfigSetPassword, FactoryReset, Idle, Unfailing
  <2>2. CASE Fault
    <3>1. faults' \in Nat /\ faults' # 0
      BY <2>2 DEF Fault, Unfailing
    <3>. QED BY <2>1, <3>1 DEF Unfailing, Running
  <2>3. CASE ~Fault
    <3>1. PICK c : Persist(c)
      BY <1>2, <2>3 DEF ConfigSet, ConfigSetPassword, FactoryReset
    <3>2. faults' = 0 /\ request'.at \in {"none", "answer"} => request'.password = NoPassword
      <4>1. faults' = 0 => faults = 0
        BY <3>1, FaultsGrow DEF Unfailing
      <4>2. CASE ConfigSet
        BY <4>2 DEF ConfigSet, IInv, WellFormed, Requests
      <4>3. CASE ConfigSetPassword
        BY <2>3, <4>3 DEF ConfigSetPassword, IInv, WellFormed, Requests
      <4>4. CASE FactoryReset
        BY <4>1, <4>4 DEF FactoryReset, Unfailing
      <4>. QED BY <1>2, <4>2, <4>3, <4>4
    <3>. QED BY <2>1, <3>1, <3>2, PersistStores, FaultsGrow DEF Unfailing, Running
  <2>. QED BY <2>2, <2>3
<1>3. CASE Answer
  BY <1>3 DEF Answer, None, Running, Unfailing
<1>4. CASE Restart
  BY <1>4 DEF Restart, None, Running, Unfailing
<1>5. CASE StorageInit \/ EraseFails
  BY <1>5 DEF StorageInit, EraseFails, Fault, Running, Unfailing
<1>6. CASE Load
  BY <1>6 DEF Load, Running, Unfailing
<1>7. CASE LoadDefaults
  <2>1. /\ boot = "config" /\ boot' = "wifi" /\ nvs' = nvs /\ request' = request
        /\ Persist(Defaults) \/ faults' = faults + 1
    BY <1>7 DEF LoadDefaults, Fault
  <2>. QED BY <2>1, PersistStores, FaultsGrow DEF Unfailing, Running
<1>8. CASE WifiStart
  BY <1>8 DEF WifiStart, Running, Unfailing
<1>9. CASE UNCHANGED vars
  BY <1>9 DEF vars, Running, Unfailing
<1> QED
  BY <1>1, <1>2, <1>3, <1>4, <1>5, <1>6, <1>7, <1>8, <1>9 DEF Next

\* As long as no read, write or erasure of flash has failed, "saved" is answered only when it
\* is: that the handlers ignore their results (webserver.c) is the only way to the deviation.
THEOREM AnsweredIsStoredUnlessFailed == Spec /\ [](faults = 0) => AnsweredIsStored
<1>1. Init => Unfailing
  BY DEF Init, Unfailing, None
<1>2. Spec => []Unfailing
  BY <1>1, UnfailingStep, InductiveInvariant, PTL DEF Spec
<1>3. Unfailing /\ faults = 0 /\ (faults = 0)' /\ [Next]_vars
        => [Answer \/ FactoryReset => stored' /\ request.password = NoPassword]_vars
  <2>. SUFFICES ASSUME Unfailing, faults = 0, faults' = 0, Answer \/ FactoryReset
                PROVE  stored' /\ request.password = NoPassword
    OBVIOUS
  <2>1. CASE Answer
    BY <2>1 DEF Answer, Unfailing, Running
  <2>2. CASE FactoryReset
    <3>1. nvs /\ Persist(memory')
      BY <2>2 DEF FactoryReset, Idle, Unfailing, Running
    <3>2. request.password = NoPassword
      BY <2>2 DEF FactoryReset, Idle, None
    <3>. QED BY <3>1, <3>2, PersistStores
  <2>. QED BY <2>1, <2>2
<1>. QED BY <1>2, <1>3, PTL DEF Spec, AnsweredIsStored

\* Until config_set stores it, a request's copy is memory with the body applied to it.
CopyApplied ==
  request.at = "set" => /\ Running
                        /\ request.body \in Bodies
                        /\ request.cfg = Applied(memory, request.body)

LEMMA CopyStep == IInv /\ CopyApplied /\ [Next]_vars => CopyApplied'
<1> SUFFICES ASSUME IInv, CopyApplied, [Next]_vars, request'.at = "set"
             PROVE  Running' /\ request'.body \in Bodies /\ request'.cfg = Applied(memory', request'.body)
  BY DEF CopyApplied
<1>1. ASSUME NEW body \in Bodies, NEW password \in Passwords \cup {NoPassword}, Post(body, password)
      PROVE  Running' /\ request'.body \in Bodies /\ request'.cfg = Applied(memory', request'.body)
  BY <1>1 DEF Post, Idle, Running
<1>2. ~ConfigSet /\ ~ConfigSetPassword /\ ~Answer /\ ~Restart /\ ~FactoryReset
  <2>1. ConfigSet => request'.at \in {"password", "answer"}
    BY DEF ConfigSet
  <2>2. ConfigSetPassword => request'.at = "answer"
    BY PasswordMoves DEF IInv
  <2>. QED BY <2>1, <2>2 DEF Answer, Restart, FactoryReset, Idle, None
<1>3. CASE StorageInit \/ EraseFails \/ Load \/ LoadDefaults \/ WifiStart \/ UNCHANGED vars
  <2>1. request' = request
    BY <1>3 DEF StorageInit, EraseFails, Load, LoadDefaults, WifiStart, vars
  <2>. QED BY <1>3, <2>1 DEF StorageInit, EraseFails, Load, LoadDefaults, WifiStart, vars,
                             CopyApplied, Running
<1> QED
  BY <1>1, <1>2, <1>3 DEF Next

\* An integer that fits its field is stored as the nearest one in range: the cut to 16 or
\* 8 bits (config_apply_json) is the only way to the deviation.
ClampedIfItFits ==
  [][ConfigSet =>
       /\ "rate" \in DOMAIN request.body /\ request.body.rate \in 0 .. 2 ^ 16 - 1
            => memory'.rate = Clamp(request.body.rate, 5, 100)
       /\ "brightness" \in DOMAIN request.body /\ request.body.brightness \in 0 .. 2 ^ 8 - 1
            => memory'.brightness = Clamp(request.body.brightness, 0, 100)]_vars

LEMMA SmallRest ==
  ASSUME NEW n \in Nat, NEW v \in 0 .. n - 1
  PROVE  v % n = v
OBVIOUS

THEOREM FittingIntegersClamped == Spec => ClampedIfItFits
<1>1. Init => CopyApplied
  BY DEF Init, CopyApplied, None
<1>2. Spec => []CopyApplied
  BY <1>1, CopyStep, InductiveInvariant, PTL DEF Spec
<1>3. ASSUME IInv, CopyApplied, ConfigSet
      PROVE  /\ "rate" \in DOMAIN request.body /\ request.body.rate \in 0 .. 2 ^ 16 - 1
                  => memory'.rate = Clamp(request.body.rate, 5, 100)
             /\ "brightness" \in DOMAIN request.body /\ request.body.brightness \in 0 .. 2 ^ 8 - 1
                  => memory'.brightness = Clamp(request.body.brightness, 0, 100)
  <2> DEFINE body == request.body
             c == request.cfg
             v == Validate(c)
  <2>1. c = Applied(memory, body) /\ c \in Settings /\ memory \in Settings
    BY <1>3 DEF ConfigSet, CopyApplied, IInv, WellFormed, Requests
  <2>2. v \in Settings
    BY <2>1, ValidateOrders
  <2>3. v.rate = Clamp(c.rate, 5, 100) /\ v.brightness = Clamp(c.brightness, 0, 100)
    BY <2>1 DEF Validate, Settings
  <2>4. memory' = [v EXCEPT !.cred = memory.cred]
    BY <1>3 DEF ConfigSet
  <2> HIDE DEF v
  <2>5. memory'.rate = Clamp(c.rate, 5, 100) /\ memory'.brightness = Clamp(c.brightness, 0, 100)
    BY <2>2, <2>3, <2>4 DEF Settings
  <2>6. \A key \in DOMAIN memory : key \in Effective(body) => c[key] = Taken(key, body[key])
    BY <2>1 DEF Applied
  <2>7. "rate" \in DOMAIN memory /\ "brightness" \in DOMAIN memory
    BY <2>1 DEF Settings
  <2>8. ASSUME "rate" \in DOMAIN body, body.rate \in 0 .. 2 ^ 16 - 1
        PROVE  c.rate = body.rate
    <3>1. c.rate = body.rate % 2 ^ 16
      BY <2>6, <2>7, <2>8 DEF Effective, Taken
    <3>2. 2 ^ 16 \in Nat
      OBVIOUS
    <3>. QED BY <2>8, <3>1, <3>2, SmallRest
  <2>9. ASSUME "brightness" \in DOMAIN body, body.brightness \in 0 .. 2 ^ 8 - 1
        PROVE  c.brightness = body.brightness
    <3>1. c.brightness = body.brightness % 2 ^ 8
      BY <2>6, <2>7, <2>9 DEF Effective, Taken
    <3>2. 2 ^ 8 \in Nat
      OBVIOUS
    <3>. QED BY <2>9, <3>1, <3>2, SmallRest
  <2>. QED BY <2>5, <2>8, <2>9
<1>4. IInv /\ CopyApplied => [ConfigSet =>
       /\ "rate" \in DOMAIN request.body /\ request.body.rate \in 0 .. 2 ^ 16 - 1
            => memory'.rate = Clamp(request.body.rate, 5, 100)
       /\ "brightness" \in DOMAIN request.body /\ request.body.brightness \in 0 .. 2 ^ 8 - 1
            => memory'.brightness = Clamp(request.body.brightness, 0, 100)]_vars
  BY <1>3
<1>. QED BY <1>2, <1>4, InductiveInvariant, PTL DEF ClampedIfItFits

=============================================================================
