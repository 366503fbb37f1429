----------------------------- MODULE WifiProofs -----------------------------
(***************************************************************************)
(* Theorems about Wifi, for every set of networks, retry limit, queue      *)
(* length and number of reconfigurations, however the three tasks and the  *)
(* driver interleave: the connected bit is truthful, the command queue is  *)
(* bounded, and a device that is left alone is reachable when it rests and *)
(* falls back to its soft-AP only after every retry has failed.            *)
(***************************************************************************)
EXTENDS Wifi, SequenceTheorems, FiniteSetTheorems, TLAPS

-----------------------------------------------------------------------------
(* The connected bit. *)

\* There is a link only where a started station can have one.
LinkOfStation == radio.link # "down" => radio.mode = "STA" /\ radio.started

\* No disconnect is waiting behind the i-th event.
LastWord(i) == \A j \in 1 .. Len(events) : j > i => events[j].type # "DISCONNECTED"

\* What the bit will say once the event loop has caught up.
BitForetold ==
  /\ "CONNECTED" \in bits /\ LastWord(0) => radio.link = "up"
  /\ \A i \in 1 .. Len(events) : events[i].type = "GOT_IP" /\ LastWord(i) => radio.link = "up"

-----------------------------------------------------------------------------
(* The command queue. *)

Attempts(s) == {i \in 1 .. Len(s) : s[i].type # "GOT_IP"}

Count(s) == Cardinality(Attempts(s))

BringingUp == {"boot", "clear"} \cup StationSteps \cup SoftApSteps

\* Nothing has happened since power-on but the first calls of wifi_start.
Fresh ==
  /\ pc["worker"] = "receive"
  /\ cmdq = <<>> /\ events = <<>>
  /\ radio.link = "down" /\ ~radio.started

\* The flag is up while wifi_reconfigure takes the radio down and up again.
Flagged ==
  /\ pc["setup"] \in {"disconnect", "stop", "clear", "unflag"} => reconfiguring
  /\ pc["setup"] \in BringingUp => reconfiguring \/ Fresh

\* Commands received before the flag rose find the radio stopped ...
Stopped == pc["setup"] \in BringingUp /\ pc["worker"] # "receive" => ~radio.started

\* ... and nobody but "setup" selects the station mode.
SoftApMode == pc["setup"] \in {"ap_config", "ap_start"} => radio.mode = "AP"

\* "setup" may yet make the station start.
MayStart ==
  \/ pc["setup"] \in {"boot", "flag", "disconnect", "stop", "clear", "sta_role", "sta_mode",
                      "ap_role", "ap_mode"}
  \/ pc["setup"] \in {"sta_config", "sta_start"} /\ ~radio.started

One(b) == IF b THEN 1 ELSE 0

\* Attempts to join under way: each is a station that is about to start, a link, an
\* event, a command, or the worker's business, and turns into the next of these.
UnderWay ==
  One(MayStart) + One(radio.link # "down") + Count(events) + Len(cmdq)
    + One(pc["worker"] # "receive")

AttemptsBounded == UnderWay <= 1 + reconfigs

-----------------------------------------------------------------------------
(* A device that is left alone. *)

Waiting == pc = [setup |-> "idle", worker |-> "receive"]
NoEvent == events = <<>>
NoCommand == cmdq = <<>>
Station(link) == radio.mode = "STA" /\ radio.started /\ radio.link = link
Lost(own) == [type |-> "DISCONNECTED", own |-> own]

Starting ==
  /\ pc["setup"] \in {"boot"} \cup StationSteps \cup SoftApSteps
  /\ pc["worker"] = "receive"
  /\ NoEvent /\ NoCommand
  /\ radio.link = "down" /\ ~radio.started
  /\ pc["setup"] \in {"sta_config", "sta_start"} => radio.mode = "STA"
  /\ pc["setup"] \in {"ap_config", "ap_start"} => radio.mode = "AP"
  /\ pc["setup"] \in {"sta_mode", "sta_config", "sta_start"} => role = "STA"
  /\ pc["setup"] \in {"ap_mode", "ap_config", "ap_start"} => role = "AP"
  /\ retry = 0 /\ failed = 0 /\ "CONNECTED" \notin bits

Started ==
  /\ Waiting /\ NoCommand /\ events = <<[type |-> "STA_START"]>>
  /\ Station("down") /\ role = "STA" /\ failed = retry /\ "CONNECTED" \notin bits

Joining ==
  /\ Waiting /\ NoCommand /\ NoEvent
  /\ Station("joining") /\ role = "STA" /\ failed = retry /\ "CONNECTED" \notin bits

JoinedUntold ==
  /\ Waiting /\ NoCommand /\ events = <<[type |-> "GOT_IP"]>>
  /\ Station("up") /\ role = "STA" /\ failed = 0

Joined ==
  /\ Waiting /\ NoCommand /\ NoEvent
  /\ Station("up") /\ role = "STA" /\ failed = 0 /\ retry = 0 /\ "CONNECTED" \in bits

LostUntold ==
  /\ Waiting /\ NoCommand /\ events = <<[type |-> "GOT_IP"], Lost(FALSE)>>
  /\ Station("down") /\ role = "STA" /\ failed = 1

Failing ==
  /\ Waiting /\ NoCommand /\ events = <<Lost(FALSE)>>
  /\ Station("down") /\ role = "STA" /\ failed = retry + 1

Retrying ==
  /\ pc["setup"] = "idle" /\ NoEvent
  /\ \/ pc["worker"] = "receive" /\ cmdq = <<"RETRY_CONNECT">>
     \/ pc["worker"] \in {"backoff", "connect"} /\ NoCommand
  /\ Station("down") /\ role = "STA" /\ failed = retry /\ "CONNECTED" \notin bits

GivingUp ==
  /\ Waiting /\ NoEvent /\ cmdq = <<"FALLBACK_AP">>
  /\ Station("down") /\ role = "STA" /\ failed = RetryMax + 1 /\ "CONNECTED" \notin bits

FallingBack ==
  /\ pc["setup"] = "idle" /\ pc["worker"] \in {"fallback"} \cup SoftApSteps
  /\ NoEvent /\ NoCommand
  /\ radio.link = "down" /\ "CONNECTED" \notin bits
  /\ pc["worker"] \in {"ap_mode", "ap_config", "ap_start"} => role = "AP"
  /\ pc["worker"] \in {"ap_config", "ap_start"} => radio.mode = "AP"

Serving ==
  /\ Waiting /\ NoEvent /\ NoCommand
  /\ radio.mode = "AP" /\ radio.started /\ radio.link = "down" /\ role = "AP"
  /\ "CONNECTED" \notin bits

\* Left alone, the device is in one of these phases.
Phases ==
  LeftAlone =>
    /\ ~panicked /\ ~reconfiguring
    /\ \/ Starting \/ Started \/ Joining \/ JoinedUntold \/ Joined \/ LostUntold \/ Failing
       \/ Retrying \/ GivingUp \/ FallingBack \/ Serving

\* What holds however often the device is reconfigured, and the inductive invariant.
Core ==
  /\ TypeOK /\ LinkOfStation /\ BitForetold
  /\ Flagged /\ Stopped /\ SoftApMode /\ AttemptsBounded

IInv == Core /\ Phases

-----------------------------------------------------------------------------
(* Events and attempts. *)

StaStart == [type |-> "STA_START"]
GotIp == [type |-> "GOT_IP"]

\* The attempts of a queue of events are counted by a natural number.
LEMMA CountIsNatural ==
  ASSUME NEW s \in Seq(Event)
  PROVE  IsFiniteSet(Attempts(s)) /\ Count(s) \in Nat
<1>1. Len(s) \in Nat /\ IsFiniteSet(1 .. Len(s))
  BY FS_Interval, LenProperties
<1>2. Attempts(s) \in SUBSET (1 .. Len(s))
  BY DEF Attempts
<1>3. IsFiniteSet(Attempts(s))
  BY <1>1, <1>2, FS_Subset
<1>. QED BY <1>3, FS_CardinalityType DEF Count

\* An empty queue holds none.
LEMMA CountOfNothing == Count(<<>>) = 0
<1>1. Attempts(<<>>) = {}
  BY DEF Attempts
<1>. QED BY <1>1, FS_EmptySet DEF Count

\* Posting an event adds one, unless it is the one of a join that succeeded.
LEMMA CountOfAppend ==
  ASSUME NEW s \in Seq(Event), NEW e \in Event
  PROVE  Count(Append(s, e)) = Count(s) + One(e.type # "GOT_IP")
<1>. DEFINE r == Append(s, e)
            n == Len(s) + 1
<1>1. Len(s) \in Nat /\ Len(r) = n /\ r[n] = e /\ \A i \in 1 .. Len(s) : r[i] = s[i]
  BY AppendProperties, LenProperties
<1>2. IsFiniteSet(Attempts(s)) /\ Count(s) \in Nat
  BY CountIsNatural
<1>. HIDE DEF r
<1>3. n \notin Attempts(s)
  BY <1>1 DEF Attempts
<1>4. CASE e.type = "GOT_IP"
  <2>1. Attempts(r) = Attempts(s)
    BY <1>1, <1>4 DEF Attempts
  <2>. QED BY <1>2, <1>4, <2>1 DEF Count, One, r
<1>5. CASE e.type # "GOT_IP"
  <2>1. Attempts(r) = Attempts(s) \cup {n}
    BY <1>1, <1>5 DEF Attempts
  <2>2. Cardinality(Attempts(s) \cup {n}) = Cardinality(Attempts(s)) + 1
    <3>. HIDE DEF n
    <3>. QED BY <1>2, <1>3, FS_AddElement
  <2>. QED BY <1>5, <2>1, <2>2 DEF Count, One, r
<1>. QED BY <1>4, <1>5

\* Handling an event takes it out of the count.
LEMMA CountOfTail ==
  ASSUME NEW s \in Seq(Event), s # <<>>
  PROVE  Count(Tail(s)) = Count(s) - One(Head(s).type # "GOT_IP")
<1>. DEFINE t == Tail(s)
            rest == Attempts(s) \ {1}
            f == [i \in Attempts(t) |-> i + 1]
<1>1. /\ Len(s) \in Nat \ {0} /\ Len(t) = Len(s) - 1
      /\ Head(s) = s[1] /\ t \in Seq(Event)
      /\ \A i \in 1 .. Len(t) : t[i] = s[i + 1]
  BY HeadTailProperties, EmptySeq
<1>2. IsFiniteSet(Attempts(s)) /\ Count(s) \in Nat /\ IsFiniteSet(Attempts(t)) /\ Count(t) \in Nat
  BY <1>1, CountIsNatural
<1>. HIDE DEF t
<1>3. Attempts(t) \subseteq Nat /\ Attempts(s) \subseteq Nat
  BY <1>1 DEF Attempts
<1>4. \A i \in Attempts(t) : i + 1 \in rest
  BY <1>1, <1>3 DEF Attempts
<1>5. \A k \in rest : k - 1 \in Attempts(t) /\ (k - 1) + 1 = k
  BY <1>1, <1>3 DEF Attempts
<1>6. ExistsBijection(Attempts(t), rest)
  <2>1. f \in [Attempts(t) -> rest]
    BY <1>4
  <2>2. \A a, b \in Attempts(t) : f[a] = f[b] => a = b
    BY <1>3
  <2>3. \A k \in rest : \E a \in Attempts(t) : f[a] = k
    BY <1>5
  <2>4. f \in Bijection(Attempts(t), rest)
    <3>. HIDE DEF f, rest
    <3>. QED BY <2>1, <2>2, <2>3 DEF Bijection, Injection, Surjection, IsInjective
  <2>. QED BY <2>4 DEF ExistsBijection
<1>. HIDE DEF rest
<1>7. Cardinality(rest) = Count(t)
  BY <1>2, <1>6, FS_Bijection DEF Count
<1>8. Cardinality(rest) = IF 1 \in Attempts(s) THEN Count(s) - 1 ELSE Count(s)
  BY <1>2, FS_RemoveElement DEF Count, rest
<1>9. 1 \in Attempts(s) <=> Head(s).type # "GOT_IP"
  BY <1>1 DEF Attempts
<1>. QED BY <1>2, <1>7, <1>8, <1>9 DEF One, t

-----------------------------------------------------------------------------
(* The driver. *)

Radio == [mode : {"NULL", "STA", "AP"}, started : BOOLEAN,
          link : {"down", "joining", "up"}, net : Network \cup {NoNetwork}]
Places == [setup : SetupSteps \cup StationSteps \cup SoftApSteps,
           worker : WorkerSteps \cup SoftApSteps]

Posts(e) == events' = Append(events, e)
SameNet == radio'.net = radio.net
SamePower == radio'.mode = radio.mode /\ radio'.started = radio.started

\* Every event the driver posts is one.
LEMMA EventTypes ==
  /\ StaStart \in Event /\ GotIp \in Event /\ \A b \in BOOLEAN : Lost(b) \in Event
  /\ StaStart.type = "STA_START" /\ GotIp.type = "GOT_IP"
  /\ \A b \in BOOLEAN : Lost(b).type = "DISCONNECTED" /\ Lost(b).own = b
<1>. QED BY DEF StaStart, GotIp, Lost, Event

\* A started, unlinked station begins to join; any other call changes nothing.
LEMMA ConnectCall ==
  ASSUME radio \in Radio, esp_wifi_connect
  PROVE  /\ radio' \in Radio /\ SamePower /\ SameNet
         /\ radio'.link = IF radio.mode = "STA" /\ radio.started /\ radio.link = "down"
                          THEN "joining" ELSE radio.link
<1>. QED BY DEF esp_wifi_connect, Radio, SamePower, SameNet

\* Leaving a link, if there is one, is one event.
LEMMA Leaving ==
  ASSUME events \in Seq(Event), events' = events \o LeaveEvents
  PROVE  IF radio.link = "down" THEN events' = events ELSE Posts(Lost(TRUE))
<1>1. events \o <<>> = events
  BY ConcatEmptySeq
<1>2. events \o <<Lost(TRUE)>> = Append(events, Lost(TRUE))
  BY EventTypes, AppendIsConcat
<1>. QED BY <1>1, <1>2 DEF LeaveEvents, Posts, Lost

\* esp_wifi_disconnect leaves the radio started, without a link.
LEMMA DisconnectCall ==
  ASSUME radio \in Radio, events \in Seq(Event), esp_wifi_disconnect
  PROVE  /\ radio' \in Radio /\ SamePower /\ SameNet /\ radio'.link = "down"
         /\ IF radio.link = "down" THEN events' = events ELSE Posts(Lost(TRUE))
<1>1. radio' \in Radio /\ SamePower /\ SameNet /\ radio'.link = "down"
  BY DEF esp_wifi_disconnect, Radio, SamePower, SameNet
<1>. QED BY <1>1, Leaving DEF esp_wifi_disconnect

\* esp_wifi_stop leaves it stopped.
LEMMA StopCall ==
  ASSUME radio \in Radio, events \in Seq(Event), esp_wifi_stop
  PROVE  /\ radio' \in Radio /\ radio'.mode = radio.mode /\ ~radio'.started
         /\ SameNet /\ radio'.link = "down"
         /\ IF radio.link = "down" THEN events' = events ELSE Posts(Lost(TRUE))
<1>1. /\ radio' \in Radio /\ radio'.mode = radio.mode /\ ~radio'.started
      /\ SameNet /\ radio'.link = "down"
  BY DEF esp_wifi_stop, Radio, SameNet
<1>. QED BY <1>1, Leaving DEF esp_wifi_stop

\* A change of mode drops the link and, on a started radio, starts the station.
LEMMA SetModeCall ==
  ASSUME radio \in Radio, events \in Seq(Event), LinkOfStation,
         NEW m \in {"STA", "AP"}, esp_wifi_set_mode(m)
  PROVE  /\ radio' \in Radio /\ radio'.mode = m /\ radio'.started = radio.started /\ SameNet
         /\ IF radio.mode = m THEN radio' = radio /\ events' = events
            ELSE /\ radio'.link = "down"
                 /\ IF m = "STA"
                    THEN /\ radio.link = "down"
                         /\ IF radio.started THEN Posts(StaStart) ELSE events' = events
                    ELSE IF radio.link = "down" THEN events' = events ELSE Posts(Lost(TRUE))
<1>1. CASE radio.mode = m
  BY <1>1 DEF esp_wifi_set_mode, Radio, SameNet
<1>2. CASE radio.mode # m
  <2>1. /\ radio' \in Radio /\ radio'.mode = m /\ radio'.started = radio.started
        /\ SameNet /\ radio'.link = "down"
    BY <1>2 DEF esp_wifi_set_mode, Radio, SameNet
  <2>2. m = "STA" => radio.link = "down"
    BY <1>2 DEF LinkOfStation
  <2>3. /\ events \o <<>> = events
        /\ events \o <<Lost(TRUE)>> = Append(events, Lost(TRUE))
        /\ events \o <<StaStart>> = Append(events, StaStart)
    BY EventTypes, AppendIsConcat, ConcatEmptySeq
  <2>4. (events \o <<Lost(TRUE)>>) \o <<>> = Append(events, Lost(TRUE))
    <3>1. Append(events, Lost(TRUE)) \in Seq(Event)
      BY EventTypes, AppendProperties
    <3>. QED BY <2>3, <3>1, ConcatEmptySeq
  <2>5. events' = events \o LeaveEvents
                    \o (IF radio.started /\ m = "STA" THEN <<StaStart>> ELSE <<>>)
    BY <1>2 DEF esp_wifi_set_mode, StaStart
  <2>6. CASE m = "STA"
    <3>1. LeaveEvents = <<>>
      BY <2>2, <2>6 DEF LeaveEvents
    <3>. QED BY <1>2, <2>1, <2>2, <2>3, <2>5, <2>6, <3>1 DEF Posts
  <2>7. CASE m # "STA"
    <3>1. LeaveEvents = IF radio.link = "down" THEN <<>> ELSE <<Lost(TRUE)>>
      BY DEF LeaveEvents, Lost
    <3>. QED BY <1>2, <2>1, <2>3, <2>4, <2>5, <2>7, <3>1 DEF Posts
  <2>. QED BY <2>6, <2>7
<1>. QED BY <1>1, <1>2

\* Starting a stopped radio in station mode starts the station.
LEMMA StartCall ==
  ASSUME radio \in Radio, events \in Seq(Event), esp_wifi_start
  PROVE  /\ radio' \in Radio /\ radio'.mode = radio.mode /\ radio'.started /\ SameNet
         /\ radio'.link = radio.link
         /\ IF radio.mode = "STA" /\ ~radio.started THEN Posts(StaStart) ELSE events' = events
<1>1. /\ radio' \in Radio /\ radio'.mode = radio.mode /\ radio'.started /\ SameNet
      /\ radio'.link = radio.link
  BY DEF esp_wifi_start, Radio, SameNet
<1>2. /\ events \o <<>> = events
      /\ events \o <<StaStart>> = Append(events, StaStart)
  BY EventTypes, AppendIsConcat, ConcatEmptySeq
<1>3. events' = events \o (IF radio.mode = "STA" /\ ~radio.started THEN <<StaStart>> ELSE <<>>)
  BY DEF esp_wifi_start, StaStart
<1>. QED BY <1>1, <1>2, <1>3 DEF Posts

\* A task moves by itself.
LEMMA Moves ==
  ASSUME pc \in Places, NEW where, Goto("setup", where) \/ Goto("worker", where)
  PROVE  /\ Goto("setup", where) => pc'["setup"] = where /\ pc'["worker"] = pc["worker"]
         /\ Goto("worker", where) => pc'["worker"] = where /\ pc'["setup"] = pc["setup"]
         /\ Goto("setup", where) /\ where \in SetupSteps \cup StationSteps \cup SoftApSteps
              => pc' \in Places
         /\ Goto("worker", where) /\ where \in WorkerSteps \cup SoftApSteps => pc' \in Places
<1>. QED BY DEF Places, Goto

-----------------------------------------------------------------------------
(* What a change of the event queue means for the bit and the count. *)

\* Clearing bits, or making a link, leaves the promise of the bit as it is.
LEMMA KeepEffect ==
  ASSUME BitForetold, events' = events,
         "CONNECTED" \in bits' => "CONNECTED" \in bits,
         radio.link = "up" => radio'.link = "up"
  PROVE  BitForetold' /\ Count(events)' = Count(events)
<1>. QED BY DEF BitForetold, LastWord

\* A new event comes last: it says that the link is gone, or is up, or it is the start
\* of a station that has no link yet.
LEMMA PostEffect ==
  ASSUME BitForetold, events \in Seq(Event), NEW e \in Event, Posts(e),
         "CONNECTED" \in bits' => "CONNECTED" \in bits,
         \/ e.type = "DISCONNECTED"
         \/ radio'.link = "up"
         \/ e.type = "STA_START" /\ radio.link # "up"
  PROVE  /\ BitForetold' /\ events' \in Seq(Event) /\ events' # <<>>
         /\ Count(events)' = Count(events) + One(e.type # "GOT_IP")
<1>1. /\ Len(events) \in Nat /\ events' \in Seq(Event) /\ events' # <<>>
      /\ Len(events') = Len(events) + 1 /\ events'[Len(events) + 1] = e
      /\ \A i \in 1 .. Len(events) : events'[i] = events[i]
  BY AppendProperties, LenProperties DEF Posts
<1>2. Count(events)' = Count(events) + One(e.type # "GOT_IP")
  BY CountOfAppend DEF Posts
<1>3. \A i \in 0 .. Len(events) : LastWord(i)' => LastWord(i) /\ e.type # "DISCONNECTED"
  BY <1>1 DEF LastWord
<1>4. "CONNECTED" \in bits' /\ LastWord(0)' => radio'.link = "up"
  <2>1. 0 \in 0 .. Len(events)
    BY <1>1
  <2>. QED BY <1>3, <2>1 DEF BitForetold
<1>5. ASSUME NEW i \in 1 .. Len(events'), events'[i].type = "GOT_IP", LastWord(i)'
      PROVE  radio'.link = "up"
  <2>1. CASE i = Len(events) + 1
    BY <1>1, <1>5, <2>1
  <2>2. CASE i # Len(events) + 1
    <3>1. i \in 1 .. Len(events) /\ i \in 0 .. Len(events)
      BY <1>1, <2>2
    <3>. QED BY <1>1, <1>3, <1>5, <3>1 DEF BitForetold
  <2>. QED BY <2>1, <2>2
<1>. QED BY <1>1, <1>2, <1>4, <1>5 DEF BitForetold

\* Handling the first event moves what it says into the bit.
LEMMA TailEffect ==
  ASSUME BitForetold, events \in Seq(Event), events # <<>>, events' = Tail(events),
         radio.link = "up" => radio'.link = "up",
         "CONNECTED" \in bits' =>
           /\ Head(events).type # "DISCONNECTED"
           /\ "CONNECTED" \in bits \/ Head(events).type = "GOT_IP"
  PROVE  /\ BitForetold' /\ events' \in Seq(Event)
         /\ Count(events)' = Count(events) - One(Head(events).type # "GOT_IP")
<1>1. /\ Len(events) \in Nat \ {0} /\ events' \in Seq(Event)
      /\ Len(events') = Len(events) - 1 /\ Head(events) = events[1]
      /\ \A i \in 1 .. Len(events') : events'[i] = events[i + 1]
  BY HeadTailProperties, EmptySeq
<1>2. Count(events)' = Count(events) - One(Head(events).type # "GOT_IP")
  BY CountOfTail
<1>3. ASSUME NEW i \in 0 .. Len(events'), LastWord(i)' PROVE LastWord(i + 1)
  <2>1. ASSUME NEW j \in 1 .. Len(events), j > i + 1 PROVE events[j].type # "DISCONNECTED"
    <3>1. j - 1 \in 1 .. Len(events') /\ j - 1 > i /\ (j - 1) + 1 = j
      BY <1>1, <2>1
    <3>. QED BY <1>1, <1>3, <3>1 DEF LastWord
  <2>. QED BY <2>1 DEF LastWord
<1>4. "CONNECTED" \in bits' /\ LastWord(0)' => radio'.link = "up"
  <2>. SUFFICES ASSUME "CONNECTED" \in bits', LastWord(0)' PROVE radio'.link = "up"
    OBVIOUS
  <2>1. LastWord(1) /\ 1 \in 1 .. Len(events)
    <3>1. 0 \in 0 .. Len(events') /\ 0 + 1 = 1 /\ 1 \in 1 .. Len(events)
      BY <1>1
    <3>. QED BY <1>3, <3>1
  <2>2. LastWord(0)
    BY <1>1, <2>1 DEF LastWord
  <2>. QED BY <1>1, <2>1, <2>2 DEF BitForetold
<1>5. ASSUME NEW i \in 1 .. Len(events'), events'[i].type = "GOT_IP", LastWord(i)'
      PROVE  radio'.link = "up"
  <2>1. i \in 0 .. Len(events') /\ i + 1 \in 1 .. Len(events)
    BY <1>1
  <2>. QED BY <1>1, <1>3, <1>5, <2>1 DEF BitForetold
<1>. QED BY <1>1, <1>2, <1>4, <1>5 DEF BitForetold

\* An indicator counts.
LEMMA OneIsNatural ==
  /\ One(MayStart) \in Nat /\ One(MayStart') \in Nat
  /\ One(radio.link # "down") \in Nat /\ One(radio'.link # "down") \in Nat
  /\ One(pc["worker"] # "receive") \in Nat /\ One(pc'["worker"] # "receive") \in Nat
  /\ \A e \in Event : One(e.type # "GOT_IP") \in Nat
<1>. QED BY DEF One

\* The parts of the type invariant.
LEMMA Typed ==
  ASSUME TypeOK
  PROVE  /\ radio \in Radio /\ pc \in Places /\ events \in Seq(Event) /\ cmdq \in Seq(Command)
         /\ Len(cmdq) \in Nat /\ Count(events) \in Nat /\ reconfigs \in Nat
<1>1. events \in Seq(Event) /\ cmdq \in Seq(Command)
  BY DEF TypeOK
<1>2. Len(cmdq) \in Nat /\ Count(events) \in Nat
  BY <1>1, LenProperties, CountIsNatural
<1>3. radio \in Radio /\ pc \in Places
  BY DEF TypeOK, Radio, Places
<1>4. reconfigs \in Nat
  BY BoundAssumption DEF TypeOK
<1>. QED BY <1>1, <1>2, <1>3, <1>4

-----------------------------------------------------------------------------
(* The driver and the event loop keep the invariant. *)

\* What joining and losing a link have in common.
LEMMA DriverFrame ==
  ASSUME Core, DriverUnchanged, radio' \in Radio, SamePower, radio.link # "down",
         BitForetold', events' \in Seq(Event), failed' \in 0 .. RetryMax + 1,
         Count(events)' \in Nat,
         Count(events)' + One(radio'.link # "down") <= Count(events) + 1
  PROVE  Core'
<1>0. /\ TypeOK /\ LinkOfStation /\ Flagged /\ Stopped /\ SoftApMode /\ AttemptsBounded
      /\ radio \in Radio /\ pc \in Places /\ Len(cmdq) \in Nat /\ Count(events) \in Nat
      /\ reconfigs \in Nat
  BY Typed DEF Core
<1>1. UNCHANGED <<config, role, retry, bits, reconfiguring, cmdq, pc, panicked, reconfigs>>
  BY DEF DriverUnchanged, status
<1>2. TypeOK'
  BY <1>0, <1>1 DEF TypeOK, Radio
<1>3. LinkOfStation'
  BY <1>0 DEF LinkOfStation, SamePower
<1>4. Flagged' /\ Stopped' /\ SoftApMode'
  BY <1>0, <1>1 DEF Flagged, Fresh, Stopped, SoftApMode, SamePower
<1>5. AttemptsBounded'
  <2>. DEFINE m == One(MayStart)
              m1 == One(MayStart)'
              w == One(pc["worker"] # "receive")
              w1 == One(pc'["worker"] # "receive")
              l == One(radio.link # "down")
              l1 == One(radio'.link # "down")
              c == Count(events)
              c1 == Count(events)'
              q == Len(cmdq)
              q1 == Len(cmdq')
              v == UnderWay'
  <2>1. MayStart' <=> MayStart
    BY <1>1 DEF MayStart, SamePower
  <2>2. m \in Nat /\ m1 = m /\ w \in Nat /\ w1 = w /\ l = 1 /\ l1 \in Nat
    BY <1>1, <2>1 DEF One
  <2>3. c \in Nat /\ c1 \in Nat /\ c1 + l1 <= c + 1 /\ q \in Nat /\ q1 = q /\ reconfigs \in Nat
    BY <1>0, <1>1
  <2>4. UnderWay = m + l + c + q + w /\ v = m1 + l1 + c1 + q1 + w1
    BY DEF UnderWay
  <2>5. UnderWay <= 1 + reconfigs
    BY <1>0 DEF AttemptsBounded
  <2>. HIDE DEF m, m1, w, w1, l, l1, c, c1, q, q1, v
  <2>6. v <= 1 + reconfigs
    BY <2>2, <2>3, <2>4, <2>5
  <2>. QED BY <1>1, <2>6 DEF AttemptsBounded, v
<1>. QED BY <1>2, <1>3, <1>4, <1>5 DEF Core

\* A link that is made, or not made, or lost is reported.
LEMMA DriverStep ==
  ASSUME Core, Join \/ Loss
  PROVE  Core'
<1>0. /\ radio \in Radio /\ events \in Seq(Event) /\ BitForetold /\ Count(events) \in Nat
      /\ failed \in 0 .. RetryMax + 1
  BY Typed DEF Core, TypeOK
<1>1. DriverUnchanged /\ bits' = bits
  BY DEF Join, Loss, DriverUnchanged, status
<1>2. CASE JoinSucceeds
  <2>1. radio' \in Radio /\ SamePower /\ radio'.link = "up" /\ radio.link # "down"
    BY <1>0, <1>2 DEF JoinSucceeds, Radio, SamePower
  <2>2. Posts(GotIp)
    BY <1>2 DEF JoinSucceeds, Posts, GotIp
  <2>3. BitForetold' /\ events' \in Seq(Event) /\ Count(events)' = Count(events)
    BY <1>0, <1>1, <2>1, <2>2, EventTypes, PostEffect DEF One
  <2>4. failed' \in 0 .. RetryMax + 1
    BY <1>2, BoundAssumption DEF JoinSucceeds
  <2>. QED BY <1>0, <1>1, <2>1, <2>3, <2>4, DriverFrame DEF One
<1>3. CASE JoinFails \/ LinkLost
  <2>1. radio' \in Radio /\ SamePower /\ radio'.link = "down" /\ radio.link # "down"
    BY <1>0, <1>3 DEF JoinFails, LinkLost, Radio, SamePower
  <2>2. Posts(Lost(FALSE))
    BY <1>3 DEF JoinFails, LinkLost, Posts, Lost
  <2>3. BitForetold' /\ events' \in Seq(Event) /\ Count(events)' = Count(events) + 1
    BY <1>0, <1>1, <2>2, EventTypes, PostEffect DEF One
  <2>4. failed' \in 0 .. RetryMax + 1
    BY <1>0, <1>3, BoundAssumption DEF JoinFails, LinkLost
  <2>. QED BY <1>0, <1>1, <2>1, <2>3, <2>4, DriverFrame DEF One
<1>. QED BY <1>2, <1>3 DEF Join, Loss

\* A full queue drops the command.
LEMMA Posting ==
  ASSUME cmdq \in Seq(Command), Len(cmdq) <= QueueLen, NEW c \in Command, cmdq' = Posted(c)
  PROVE  /\ cmdq' \in Seq(Command) /\ Len(cmdq') <= QueueLen
         /\ Len(cmdq') \in {Len(cmdq), Len(cmdq) + 1}
<1>1. /\ Len(cmdq) \in Nat /\ Append(cmdq, c) \in Seq(Command)
      /\ Len(Append(cmdq, c)) = Len(cmdq) + 1
  BY AppendProperties, LenProperties
<1>. QED BY <1>1, BoundAssumption DEF Posted

\* The type of an event chooses its handler.
LEMMA Dispatch ==
  ASSUME EventLoop
  PROVE  /\ Head(events).type = "STA_START" => OnStaStart
         /\ Head(events).type = "DISCONNECTED" => OnDisconnected
         /\ Head(events).type = "GOT_IP" => OnGotIp
<1>. DEFINE head == Head(events)
<1>. HIDE DEF head
<1>1. CASE head.type = "STA_START" /\ TRUE
  BY <1>1 DEF EventLoop, head
<1>2. CASE head.type = "DISCONNECTED" /\ TRUE
  BY <1>2 DEF EventLoop, head
<1>3. CASE head.type = "GOT_IP" /\ TRUE
  BY <1>3 DEF EventLoop, head
<1>. QED BY <1>1, <1>2, <1>3 DEF head

\* Handling an event takes an attempt out of the queue of events and puts at most one
\* into the radio or into the queue of commands.
LEMMA EventStep ==
  ASSUME Core, EventLoop
  PROVE  Core'
<1>0. /\ TypeOK /\ LinkOfStation /\ BitForetold /\ Flagged /\ Stopped /\ SoftApMode
      /\ AttemptsBounded
      /\ radio \in Radio /\ pc \in Places /\ events \in Seq(Event) /\ cmdq \in Seq(Command)
      /\ Len(cmdq) \in Nat /\ Count(events) \in Nat /\ reconfigs \in Nat
  BY Typed DEF Core
<1>1. /\ events # <<>> /\ events' = Tail(events)
      /\ UNCHANGED <<config, reconfiguring, pc, panicked, reconfigs>>
  BY DEF EventLoop
<1>. DEFINE head == Head(events)
<1>2. head \in Event /\ head.type \in {"STA_START", "DISCONNECTED", "GOT_IP"}
  <2>1. head \in Event
    BY <1>0, <1>1, HeadTailProperties
  <2>. QED BY <2>1 DEF Event
<1>3. /\ head.type = "STA_START" => OnStaStart
      /\ head.type = "DISCONNECTED" => OnDisconnected
      /\ head.type = "GOT_IP" => OnGotIp
  BY Dispatch
<1>. HIDE DEF head
<1>4. Flagged /\ ~Fresh
  BY <1>0, <1>1 DEF Fresh
\* Each handler: what becomes of the radio, the bit, the commands and the attempts.
<1>5. /\ radio' \in Radio /\ SamePower /\ SameNet
      /\ radio.link = "up" => radio'.link = "up"
      /\ radio'.link # "down" => radio.link # "down" \/ (radio.mode = "STA" /\ radio.started)
      /\ role' \in {"NONE", "STA", "AP"} /\ retry' \in 0 .. RetryMax
      /\ bits' \subseteq {"CONNECTED", "FAIL"} /\ failed' = failed
      /\ "CONNECTED" \in bits' => /\ head.type # "DISCONNECTED"
                                  /\ "CONNECTED" \in bits \/ head.type = "GOT_IP"
      /\ cmdq' \in Seq(Command) /\ Len(cmdq') <= QueueLen /\ Len(cmdq') \in Nat
      /\ One(radio'.link # "down") + Len(cmdq')
           <= One(radio.link # "down") + Len(cmdq) + One(head.type # "GOT_IP")
  <2>0. /\ role \in {"NONE", "STA", "AP"} /\ retry \in 0 .. RetryMax
        /\ bits \subseteq {"CONNECTED", "FAIL"} /\ Len(cmdq) <= QueueLen
    BY <1>0 DEF TypeOK
  <2>1. CASE head.type = "STA_START"
    <3>1. OnStaStart /\ head.type # "GOT_IP" /\ head.type # "DISCONNECTED"
      BY <1>3, <2>1
    <3>2. /\ radio' \in Radio /\ SamePower /\ SameNet
          /\ radio'.link = IF radio.mode = "STA" /\ radio.started /\ radio.link = "down"
                           THEN "joining" ELSE radio.link
      BY <1>0, <3>1, ConnectCall DEF OnStaStart
    <3>3. UNCHANGED <<role, retry, bits, cmdq, failed>>
      BY <3>1 DEF OnStaStart, status
    <3>. QED BY <1>0, <2>0, <3>1, <3>2, <3>3 DEF One
  <2>2. CASE head.type = "DISCONNECTED"
    <3>1. OnDisconnected /\ head.type # "GOT_IP"
      BY <1>3, <2>2
    <3>2. UNCHANGED <<role, radio, failed>> /\ SamePower /\ SameNet
      BY <3>1 DEF OnDisconnected, SamePower, SameNet
    <3>3. "CONNECTED" \notin bits' /\ bits' \subseteq {"CONNECTED", "FAIL"}
      <4>1. bits' \in {bits \ {"CONNECTED"}, (bits \ {"CONNECTED"}) \cup {"FAIL"}}
        BY <3>1 DEF OnDisconnected
      <4>. QED BY <2>0, <4>1
    <3>4. retry' \in 0 .. RetryMax
      BY <2>0, <3>1, BoundAssumption DEF OnDisconnected, MayRetry
    <3>5. \/ cmdq' = cmdq
          \/ \E c \in Command : cmdq' = Posted(c)
      BY <3>1 DEF OnDisconnected, MayRetry, Command
    <3>6. /\ cmdq' \in Seq(Command) /\ Len(cmdq') <= QueueLen
          /\ Len(cmdq') \in {Len(cmdq), Len(cmdq) + 1}
      BY <1>0, <2>0, <3>5, Posting
    <3>. QED BY <1>0, <2>0, <3>1, <3>2, <3>3, <3>4, <3>6 DEF One
  <2>3. CASE head.type = "GOT_IP"
    <3>1. OnGotIp
      BY <1>3, <2>3
    <3>2. UNCHANGED <<cmdq, radio, failed>> /\ SamePower /\ SameNet /\ role' = "STA"
          /\ retry' = 0 /\ bits' = bits \cup {"CONNECTED"}
      BY <3>1 DEF OnGotIp, SamePower, SameNet
    <3>3. 0 \in 0 .. RetryMax
      BY BoundAssumption
    <3>. QED BY <1>0, <2>0, <2>3, <3>2, <3>3 DEF One
  <2>. QED BY <1>2, <2>1, <2>2, <2>3
<1>6. /\ BitForetold' /\ events' \in Seq(Event)
      /\ Count(events)' = Count(events) - One(head.type # "GOT_IP")
  BY <1>0, <1>1, <1>5, TailEffect DEF head
<1>7. Count(events)' \in Nat
  BY <1>6, CountIsNatural
<1>8. TypeOK'
  BY <1>0, <1>1, <1>5, <1>6 DEF TypeOK, Radio
<1>9. LinkOfStation'
  BY <1>0, <1>5 DEF LinkOfStation, SamePower
<1>10. Flagged' /\ Stopped' /\ SoftApMode'
  BY <1>0, <1>1, <1>4, <1>5 DEF Flagged, Stopped, SoftApMode, SamePower
<1>11. AttemptsBounded'
  <2>. DEFINE m == One(MayStart)
              w == One(pc["worker"] # "receive")
              l == One(radio.link # "down")
              l1 == One(radio'.link # "down")
              g == One(head.type # "GOT_IP")
              c == Count(events)
              c1 == Count(events)'
              q == Len(cmdq)
              q1 == Len(cmdq')
  <2>1. MayStart' <=> MayStart
    BY <1>1, <1>5 DEF MayStart, SamePower
  <2>2. UnderWay = m + l + c + q + w /\ UnderWay' = m + l1 + c1 + q1 + w
    BY <1>1, <2>1 DEF UnderWay, One
  <2>3. m \in Nat /\ w \in Nat /\ l \in Nat /\ l1 \in Nat /\ g \in Nat
    BY DEF One
  <2>4. c \in Nat /\ c1 = c - g /\ q \in Nat /\ q1 \in Nat /\ l1 + q1 <= l + q + g
    BY <1>0, <1>5, <1>6
  <2>5. UnderWay <= 1 + reconfigs /\ reconfigs \in Nat /\ reconfigs' = reconfigs
    BY <1>0, <1>1 DEF AttemptsBounded
  <2>. HIDE DEF m, w, l, l1, g, c, c1, q, q1
  <2>6. UnderWay' <= 1 + reconfigs
    BY <2>2, <2>3, <2>4, <2>5
  <2>. QED BY <2>5, <2>6 DEF AttemptsBounded
<1>. QED BY <1>6, <1>8, <1>9, <1>10, <1>11 DEF Core

-----------------------------------------------------------------------------
(* The worker keeps the invariant. *)

\* What every proof below starts from.
LEMMA CoreParts ==
  ASSUME Core
  PROVE  /\ TypeOK /\ LinkOfStation /\ BitForetold /\ Flagged /\ Stopped /\ SoftApMode
         /\ AttemptsBounded
         /\ radio \in Radio /\ pc \in Places /\ events \in Seq(Event) /\ cmdq \in Seq(Command)
         /\ Len(cmdq) \in Nat /\ Count(events) \in Nat /\ reconfigs \in Nat
<1>. QED BY Typed DEF Core

\* The worker's moves, when only its place, the role, the radio, the events, the commands
\* and "panicked" change, and no attempt is added.
LEMMA WorkerFrame ==
  ASSUME Core, UNCHANGED <<config, retry, bits, reconfiguring, reconfigs, failed>>,
         role' \in {role, "AP"}, panicked' \in BOOLEAN, pc' \in Places, pc'["setup"] = pc["setup"],
         radio' \in Radio, BitForetold', events' \in Seq(Event),
         cmdq' \in Seq(Command), Len(cmdq') <= QueueLen, Len(cmdq') \in Nat,
         Count(events)' \in Nat,
         LinkOfStation', Stopped', ~Fresh,
         radio'.mode \in {radio.mode, "AP"},
         MayStart' => MayStart,
         One(radio'.link # "down") + Count(events)' + Len(cmdq') + One(pc'["worker"] # "receive")
           <= One(radio.link # "down") + Count(events) + Len(cmdq) + One(pc["worker"] # "receive")
  PROVE  Core'
<1>0. /\ TypeOK /\ Flagged /\ SoftApMode /\ AttemptsBounded
      /\ Len(cmdq) \in Nat /\ Count(events) \in Nat /\ reconfigs \in Nat
  BY CoreParts
<1>1. TypeOK'
  BY <1>0 DEF TypeOK, Radio, Places
<1>2. Flagged'
  BY <1>0 DEF Flagged
<1>3. SoftApMode'
  BY <1>0 DEF SoftApMode
<1>4. AttemptsBounded'
  <2>. DEFINE m == One(MayStart)
              m1 == One(MayStart)'
              w == One(pc["worker"] # "receive")
              w1 == One(pc'["worker"] # "receive")
              l == One(radio.link # "down")
              l1 == One(radio'.link # "down")
              c == Count(events)
              c1 == Count(events)'
              q == Len(cmdq)
              q1 == Len(cmdq')
  <2>1. UnderWay = m + l + c + q + w /\ UnderWay' = m1 + l1 + c1 + q1 + w1
    BY DEF UnderWay
  <2>2. /\ m \in Nat /\ m1 \in Nat /\ w \in Nat /\ w1 \in Nat /\ l \in Nat /\ l1 \in Nat
        /\ m1 <= m
    BY DEF One
  <2>3. c \in Nat /\ c1 \in Nat /\ q \in Nat /\ q1 \in Nat /\ l1 + c1 + q1 + w1 <= l + c + q + w
    BY <1>0
  <2>4. UnderWay <= 1 + reconfigs /\ reconfigs \in Nat /\ reconfigs' = reconfigs
    BY <1>0 DEF AttemptsBounded
  <2>. HIDE DEF m, m1, w, w1, l, l1, c, c1, q, q1
  <2>5. UnderWay' <= 1 + reconfigs
    BY <2>1, <2>2, <2>3, <2>4
  <2>. QED BY <2>4, <2>5 DEF AttemptsBounded
<1>. QED BY <1>1, <1>2, <1>3, <1>4 DEF Core

\* The worker takes a command, or waits out its delay.
LEMMA WorkerWaits ==
  ASSUME Core, WorkerReceive \/ WorkerBackoff, UNCHANGED panicked
  PROVE  Core'
<1>0. /\ TypeOK /\ LinkOfStation /\ BitForetold /\ Flagged /\ Stopped
      /\ radio \in Radio /\ pc \in Places /\ events \in Seq(Event) /\ cmdq \in Seq(Command)
      /\ Len(cmdq) \in Nat /\ Count(events) \in Nat /\ panicked \in BOOLEAN
  BY CoreParts DEF TypeOK
<1>1. UNCHANGED <<config, status, reconfiguring, radio, events, reconfigs, failed>>
  BY DEF WorkerReceive, WorkerBackoff, status
<1>2. BitForetold' /\ LinkOfStation' /\ Count(events)' = Count(events)
  BY <1>0, <1>1, KeepEffect DEF LinkOfStation, status
<1>3. CASE WorkerReceive
  <2>1. pc["worker"] = "receive" /\ cmdq # <<>> /\ cmdq' = Tail(cmdq)
    BY <1>3 DEF WorkerReceive
  <2>2. /\ pc' \in Places /\ pc'["setup"] = pc["setup"]
        /\ reconfiguring => pc'["worker"] = "receive"
    BY <1>0, <1>3 DEF WorkerReceive, Goto, Places, WorkerSteps
  <2>3. cmdq' \in Seq(Command) /\ Len(cmdq') = Len(cmdq) - 1 /\ Len(cmdq) # 0
    BY <1>0, <2>1, HeadTailProperties, EmptySeq
  <2>4. ~Fresh /\ Stopped'
    BY <1>0, <1>1, <2>1, <2>2 DEF Fresh, Flagged, Stopped
  <2>5. MayStart' => MayStart
    BY <1>1, <2>2 DEF MayStart
  <2>6. Len(cmdq') <= QueueLen /\ Len(cmdq') \in Nat
    BY <1>0, <2>3, BoundAssumption DEF TypeOK
  <2>7. One(radio'.link # "down") + Count(events)' + Len(cmdq') + One(pc'["worker"] # "receive")
          <= One(radio.link # "down") + Count(events) + Len(cmdq) + One(pc["worker"] # "receive")
    BY <1>0, <1>1, <1>2, <2>1, <2>3 DEF One
  <2>. QED BY <1>0, <1>1, <1>2, <2>2, <2>3, <2>4, <2>5, <2>6, <2>7, WorkerFrame DEF status
<1>4. CASE WorkerBackoff
  <2>1. pc["worker"] = "backoff" /\ cmdq' = cmdq
    BY <1>4 DEF WorkerBackoff
  <2>2. pc' \in Places /\ pc'["setup"] = pc["setup"]
    BY <1>0, <1>4 DEF WorkerBackoff, Goto, Places, WorkerSteps
  <2>3. ~Fresh /\ Stopped'
    BY <1>0, <1>1, <2>1, <2>2 DEF Fresh, Stopped
  <2>4. MayStart' => MayStart
    BY <1>1, <2>2 DEF MayStart
  <2>5. One(radio'.link # "down") + Count(events)' + Len(cmdq') + One(pc'["worker"] # "receive")
          <= One(radio.link # "down") + Count(events) + Len(cmdq) + One(pc["worker"] # "receive")
    BY <1>0, <1>1, <1>2, <2>1 DEF One
  <2>6. Len(cmdq) <= QueueLen
    BY <1>0 DEF TypeOK
  <2>. QED BY <1>0, <1>1, <1>2, <2>1, <2>2, <2>3, <2>4, <2>5, <2>6, WorkerFrame DEF status
<1>. QED BY <1>3, <1>4

\* It connects, or stops the radio to fall back.
LEMMA WorkerActs ==
  ASSUME Core, WorkerConnect \/ WorkerFallback, UNCHANGED panicked
  PROVE  Core'
<1>0. /\ TypeOK /\ LinkOfStation /\ BitForetold /\ Stopped
      /\ radio \in Radio /\ pc \in Places /\ events \in Seq(Event) /\ cmdq \in Seq(Command)
      /\ Len(cmdq) \in Nat /\ Count(events) \in Nat /\ panicked \in BOOLEAN
      /\ Len(cmdq) <= QueueLen
  BY CoreParts DEF TypeOK
<1>1. /\ UNCHANGED <<config, status, reconfiguring, cmdq, reconfigs, failed>> /\ bits' = bits
      /\ pc["worker"] \in {"connect", "fallback"}
  BY DEF WorkerConnect, WorkerFallback, status
<1>2. ~Fresh
  BY <1>1 DEF Fresh
<1>3. CASE WorkerConnect
  <2>1. /\ radio' \in Radio /\ SamePower /\ events' = events
        /\ radio'.link = IF radio.mode = "STA" /\ radio.started /\ radio.link = "down"
                         THEN "joining" ELSE radio.link
    BY <1>0, <1>3, ConnectCall DEF WorkerConnect
  <2>2. pc' \in Places /\ pc'["setup"] = pc["setup"] /\ pc'["worker"] = "receive"
    BY <1>0, <1>3 DEF WorkerConnect, Goto, Places, WorkerSteps
  <2>3. BitForetold' /\ Count(events)' = Count(events)
    BY <1>0, <1>1, <2>1, KeepEffect
  <2>4. LinkOfStation' /\ Stopped' /\ (MayStart' => MayStart)
    BY <1>0, <2>1, <2>2 DEF LinkOfStation, Stopped, MayStart, SamePower
  <2>5. One(radio'.link # "down") + Count(events)' + Len(cmdq') + One(pc'["worker"] # "receive")
          <= One(radio.link # "down") + Count(events) + Len(cmdq) + One(pc["worker"] # "receive")
    BY <1>0, <1>1, <2>1, <2>2, <2>3 DEF One
  <2>. QED BY <1>0, <1>1, <1>2, <2>1, <2>2, <2>3, <2>4, <2>5, WorkerFrame DEF SamePower, status
<1>4. CASE WorkerFallback
  <2>1. /\ radio' \in Radio /\ radio'.mode = radio.mode /\ ~radio'.started
        /\ radio'.link = "down"
        /\ IF radio.link = "down" THEN events' = events ELSE Posts(Lost(TRUE))
    BY <1>0, <1>4, StopCall DEF WorkerFallback
  <2>2. pc' \in Places /\ pc'["setup"] = pc["setup"] /\ pc'["worker"] = "ap_role"
    BY <1>0, <1>4 DEF WorkerFallback, Goto, Places, WorkerSteps, SoftApSteps
  <2>3. /\ BitForetold' /\ events' \in Seq(Event)
        /\ Count(events)' = IF radio.link = "down" THEN Count(events) ELSE Count(events) + 1
    <3>1. CASE radio.link = "down"
      BY <1>0, <1>1, <2>1, <3>1, KeepEffect
    <3>2. CASE radio.link # "down"
      BY <1>0, <1>1, <2>1, <3>2, EventTypes, PostEffect DEF One
    <3>. QED BY <3>1, <3>2
  <2>4. LinkOfStation' /\ Stopped'
    BY <2>1 DEF LinkOfStation, Stopped
  <2>5. MayStart' => MayStart
    BY <1>0, <1>1, <2>2 DEF MayStart, Stopped, BringingUp, StationSteps
  <2>6. One(radio'.link # "down") + Count(events)' + Len(cmdq') + One(pc'["worker"] # "receive")
          <= One(radio.link # "down") + Count(events) + Len(cmdq) + One(pc["worker"] # "receive")
    BY <1>0, <1>1, <2>1, <2>3 DEF One
  <2>7. Count(events)' \in Nat
    BY <1>0, <2>3
  <2>. QED BY <1>0, <1>1, <1>2, <2>1, <2>2, <2>3, <2>4, <2>5, <2>6, <2>7, WorkerFrame DEF status
<1>. QED BY <1>3, <1>4

\* It brings up the soft-AP.
LEMMA WorkerBringsUp ==
  ASSUME Core, BringUp("worker")
  PROVE  Core'
<1>0. /\ TypeOK /\ LinkOfStation /\ BitForetold /\ Stopped
      /\ radio \in Radio /\ pc \in Places /\ events \in Seq(Event) /\ cmdq \in Seq(Command)
      /\ Len(cmdq) \in Nat /\ Count(events) \in Nat /\ panicked \in BOOLEAN
      /\ Len(cmdq) <= QueueLen
  BY CoreParts DEF TypeOK
<1>1. pc["worker"] \notin StationSteps
  BY <1>0 DEF Places, WorkerSteps, SoftApSteps, StationSteps
<1>2. \/ SoftApRole("worker")
      \/ SetMode("worker", "ap_mode", "AP", "ap_config")
      \/ SetInterface("worker", "ap_config", "AP", "ap_start")
      \/ StartRadio("worker", "ap_start")
  BY <1>1 DEF BringUp, StationRole, SetMode, SetInterface, StartRadio, StationSteps
<1>3. /\ UNCHANGED <<config, retry, bits, reconfiguring, cmdq, reconfigs, failed>>
      /\ pc["worker"] \in SoftApSteps /\ role' \in {role, "AP"}
  BY <1>2 DEF SoftApRole, SetMode, SetInterface, StartRadio, status, SoftApSteps
<1>4. ~Fresh
  BY <1>3 DEF Fresh, SoftApSteps
<1>5. CASE SoftApRole("worker") \/ SetInterface("worker", "ap_config", "AP", "ap_start")
  <2>1. radio' = radio /\ events' = events /\ panicked' \in BOOLEAN
    BY <1>0, <1>5 DEF SoftApRole, SetInterface, ConfigAccepted
  <2>2. pc' \in Places /\ pc'["setup"] = pc["setup"]
    BY <1>0, <1>5 DEF SoftApRole, SetInterface, Goto, Places, SoftApSteps
  <2>3. BitForetold' /\ Count(events)' = Count(events)
    BY <1>0, <1>3, <2>1, KeepEffect
  <2>4. LinkOfStation' /\ Stopped' /\ (MayStart' => MayStart)
    BY <1>0, <1>3, <2>1, <2>2 DEF LinkOfStation, Stopped, MayStart, SoftApSteps
  <2>5. One(radio'.link # "down") + Count(events)' + Len(cmdq') + One(pc'["worker"] # "receive")
          <= One(radio.link # "down") + Count(events) + Len(cmdq) + One(pc["worker"] # "receive")
    BY <1>0, <1>3, <2>1, <2>3 DEF One, SoftApSteps
  <2>. QED BY <1>0, <1>3, <1>4, <2>1, <2>2, <2>3, <2>4, <2>5, WorkerFrame
<1>6. CASE SetMode("worker", "ap_mode", "AP", "ap_config")
  <2>1. esp_wifi_set_mode("AP") /\ panicked' = panicked
    BY <1>6 DEF SetMode
  <2>2. /\ radio' \in Radio /\ radio'.mode = "AP" /\ radio'.started = radio.started
        /\ IF radio.mode = "AP" THEN radio' = radio /\ events' = events
           ELSE /\ radio'.link = "down"
                /\ IF radio.link = "down" THEN events' = events ELSE Posts(Lost(TRUE))
    BY <1>0, <2>1, SetModeCall
  <2>3. pc' \in Places /\ pc'["setup"] = pc["setup"]
    BY <1>0, <1>6 DEF SetMode, Goto, Places, SoftApSteps
  <2>4. radio.mode = "AP" => radio.link = "down"
    BY <1>0 DEF LinkOfStation
  <2>5. /\ radio'.link = "down" /\ BitForetold' /\ events' \in Seq(Event)
        /\ Count(events)' = IF radio.link = "down" THEN Count(events) ELSE Count(events) + 1
    <3>1. CASE radio.link = "down"
      BY <1>0, <1>3, <2>2, <2>4, <3>1, KeepEffect
    <3>2. CASE radio.link # "down"
      BY <1>0, <1>3, <2>2, <2>4, <3>2, EventTypes, PostEffect DEF One
    <3>. QED BY <3>1, <3>2
  <2>6. LinkOfStation' /\ Stopped' /\ (MayStart' => MayStart)
    BY <1>0, <1>3, <2>2, <2>3, <2>5 DEF LinkOfStation, Stopped, MayStart, SoftApSteps
  <2>7. One(radio'.link # "down") + Count(events)' + Len(cmdq') + One(pc'["worker"] # "receive")
          <= One(radio.link # "down") + Count(events) + Len(cmdq) + One(pc["worker"] # "receive")
    BY <1>0, <1>3, <2>5 DEF One, SoftApSteps
  <2>8. Count(events)' \in Nat
    BY <1>0, <2>5
  <2>. QED BY <1>0, <1>3, <1>4, <2>1, <2>2, <2>3, <2>5, <2>6, <2>7, <2>8, WorkerFrame
<1>7. CASE StartRadio("worker", "ap_start")
  <2>1. esp_wifi_start /\ panicked' = panicked
    BY <1>7 DEF StartRadio
  <2>2. /\ radio' \in Radio /\ radio'.mode = radio.mode /\ radio'.started
        /\ radio'.link = radio.link
        /\ IF radio.mode = "STA" /\ ~radio.started THEN Posts(StaStart) ELSE events' = events
    BY <1>0, <2>1, StartCall
  <2>3. pc' \in Places /\ pc'["setup"] = pc["setup"] /\ pc'["worker"] = "receive"
    BY <1>0, <1>7 DEF StartRadio, AfterBringUp, Goto, Places, WorkerSteps
  <2>4. /\ BitForetold' /\ events' \in Seq(Event)
        /\ Count(events)' \in {Count(events), Count(events) + 1}
    <3>1. CASE radio.mode = "STA" /\ ~radio.started
      <4>1. radio.link # "up"
        BY <1>0, <3>1 DEF LinkOfStation
      <4>. QED BY <1>0, <1>3, <2>2, <3>1, <4>1, EventTypes, PostEffect DEF One
    <3>2. CASE ~(radio.mode = "STA" /\ ~radio.started)
      BY <1>0, <1>3, <2>2, <3>2, KeepEffect
    <3>. QED BY <3>1, <3>2
  <2>5. LinkOfStation' /\ Stopped' /\ (MayStart' => MayStart)
    BY <1>0, <2>2, <2>3 DEF LinkOfStation, Stopped, MayStart
  <2>6. One(radio'.link # "down") + Count(events)' + Len(cmdq') + One(pc'["worker"] # "receive")
          <= One(radio.link # "down") + Count(events) + Len(cmdq) + One(pc["worker"] # "receive")
    BY <1>0, <1>3, <2>2, <2>3, <2>4 DEF One, SoftApSteps
  <2>7. Count(events)' \in Nat
    BY <1>0, <2>4
  <2>. QED BY <1>0, <1>3, <1>4, <2>1, <2>2, <2>3, <2>4, <2>5, <2>6, <2>7, WorkerFrame
<1>. QED BY <1>2, <1>5, <1>6, <1>7

-----------------------------------------------------------------------------
(* "setup" keeps the invariant. *)

\* A reconfiguration pays for one more attempt.
LEMMA SetupFrame ==
  ASSUME Core, TypeOK', LinkOfStation', BitForetold', Flagged', Stopped', SoftApMode',
         cmdq' = cmdq, pc'["worker"] = pc["worker"], reconfigs' \in {reconfigs, reconfigs + 1},
         Count(events)' \in Nat,
         One(MayStart)' + One(radio'.link # "down") + Count(events)' + reconfigs
           <= One(MayStart) + One(radio.link # "down") + Count(events) + reconfigs'
  PROVE  Core'
<1>0. AttemptsBounded /\ Len(cmdq) \in Nat /\ Count(events) \in Nat /\ reconfigs \in Nat
  BY CoreParts
<1>. DEFINE m == One(MayStart)
            m1 == One(MayStart)'
            w == One(pc["worker"] # "receive")
            l == One(radio.link # "down")
            l1 == One(radio'.link # "down")
            c == Count(events)
            c1 == Count(events)'
            q == Len(cmdq)
            r == reconfigs
            r1 == reconfigs'
<1>1. UnderWay = m + l + c + q + w /\ UnderWay' = m1 + l1 + c1 + q + w
  BY DEF UnderWay
<1>2. m \in Nat /\ m1 \in Nat /\ w \in Nat /\ l \in Nat /\ l1 \in Nat
  BY DEF One
<1>3. /\ c \in Nat /\ c1 \in Nat /\ q \in Nat /\ r \in Nat /\ r1 \in Nat
      /\ m1 + l1 + c1 + r <= m + l + c + r1
  BY <1>0
<1>4. UnderWay <= 1 + r
  BY <1>0 DEF AttemptsBounded
<1>. HIDE DEF m, m1, w, l, l1, c, c1, q, r, r1
<1>5. UnderWay' <= 1 + r1
  BY <1>1, <1>2, <1>3, <1>4
<1>6. AttemptsBounded'
  BY <1>5 DEF AttemptsBounded, r1
<1>. QED BY <1>6 DEF Core

\* The steps that leave the driver alone.
LEMMA SetupKeepsRadio ==
  ASSUME Core,
         \/ (Boot \/ RaiseFlag \/ ClearBits \/ LowerFlag \/ Reconfigure) /\ panicked' = panicked
         \/ StationRole("setup") \/ SoftApRole("setup")
  PROVE  Core'
<1>0. /\ TypeOK /\ LinkOfStation /\ BitForetold /\ Flagged /\ Stopped /\ SoftApMode
      /\ radio \in Radio /\ pc \in Places /\ events \in Seq(Event)
      /\ Count(events) \in Nat /\ reconfigs \in Nat
  BY CoreParts
<1>1. UNCHANGED <<cmdq, radio, events, panicked>> /\ bits' \in {bits, {}}
  BY DEF Boot, RaiseFlag, ClearBits, LowerFlag, Reconfigure, StationRole, SoftApRole, status
<1>2. /\ pc' \in Places /\ pc'["worker"] = pc["worker"]
      /\ \/ pc["setup"] \in {"boot", "clear"} /\ pc'["setup"] \in {"sta_role", "ap_role"}
         \/ pc["setup"] = "sta_role" /\ pc'["setup"] = "sta_mode"
         \/ pc["setup"] = "ap_role" /\ pc'["setup"] = "ap_mode"
         \/ pc["setup"] = "flag" /\ pc'["setup"] = "disconnect"
         \/ pc["setup"] = "unflag" /\ pc'["setup"] = "idle"
         \/ pc["setup"] = "idle" /\ pc'["setup"] = "flag"
      /\ pc["setup"] = "unflag" <=> LowerFlag
      /\ pc["setup"] = "flag" <=> RaiseFlag
      /\ pc["setup"] = "idle" <=> Reconfigure
  BY <1>0 DEF Boot, RaiseFlag, ClearBits, LowerFlag, Reconfigure, StationRole, SoftApRole,
     Configured, Goto, Places, SetupSteps, StationSteps, SoftApSteps
<1>3. /\ pc["setup"] = "flag" => reconfiguring' = TRUE
      /\ pc["setup"] \notin {"flag", "unflag"} => reconfiguring' = reconfiguring
      /\ IF pc["setup"] = "idle" THEN reconfigs' = reconfigs + 1 ELSE reconfigs' = reconfigs
  BY <1>2 DEF Boot, RaiseFlag, ClearBits, LowerFlag, Reconfigure, StationRole, SoftApRole
<1>4. BitForetold' /\ Count(events)' = Count(events)
  BY <1>0, <1>1, KeepEffect
<1>5. TypeOK'
  <2>1. /\ config' \in Network \cup {NoNetwork} /\ role' \in {"NONE", "STA", "AP"}
        /\ retry' \in {0, retry} /\ reconfiguring' \in BOOLEAN /\ failed' \in {0, failed}
    BY <1>0 DEF TypeOK, Boot, RaiseFlag, ClearBits, LowerFlag, Reconfigure, StationRole,
       SoftApRole, status
  <2>2. retry' \in 0 .. RetryMax /\ failed' \in 0 .. RetryMax + 1
    BY <1>0, <2>1, BoundAssumption DEF TypeOK
  <2>3. reconfigs' \in 0 .. MaxReconfigs
    <3>1. pc["setup"] = "idle" => reconfigs < MaxReconfigs
      BY <1>2 DEF Reconfigure
    <3>. QED BY <1>0, <1>3, <3>1, BoundAssumption DEF TypeOK
  <2>4. bits' \subseteq {"CONNECTED", "FAIL"}
    BY <1>0, <1>1 DEF TypeOK
  <2>. QED BY <1>0, <1>1, <1>2, <2>1, <2>2, <2>3, <2>4 DEF TypeOK, Places
<1>6. LinkOfStation' /\ SoftApMode'
  BY <1>0, <1>1, <1>2 DEF LinkOfStation, SoftApMode
<1>7. Flagged' /\ Stopped'
  BY <1>0, <1>1, <1>2, <1>3 DEF Flagged, Stopped, Fresh, BringingUp, StationSteps, SoftApSteps
<1>8. One(MayStart)' + One(radio'.link # "down") + Count(events)' + reconfigs
        <= One(MayStart) + One(radio.link # "down") + Count(events) + reconfigs'
  <2>1. MayStart' => MayStart \/ pc["setup"] = "idle"
    BY <1>1, <1>2 DEF MayStart
  <2>. QED BY <1>0, <1>1, <1>3, <1>4, <2>1 DEF One
<1>. QED BY <1>0, <1>1, <1>2, <1>3, <1>4, <1>5, <1>6, <1>7, <1>8, SetupFrame

\* The calls that take the radio down.
LEMMA SetupTakesDown ==
  ASSUME Core, Disconnect \/ Stop, UNCHANGED panicked
  PROVE  Core'
<1>0. /\ TypeOK /\ LinkOfStation /\ BitForetold /\ Flagged /\ Stopped
      /\ radio \in Radio /\ pc \in Places /\ events \in Seq(Event)
      /\ Count(events) \in Nat /\ reconfigs \in Nat
  BY CoreParts
<1>1. UNCHANGED <<config, role, retry, bits, reconfiguring, cmdq, reconfigs, failed>>
  BY DEF Disconnect, Stop, status
<1>2. /\ radio' \in Radio /\ radio'.mode = radio.mode /\ radio'.link = "down"
      /\ radio'.started => radio.started
      /\ Stop => ~radio'.started
      /\ IF radio.link = "down" THEN events' = events ELSE Posts(Lost(TRUE))
  <2>1. CASE Disconnect
    <3>1. pc["setup"] = "disconnect" /\ ~Stop
      BY <2>1 DEF Disconnect, Stop
    <3>. QED BY <1>0, <2>1, <3>1, DisconnectCall DEF Disconnect, SamePower
  <2>2. CASE Stop
    BY <1>0, <2>2, StopCall DEF Stop
  <2>. QED BY <2>1, <2>2
<1>3. /\ pc' \in Places /\ pc'["worker"] = pc["worker"]
      /\ pc["setup"] \in {"disconnect", "stop"}
      /\ pc'["setup"] = IF Stop THEN "clear" ELSE "stop"
  <2>1. CASE Disconnect
    <3>1. pc["setup"] = "disconnect" /\ ~Stop
      BY <2>1 DEF Disconnect, Stop
    <3>. QED BY <1>0, <2>1, <3>1 DEF Disconnect, Goto, Places, SetupSteps
  <2>2. CASE Stop
    BY <1>0, <2>2 DEF Stop, Goto, Places, SetupSteps
  <2>. QED BY <2>1, <2>2
<1>4. /\ BitForetold' /\ events' \in Seq(Event)
      /\ Count(events)' = IF radio.link = "down" THEN Count(events) ELSE Count(events) + 1
  <2>1. CASE radio.link = "down"
    BY <1>0, <1>1, <1>2, <2>1, KeepEffect
  <2>2. CASE radio.link # "down"
    BY <1>0, <1>1, <1>2, <2>2, EventTypes, PostEffect DEF One
  <2>. QED BY <2>1, <2>2
<1>5. TypeOK'
  BY <1>0, <1>1, <1>2, <1>3, <1>4 DEF TypeOK, Places, Radio
<1>6. LinkOfStation' /\ SoftApMode'
  BY <1>2, <1>3 DEF LinkOfStation, SoftApMode
<1>7. Flagged' /\ Stopped'
  BY <1>0, <1>1, <1>2, <1>3 DEF Flagged, Stopped, BringingUp, StationSteps, SoftApSteps
<1>8. One(MayStart)' + One(radio'.link # "down") + Count(events)' + reconfigs
        <= One(MayStart) + One(radio.link # "down") + Count(events) + reconfigs'
  <2>1. MayStart
    BY <1>3 DEF MayStart
  <2>. QED BY <1>0, <1>1, <1>2, <1>4, <2>1 DEF One
<1>9. Count(events)' \in Nat
  BY <1>0, <1>4
<1>. QED BY <1>1, <1>3, <1>4, <1>5, <1>6, <1>7, <1>8, <1>9, SetupFrame

\* The calls that bring it up again.
LEMMA SetupModes ==
  ASSUME Core,
         \/ SetMode("setup", "sta_mode", "STA", "sta_config")
         \/ SetMode("setup", "ap_mode", "AP", "ap_config")
  PROVE  Core'
<1>0. /\ TypeOK /\ LinkOfStation /\ BitForetold /\ Flagged /\ Stopped
      /\ radio \in Radio /\ pc \in Places /\ events \in Seq(Event)
      /\ Count(events) \in Nat /\ reconfigs \in Nat
  BY CoreParts
<1>1. UNCHANGED <<config, role, retry, bits, reconfiguring, cmdq, panicked, reconfigs, failed>>
  BY DEF SetMode, status
<1>. DEFINE m == IF pc["setup"] = "sta_mode" THEN "STA" ELSE "AP"
<1>2. /\ m \in {"STA", "AP"} /\ esp_wifi_set_mode(m)
      /\ pc["setup"] \in {"sta_mode", "ap_mode"}
      /\ pc' \in Places /\ pc'["worker"] = pc["worker"]
      /\ pc'["setup"] = IF m = "STA" THEN "sta_config" ELSE "ap_config"
  BY <1>0 DEF SetMode, Goto, Places, StationSteps, SoftApSteps
<1>. HIDE DEF m
<1>3. /\ radio' \in Radio /\ radio'.mode = m /\ radio'.started = radio.started
      /\ IF radio.mode = m THEN radio' = radio /\ events' = events
         ELSE /\ radio'.link = "down"
              /\ IF m = "STA"
                 THEN /\ radio.link = "down"
                      /\ IF radio.started THEN Posts(StaStart) ELSE events' = events
                 ELSE IF radio.link = "down" THEN events' = events ELSE Posts(Lost(TRUE))
  BY <1>0, <1>2, SetModeCall
<1>4. CASE events' = events
  <2>1. radio'.link = radio.link
    <3>1. radio.mode # m /\ m = "AP" => radio.link = "down"
      <4>. SUFFICES ASSUME radio.mode # m, m = "AP", radio.link # "down" PROVE FALSE
        OBVIOUS
      <4>1. Posts(Lost(TRUE))
        BY <1>3
      <4>2. Len(Append(events, Lost(TRUE))) = Len(events) + 1 /\ Len(events) \in Nat
        BY <1>0, EventTypes, AppendProperties, LenProperties
      <4>. QED BY <1>4, <4>1, <4>2 DEF Posts
    <3>. QED BY <1>2, <1>3, <3>1
  <2>2. BitForetold' /\ Count(events)' = Count(events)
    BY <1>0, <1>1, <1>4, <2>1, KeepEffect
  <2>3. TypeOK'
    BY <1>0, <1>1, <1>2, <1>3, <1>4 DEF TypeOK, Places, Radio
  <2>4. LinkOfStation' /\ SoftApMode'
    <3>1. radio.mode # m => radio'.link = "down"
      BY <1>3
    <3>. QED BY <1>0, <1>2, <1>3, <3>1 DEF LinkOfStation, SoftApMode
  <2>5. Flagged' /\ Stopped'
    BY <1>0, <1>1, <1>2, <1>3, <1>4, <2>1
    DEF Flagged, Stopped, Fresh, BringingUp, StationSteps, SoftApSteps
  <2>6. One(MayStart)' + One(radio'.link # "down") + Count(events)' + reconfigs
          <= One(MayStart) + One(radio.link # "down") + Count(events) + reconfigs'
    <3>1. MayStart
      BY <1>2 DEF MayStart
    <3>. QED BY <1>0, <1>1, <2>1, <2>2, <3>1 DEF One
  <2>. QED BY <1>0, <1>1, <1>2, <2>2, <2>3, <2>4, <2>5, <2>6, SetupFrame
<1>5. CASE events' # events
  <2>1. /\ radio.mode # m /\ radio'.link = "down"
        /\ \/ m = "STA" /\ radio.started /\ radio.link = "down" /\ Posts(StaStart)
           \/ m = "AP" /\ radio.link # "down" /\ Posts(Lost(TRUE))
    BY <1>2, <1>3, <1>5
  <2>2. BitForetold' /\ events' \in Seq(Event) /\ Count(events)' = Count(events) + 1
    BY <1>0, <1>1, <2>1, EventTypes, PostEffect DEF One
  <2>3. TypeOK'
    BY <1>0, <1>1, <1>2, <1>3, <2>2 DEF TypeOK, Places, Radio
  <2>4. LinkOfStation' /\ SoftApMode'
    BY <1>2, <1>3, <2>1 DEF LinkOfStation, SoftApMode
  <2>5. ~Fresh
    BY <1>0, <2>1 DEF Fresh
  <2>6. Flagged' /\ Stopped'
    BY <1>0, <1>1, <1>2, <1>3, <2>5 DEF Flagged, Stopped, BringingUp, StationSteps, SoftApSteps
  <2>7. One(MayStart)' + One(radio'.link # "down") + Count(events)' + reconfigs
          <= One(MayStart) + One(radio.link # "down") + Count(events) + reconfigs'
    <3>1. MayStart /\ (radio.link = "down" => ~MayStart')
      BY <1>2, <1>3, <2>1 DEF MayStart
    <3>. QED BY <1>0, <1>1, <2>1, <2>2, <3>1 DEF One
  <2>8. Count(events)' \in Nat
    BY <1>0, <2>2
  <2>. QED BY <1>1, <1>2, <2>2, <2>3, <2>4, <2>6, <2>7, <2>8, SetupFrame
<1>. QED BY <1>4, <1>5

\* The interface is configured.
LEMMA SetupInterfaces ==
  ASSUME Core,
         \/ SetInterface("setup", "sta_config", "STA", "sta_start")
         \/ SetInterface("setup", "ap_config", "AP", "ap_start")
  PROVE  Core'
<1>0. /\ TypeOK /\ LinkOfStation /\ BitForetold /\ Flagged /\ Stopped /\ SoftApMode
      /\ radio \in Radio /\ pc \in Places /\ events \in Seq(Event)
      /\ Count(events) \in Nat /\ reconfigs \in Nat
  BY CoreParts
<1>1. UNCHANGED <<config, role, retry, bits, reconfiguring, cmdq, events, reconfigs, failed>>
  BY DEF SetInterface, status
<1>2. radio' \in Radio /\ SamePower /\ radio'.link = radio.link /\ panicked' \in BOOLEAN
  <2>1. /\ \/ radio' = radio
           \/ \E n \in Network \cup {NoNetwork} : radio' = [radio EXCEPT !.net = n]
        /\ panicked' \in BOOLEAN
    BY <1>0 DEF SetInterface, TypeOK
  <2>. QED BY <1>0, <2>1 DEF Radio, SamePower
<1>3. /\ pc' \in Places /\ pc'["worker"] = pc["worker"]
      /\ \/ pc["setup"] = "sta_config" /\ pc'["setup"] = "sta_start"
         \/ pc["setup"] = "ap_config" /\ pc'["setup"] = "ap_start"
  BY <1>0 DEF SetInterface, Goto, Places, StationSteps, SoftApSteps
<1>4. BitForetold' /\ Count(events)' = Count(events)
  BY <1>0, <1>1, <1>2, KeepEffect
<1>5. TypeOK'
  BY <1>0, <1>1, <1>2, <1>3 DEF TypeOK, Places, Radio
<1>6. LinkOfStation' /\ SoftApMode'
  BY <1>0, <1>2, <1>3 DEF LinkOfStation, SoftApMode, SamePower
<1>7. Flagged' /\ Stopped'
  BY <1>0, <1>1, <1>2, <1>3
  DEF Flagged, Stopped, Fresh, BringingUp, StationSteps, SoftApSteps, SamePower
<1>8. One(MayStart)' + One(radio'.link # "down") + Count(events)' + reconfigs
        <= One(MayStart) + One(radio.link # "down") + Count(events) + reconfigs'
  <2>1. MayStart' => MayStart
    BY <1>2, <1>3 DEF MayStart, SamePower
  <2>. QED BY <1>0, <1>1, <1>2, <1>4, <2>1 DEF One
<1>. QED BY <1>0, <1>1, <1>3, <1>4, <1>5, <1>6, <1>7, <1>8, SetupFrame

\* The radio is started.
LEMMA SetupStarts ==
  ASSUME Core, StartRadio("setup", "sta_start") \/ StartRadio("setup", "ap_start")
  PROVE  Core'
<1>0. /\ TypeOK /\ LinkOfStation /\ BitForetold /\ SoftApMode
      /\ radio \in Radio /\ pc \in Places /\ events \in Seq(Event)
      /\ Count(events) \in Nat /\ reconfigs \in Nat
  BY CoreParts
<1>1. UNCHANGED <<config, role, retry, bits, reconfiguring, cmdq, panicked, reconfigs, failed>>
  BY DEF StartRadio, status
<1>2. /\ radio' \in Radio /\ radio'.mode = radio.mode /\ radio'.started
      /\ radio'.link = radio.link
      /\ IF radio.mode = "STA" /\ ~radio.started THEN Posts(StaStart) ELSE events' = events
  BY <1>0, StartCall DEF StartRadio
<1>3. /\ pc' \in Places /\ pc'["worker"] = pc["worker"]
      /\ pc["setup"] \in {"sta_start", "ap_start"}
      /\ pc'["setup"] = IF reconfiguring THEN "unflag" ELSE "idle"
  BY <1>0 DEF StartRadio, AfterBringUp, Goto, Places, SetupSteps
<1>4. TypeOK' /\ BitForetold' /\ Count(events)' \in Nat
      /\ Count(events)' = IF radio.mode = "STA" /\ ~radio.started
                          THEN Count(events) + 1 ELSE Count(events)
  <2>1. CASE radio.mode = "STA" /\ ~radio.started
    <3>1. radio.link # "up"
      BY <1>0, <2>1 DEF LinkOfStation
    <3>2. BitForetold' /\ events' \in Seq(Event) /\ Count(events)' = Count(events) + 1
      BY <1>0, <1>1, <1>2, <2>1, <3>1, EventTypes, PostEffect DEF One
    <3>. QED BY <1>0, <1>1, <1>2, <1>3, <2>1, <3>2 DEF TypeOK, Places, Radio
  <2>2. CASE ~(radio.mode = "STA" /\ ~radio.started)
    <3>1. events' = events
      BY <1>2, <2>2
    <3>2. BitForetold' /\ Count(events)' = Count(events)
      BY <1>0, <1>1, <1>2, <3>1, KeepEffect
    <3>. QED BY <1>0, <1>1, <1>2, <1>3, <2>2, <3>1, <3>2 DEF TypeOK, Places, Radio
  <2>. QED BY <2>1, <2>2
<1>5. LinkOfStation' /\ SoftApMode'
  BY <1>0, <1>2, <1>3 DEF LinkOfStation, SoftApMode
<1>6. Flagged' /\ Stopped'
  BY <1>1, <1>3 DEF Flagged, Stopped, BringingUp, StationSteps, SoftApSteps
<1>7. One(MayStart)' + One(radio'.link # "down") + Count(events)' + reconfigs
        <= One(MayStart) + One(radio.link # "down") + Count(events) + reconfigs'
  <2>1. ~MayStart'
    BY <1>3 DEF MayStart
  <2>2. radio.mode = "STA" /\ ~radio.started => MayStart
    BY <1>0, <1>3 DEF MayStart, SoftApMode
  <2>. QED BY <1>0, <1>1, <1>2, <1>4, <2>1, <2>2 DEF One
<1>. QED BY <1>0, <1>1, <1>3, <1>4, <1>5, <1>6, <1>7, SetupFrame

\* Power-on, and the reboot after a panic.
PoweredOn ==
  /\ config \in Network \cup {NoNetwork} /\ reconfigs \in 0 .. MaxReconfigs
  /\ role = "NONE" /\ retry = 0 /\ bits = {} /\ reconfiguring = FALSE /\ cmdq = <<>>
  /\ pc = [setup |-> "boot", worker |-> "receive"] /\ radio = Down /\ events = <<>>
  /\ panicked = FALSE /\ failed = 0

\* Both begin as the invariant says.
LEMMA PoweredOnCore == PoweredOn => Core
<1>. SUFFICES ASSUME PoweredOn PROVE Core
  OBVIOUS
<1>. USE DEF PoweredOn
<1>0. /\ reconfigs \in Nat /\ 0 \in 0 .. RetryMax /\ 0 \in 0 .. RetryMax + 1
      /\ Len(cmdq) = 0 /\ Len(events) = 0
      /\ radio.link = "down" /\ ~radio.started
      /\ pc["setup"] = "boot" /\ pc["worker"] = "receive"
  BY BoundAssumption DEF Down
<1>1. TypeOK
  <2>1. cmdq \in Seq(Command) /\ events \in Seq(Event) /\ Len(cmdq) <= QueueLen
    BY <1>0, EmptySeq, BoundAssumption
  <2>2. /\ radio \in [mode : {"NULL", "STA", "AP"}, started : BOOLEAN,
                      link : {"down", "joining", "up"}, net : Network \cup {NoNetwork}]
        /\ pc \in [setup : SetupSteps \cup StationSteps \cup SoftApSteps,
                   worker : WorkerSteps \cup SoftApSteps]
    BY DEF Down, SetupSteps, WorkerSteps
  <2>. QED BY <1>0, <2>1, <2>2 DEF TypeOK
<1>2. LinkOfStation /\ BitForetold
  BY <1>0 DEF LinkOfStation, BitForetold
<1>3. Flagged /\ Stopped /\ SoftApMode
  BY <1>0 DEF Flagged, Fresh, Stopped, SoftApMode
<1>4. AttemptsBounded
  <2>1. Count(events) = 0
    BY CountOfNothing
  <2>. QED BY <1>0, <2>1 DEF AttemptsBounded, UnderWay, MayStart, One
<1>. QED BY <1>1, <1>2, <1>3, <1>4 DEF Core

\* The reboot after a panic.
LEMMA RebootStep ==
  ASSUME Core, Reboot
  PROVE  Core'
<1>1. PoweredOn'
  BY DEF Core, TypeOK, Reboot, Restart, PoweredOn
<1>. QED BY <1>1, PoweredOnCore, PTL

\* Every step keeps what holds however often the device is reconfigured.
LEMMA CoreStep == Core /\ [Next]_vars => Core'
<1>. SUFFICES ASSUME Core, [Next]_vars PROVE Core'
  OBVIOUS
<1>1. CASE Join \/ Loss
  BY <1>1, DriverStep
<1>2. CASE EventLoop
  BY <1>2, EventStep
<1>3. CASE Worker
  <2>1. CASE (WorkerReceive \/ WorkerBackoff) /\ UNCHANGED panicked
    BY <2>1, WorkerWaits
  <2>2. CASE (WorkerConnect \/ WorkerFallback) /\ UNCHANGED panicked
    BY <2>2, WorkerActs
  <2>3. CASE BringUp("worker")
    BY <2>3, WorkerBringsUp
  <2>. QED BY <1>3, <2>1, <2>2, <2>3 DEF Worker
<1>4. CASE Setup
  <2>1. CASE (Boot \/ RaiseFlag \/ ClearBits \/ LowerFlag) /\ UNCHANGED panicked
    BY <2>1, SetupKeepsRadio
  <2>2. CASE (Disconnect \/ Stop) /\ UNCHANGED panicked
    BY <2>2, SetupTakesDown
  <2>3. CASE StationRole("setup") \/ SoftApRole("setup")
    BY <2>3, SetupKeepsRadio
  <2>4. CASE \/ SetMode("setup", "sta_mode", "STA", "sta_config")
             \/ SetMode("setup", "ap_mode", "AP", "ap_config")
    BY <2>4, SetupModes
  <2>5. CASE \/ SetInterface("setup", "sta_config", "STA", "sta_start")
             \/ SetInterface("setup", "ap_config", "AP", "ap_start")
    BY <2>5, SetupInterfaces
  <2>6. CASE StartRadio("setup", "sta_start") \/ StartRadio("setup", "ap_start")
    BY <2>6, SetupStarts
  <2>. QED BY <1>4, <2>1, <2>2, <2>3, <2>4, <2>5, <2>6 DEF Setup, SetupStep, BringUp
<1>5. CASE UserRequest
  BY <1>5, SetupKeepsRadio DEF UserRequest
<1>6. CASE Reboot
  BY <1>6, RebootStep
<1>7. CASE UNCHANGED vars
  <2>1. UNCHANGED <<config, role, retry, bits, reconfiguring, cmdq, pc, radio, events,
                    panicked, reconfigs, failed>>
    BY <1>7 DEF vars, status
  <2>2. BitForetold' /\ Count(events)' = Count(events)
    BY <2>1, KeepEffect DEF Core
  <2>3. TypeOK' /\ LinkOfStation' /\ Flagged' /\ Stopped' /\ SoftApMode'
    BY <2>1 DEF Core, TypeOK, LinkOfStation, Flagged, Fresh, Stopped, SoftApMode
  <2>4. AttemptsBounded'
    BY <2>1, <2>2 DEF Core, AttemptsBounded, UnderWay, MayStart
  <2>. QED BY <2>2, <2>3, <2>4 DEF Core
<1>. QED BY <1>1, <1>2, <1>3, <1>4, <1>5, <1>6, <1>7 DEF Next

-----------------------------------------------------------------------------
(* A device that is left alone goes from phase to phase. *)

\* What cannot happen: a waiting task does nothing, nor does an empty queue, and a link
\* that is not there is neither made nor lost.
LEMMA NothingToDo ==
  /\ pc["setup"] = "idle" => ~Setup
  /\ pc["worker"] = "receive" /\ cmdq = <<>> => ~Worker
  /\ events = <<>> => ~EventLoop
  /\ radio.link = "down" => ~Join
  /\ radio.link # "up" => ~Loss
  /\ radio.link # "joining" => ~Join
  /\ ~panicked => ~Reboot
<1>1. pc["setup"] = "idle" => ~Setup
  BY DEF Setup, SetupStep, Boot, RaiseFlag, Disconnect, Stop, ClearBits, LowerFlag, BringUp,
     StationRole, SoftApRole, SetMode, SetInterface, StartRadio
<1>2. pc["worker"] = "receive" /\ cmdq = <<>> => ~Worker
  BY DEF Worker, WorkerReceive, WorkerBackoff, WorkerConnect, WorkerFallback, BringUp,
     StationRole, SoftApRole, SetMode, SetInterface, StartRadio
<1>3. events = <<>> => ~EventLoop
  BY DEF EventLoop
<1>4. (radio.link # "joining" => ~Join) /\ (radio.link # "up" => ~Loss)
  BY DEF Join, JoinSucceeds, JoinFails, Loss, LinkLost
<1>5. ~panicked => ~Reboot
  BY DEF Reboot
<1>. QED BY <1>1, <1>2, <1>3, <1>4, <1>5

\* Two events in a row.
LEMMA Pairs ==
  ASSUME NEW a, NEW b
  PROVE  /\ Append(<<a>>, b) = <<a, b>> /\ Tail(<<a, b>>) = <<b>>
         /\ Head(<<a>>) = a /\ Head(<<a, b>>) = a /\ Tail(<<a>>) = <<>>
<1>0. ASSUME NEW S, NEW s \in Seq(S), NEW e \in S, NEW t \in Seq(S),
             Len(s) = 1, Len(t) = 2, t[1] = s[1], t[2] = e
      PROVE  Append(s, e) = t
  <2>. DEFINE r == Append(s, e)
  <2>1. /\ r \in Seq(S) /\ Len(r) = Len(s) + 1 /\ r[Len(s) + 1] = e
        /\ \A i \in 1 .. Len(s) : r[i] = s[i]
    BY AppendProperties
  <2>. HIDE DEF r
  <2>2. Len(r) = 2 /\ r[1] = t[1] /\ r[2] = t[2]
    BY <1>0, <2>1
  <2>3. r = t
    BY <1>0, <2>1, <2>2, SeqEqual
  <2>. QED BY <2>3 DEF r
<1>1. Append(<<a>>, b) = <<a, b>>
  <2>. DEFINE S == {a, b}
              s == <<a>>
              t == <<a, b>>
  <2>1. /\ b \in S /\ s \in Seq(S) /\ Len(s) = 1 /\ s[1] = a
        /\ t \in Seq(S) /\ Len(t) = 2 /\ t[1] = a /\ t[2] = b
    OBVIOUS
  <2>. HIDE DEF S, s, t
  <2>2. Append(s, b) = t
    BY <1>0, <2>1
  <2>. QED BY <2>2 DEF s, t
<1>2. Tail(<<a, b>>) = <<b>>
  OBVIOUS
<1>3. Head(<<a>>) = a /\ Head(<<a, b>>) = a /\ Tail(<<a>>) = <<>>
  OBVIOUS
<1>. QED BY <1>1, <1>2, <1>3

\* What the phases begin from.
LEMMA PhaseParts ==
  ASSUME TypeOK
  PROVE  /\ radio \in Radio /\ pc \in Places
         /\ retry \in 0 .. RetryMax /\ failed \in 0 .. RetryMax + 1
         /\ RetryMax \in Nat \ {0} /\ QueueLen \in Nat \ {0}
<1>. QED BY Typed, BoundAssumption DEF TypeOK

\* The driver's answer to a join, and the loss of a link.
LEMMA AnswerStep ==
  ASSUME TypeOK, LeftAlone, ~panicked, ~reconfiguring,
         Joining \/ JoinedUntold \/ Joined, Join \/ Loss
  PROVE  ~panicked' /\ ~reconfiguring' /\ (JoinedUntold' \/ LostUntold' \/ Failing')
<1>0. radio \in Radio /\ retry \in 0 .. RetryMax /\ RetryMax \in Nat \ {0}
  BY PhaseParts
<1>1. /\ UNCHANGED <<role, retry, bits, reconfiguring, cmdq, pc, panicked>>
      /\ Waiting' /\ NoCommand' /\ role' = "STA"
  BY DEF Join, Loss, DriverUnchanged, status, Joining, JoinedUntold, Joined, Waiting, NoCommand
<1>2. radio.mode = "STA" /\ radio.started
  BY DEF Joining, JoinedUntold, Joined, Station
<1>3. CASE Join
  <2>1. Joining
    BY <1>3, NothingToDo DEF JoinedUntold, Joined, Station
  <2>2. CASE JoinSucceeds
    <3>1. Station("up")' /\ failed' = 0 /\ events' = Append(events, GotIp)
      BY <1>0, <1>2, <2>2 DEF JoinSucceeds, Station, Radio, GotIp
    <3>2. events' = <<GotIp>>
      BY <2>1, <3>1 DEF Joining, NoEvent
    <3>. QED BY <1>1, <3>1, <3>2 DEF JoinedUntold, GotIp
  <2>3. CASE JoinFails
    <3>1. /\ Station("down")' /\ events' = Append(events, Lost(FALSE))
          /\ failed' = IF failed < RetryMax + 1 THEN failed + 1 ELSE failed
      BY <1>0, <1>2, <2>3 DEF JoinFails, Station, Radio, Lost
    <3>2. events' = <<Lost(FALSE)>> /\ failed = retry
      BY <2>1, <3>1 DEF Joining, NoEvent
    <3>3. failed' = retry' + 1
      BY <1>0, <1>1, <3>1, <3>2
    <3>. QED BY <1>1, <3>1, <3>2, <3>3 DEF Failing
  <2>. QED BY <1>3, <2>2, <2>3 DEF Join
<1>4. CASE Loss
  <2>1. Station("down")' /\ failed' = 1 /\ events' = Append(events, Lost(FALSE))
    BY <1>0, <1>2, <1>4 DEF Loss, LinkLost, Station, Radio, Lost
  <2>2. CASE JoinedUntold
    <3>1. events' = <<GotIp, Lost(FALSE)>>
      BY <2>1, <2>2, Pairs DEF JoinedUntold, GotIp
    <3>. QED BY <1>1, <2>1, <3>1 DEF LostUntold, GotIp
  <2>3. CASE Joined
    <3>1. events' = <<Lost(FALSE)>> /\ retry = 0
      BY <2>1, <2>3 DEF Joined, NoEvent
    <3>2. failed' = retry' + 1
      BY <1>1, <2>1, <3>1
    <3>. QED BY <1>1, <2>1, <3>1, <3>2 DEF Failing
  <2>. QED BY <1>4, <2>2, <2>3, NothingToDo DEF Joining, Station
<1>. QED BY <1>1, <1>3, <1>4

\* The event loop handles what the driver reported.
LEMMA NewsStep ==
  ASSUME TypeOK, LeftAlone, ~panicked, ~reconfiguring,
         Started \/ JoinedUntold \/ LostUntold \/ Failing, EventLoop
  PROVE  /\ ~panicked' /\ ~reconfiguring'
         /\ Joining' \/ Joined' \/ Failing' \/ Retrying' \/ GivingUp'
<1>0. /\ radio \in Radio /\ retry \in 0 .. RetryMax /\ RetryMax \in Nat \ {0}
      /\ QueueLen \in Nat \ {0}
  BY PhaseParts
<1>1. UNCHANGED <<reconfiguring, pc, panicked>> /\ Waiting /\ Waiting' /\ cmdq = <<>>
  BY DEF EventLoop, Started, JoinedUntold, LostUntold, Failing, Waiting, NoCommand
<1>2. events' = Tail(events)
  BY DEF EventLoop
<1>3. CASE Started
  <2>1. events = <<StaStart>>
    BY <1>3 DEF Started, StaStart
  <2>2. Head(events) = StaStart /\ Tail(events) = <<>>
    BY <2>1
  <2>3. OnStaStart
    BY <2>2, EventTypes, Dispatch
  <2>4. Station("joining")'
    BY <1>0, <1>3, <2>3 DEF OnStaStart, esp_wifi_connect, Started, Station, Radio
  <2>. QED BY <1>1, <1>2, <1>3, <2>2, <2>3, <2>4
       DEF OnStaStart, status, Started, Joining, NoCommand, NoEvent
<1>4. CASE JoinedUntold \/ LostUntold
  <2>1. events = <<GotIp>> \/ events = <<GotIp, Lost(FALSE)>>
    BY <1>4 DEF JoinedUntold, LostUntold, GotIp
  <2>2. Head(events) = GotIp
    BY <2>1, Pairs
  <2>3. OnGotIp
    BY <2>2, EventTypes, Dispatch
  <2>4. /\ UNCHANGED <<cmdq, radio, failed>> /\ role' = "STA" /\ retry' = 0
        /\ "CONNECTED" \in bits'
    BY <2>3 DEF OnGotIp
  <2>5. CASE JoinedUntold
    <3>1. events' = <<>>
      BY <1>2, <2>5 DEF JoinedUntold
    <3>. QED BY <1>1, <2>4, <2>5, <3>1 DEF JoinedUntold, Joined, NoCommand, NoEvent, Station
  <2>6. CASE LostUntold
    <3>1. events' = <<Lost(FALSE)>>
      BY <1>2, <2>6, Pairs DEF LostUntold
    <3>. QED BY <1>1, <2>4, <2>6, <3>1 DEF LostUntold, Failing, NoCommand, Station
  <2>. QED BY <1>4, <2>5, <2>6
<1>5. CASE Failing
  <2>1. Head(events) = Lost(FALSE) /\ Tail(events) = <<>>
    BY <1>5 DEF Failing
  <2>2. OnDisconnected
    BY <2>1, EventTypes, Dispatch
  <2>3. UNCHANGED <<role, radio, failed>> /\ "CONNECTED" \notin bits'
    BY <2>2 DEF OnDisconnected
  <2>4. CASE MayRetry
    <3>1. retry' = retry + 1 /\ cmdq' = Posted("RETRY_CONNECT")
      BY <2>2, <2>4 DEF OnDisconnected
    <3>2. cmdq' = <<"RETRY_CONNECT">>
      BY <1>0, <1>1, <3>1 DEF Posted
    <3>3. failed' = retry'
      BY <1>5, <2>3, <3>1 DEF Failing
    <3>4. Station("down")' /\ NoEvent' /\ role' = "STA"
      BY <1>2, <1>5, <2>1, <2>3 DEF Failing, NoEvent, Station
    <3>5. pc'["setup"] = "idle" /\ pc'["worker"] = "receive"
      BY <1>1 DEF Waiting
    <3>. QED BY <1>1, <2>3, <3>2, <3>3, <3>4, <3>5 DEF Retrying
  <2>5. CASE ~MayRetry
    <3>1. retry' = retry /\ cmdq' = Posted("FALLBACK_AP")
      BY <2>2, <2>5 DEF OnDisconnected
    <3>2. cmdq' = <<"FALLBACK_AP">>
      BY <1>0, <1>1, <3>1 DEF Posted
    <3>3. failed' = RetryMax + 1
      BY <1>0, <1>5, <2>3, <2>5 DEF Failing, MayRetry
    <3>. QED BY <1>1, <1>2, <1>5, <2>1, <2>3, <3>2, <3>3
         DEF Failing, GivingUp, NoEvent, Waiting, Station
  <2>. QED BY <2>4, <2>5
<1>. QED BY <1>1, <1>3, <1>4, <1>5

\* The worker tries again, or gives up.
LEMMA RetryStep ==
  ASSUME TypeOK, LeftAlone, ~panicked, ~reconfiguring, Retrying \/ GivingUp, Worker
  PROVE  ~panicked' /\ ~reconfiguring' /\ (Retrying' \/ Joining' \/ FallingBack')
<1>0. radio \in Radio /\ pc \in Places
  BY PhaseParts
<1>1. /\ pc["setup"] = "idle" /\ NoEvent /\ Station("down") /\ role = "STA"
      /\ "CONNECTED" \notin bits /\ pc["worker"] \in {"receive", "backoff", "connect"}
  BY DEF Retrying, GivingUp, Waiting
<1>2. (WorkerReceive \/ WorkerBackoff \/ WorkerConnect) /\ UNCHANGED panicked
  BY <1>1 DEF Worker, WorkerFallback, BringUp, StationRole, SoftApRole, SetMode, SetInterface,
     StartRadio
<1>3. /\ UNCHANGED <<role, retry, bits, reconfiguring, events, panicked, failed>> /\ NoEvent'
      /\ pc'["setup"] = "idle" /\ pc' \in Places
  BY <1>0, <1>1, <1>2 DEF WorkerReceive, WorkerBackoff, WorkerConnect, Goto, status, NoEvent,
     Places, WorkerSteps
<1>4. CASE WorkerReceive
  <2>1. /\ pc["worker"] = "receive" /\ cmdq' = Tail(cmdq) /\ radio' = radio
        /\ pc'["worker"] = IF Head(cmdq) = "RETRY_CONNECT" THEN "backoff" ELSE "fallback"
    BY <1>0, <1>4 DEF WorkerReceive, Goto, Places
  <2>2. CASE Retrying
    <3>1. cmdq = <<"RETRY_CONNECT">>
      BY <2>1, <2>2 DEF Retrying
    <3>2. cmdq' = <<>> /\ pc'["worker"] = "backoff"
      BY <2>1, <3>1, Pairs
    <3>. QED BY <1>1, <1>3, <2>1, <2>2, <3>2 DEF Retrying, NoCommand, Station
  <2>3. CASE GivingUp
    <3>1. cmdq = <<"FALLBACK_AP">>
      BY <2>3 DEF GivingUp
    <3>2. cmdq' = <<>> /\ pc'["worker"] = "fallback"
      BY <2>1, <3>1, Pairs
    <3>. QED BY <1>1, <1>3, <2>1, <3>2 DEF FallingBack, NoCommand, Station
  <2>. QED BY <2>2, <2>3
<1>5. CASE WorkerBackoff
  <2>1. /\ pc["worker"] = "backoff" /\ cmdq' = cmdq /\ radio' = radio
        /\ pc'["worker"] = "connect"
    BY <1>0, <1>5 DEF WorkerBackoff, Goto, Places
  <2>2. Retrying /\ NoCommand
    BY <2>1 DEF Retrying, GivingUp, Waiting
  <2>. QED BY <1>1, <1>3, <2>1, <2>2 DEF Retrying, NoCommand, Station
<1>6. CASE WorkerConnect
  <2>1. pc["worker"] = "connect" /\ cmdq' = cmdq /\ pc'["worker"] = "receive"
    BY <1>0, <1>6 DEF WorkerConnect, Goto, Places
  <2>2. Retrying /\ NoCommand
    BY <2>1 DEF Retrying, GivingUp, Waiting
  <2>3. Station("joining")'
    BY <1>0, <1>1, <1>6, ConnectCall DEF WorkerConnect, Station, SamePower
  <2>4. Waiting'
    BY <1>3, <2>1 DEF Waiting, Places
  <2>5. failed' = retry'
    BY <1>3, <2>2 DEF Retrying
  <2>. QED BY <1>1, <1>3, <2>1, <2>2, <2>3, <2>4, <2>5 DEF Joining, NoCommand
<1>. QED BY <1>2, <1>4, <1>5, <1>6

\* It stops the radio and brings up the soft-AP.
LEMMA FallbackStep ==
  ASSUME TypeOK, LeftAlone, ~panicked, ~reconfiguring, FallingBack, Worker
  PROVE  ~panicked' /\ ~reconfiguring' /\ (FallingBack' \/ Serving')
<1>0. radio \in Radio /\ pc \in Places /\ events \in Seq(Event)
  BY Typed
<1>1. /\ pc["setup"] = "idle" /\ NoEvent /\ NoCommand /\ radio.link = "down"
      /\ "CONNECTED" \notin bits
      /\ pc["worker"] \in {"fallback", "ap_role", "ap_mode", "ap_config", "ap_start"}
  BY DEF FallingBack, SoftApSteps
<1>2. \/ WorkerFallback /\ UNCHANGED panicked
      \/ SoftApRole("worker")
      \/ SetMode("worker", "ap_mode", "AP", "ap_config")
      \/ SetInterface("worker", "ap_config", "AP", "ap_start")
      \/ StartRadio("worker", "ap_start")
  BY <1>1 DEF Worker, WorkerReceive, WorkerBackoff, WorkerConnect, BringUp, StationRole,
     SetMode, SetInterface, StartRadio
<1>3. /\ UNCHANGED <<retry, bits, reconfiguring, cmdq>> /\ pc' \in Places
      /\ pc'["setup"] = "idle" /\ NoCommand'
  BY <1>0, <1>1, <1>2 DEF WorkerFallback, SoftApRole, SetMode, SetInterface, StartRadio,
     AfterBringUp, Goto, status, NoCommand, Places, WorkerSteps, SoftApSteps
<1>4. CASE WorkerFallback /\ UNCHANGED panicked
  <2>1. radio'.link = "down" /\ events' = events
    BY <1>0, <1>1, <1>4, StopCall DEF WorkerFallback
  <2>2. pc'["worker"] = "ap_role"
    BY <1>0, <1>4 DEF WorkerFallback, Goto, Places
  <2>. QED BY <1>1, <1>3, <1>4, <2>1, <2>2 DEF FallingBack, NoEvent, SoftApSteps
<1>5. CASE SoftApRole("worker")
  <2>1. radio' = radio /\ events' = events /\ role' = "AP" /\ pc'["worker"] = "ap_mode"
        /\ panicked' = panicked
    BY <1>0, <1>5 DEF SoftApRole, Goto, Places
  <2>. QED BY <1>1, <1>3, <2>1 DEF FallingBack, NoEvent, SoftApSteps
<1>6. CASE SetMode("worker", "ap_mode", "AP", "ap_config")
  <2>1. pc["worker"] = "ap_mode" /\ pc'["worker"] = "ap_config" /\ role' = role
        /\ panicked' = panicked
    BY <1>0, <1>6 DEF SetMode, Goto, Places, status
  <2>2. role = "AP"
    BY <2>1 DEF FallingBack
  <2>3. LinkOfStation
    BY <1>1 DEF LinkOfStation
  <2>4. radio'.mode = "AP" /\ radio'.link = "down" /\ events' = events
    <3>1. esp_wifi_set_mode("AP")
      BY <1>6 DEF SetMode
    <3>. QED BY <1>0, <1>1, <2>3, <3>1, SetModeCall
  <2>. QED BY <1>1, <1>3, <2>1, <2>2, <2>4 DEF FallingBack, NoEvent, SoftApSteps
<1>7. CASE SetInterface("worker", "ap_config", "AP", "ap_start")
  <2>1. pc["worker"] = "ap_config" /\ pc'["worker"] = "ap_start" /\ role' = role
        /\ radio' = radio /\ events' = events /\ panicked' = ~(radio.mode = "AP")
    BY <1>0, <1>7 DEF SetInterface, ConfigAccepted, Goto, Places, status
  <2>2. role = "AP" /\ radio.mode = "AP"
    BY <2>1 DEF FallingBack
  <2>. QED BY <1>1, <1>3, <2>1, <2>2 DEF FallingBack, NoEvent, SoftApSteps
<1>8. CASE StartRadio("worker", "ap_start")
  <2>1. pc["worker"] = "ap_start" /\ pc'["worker"] = "receive" /\ role' = role
        /\ panicked' = panicked
    BY <1>0, <1>8 DEF StartRadio, AfterBringUp, Goto, Places, status
  <2>2. role = "AP" /\ radio.mode = "AP"
    BY <2>1 DEF FallingBack
  <2>3. radio'.mode = "AP" /\ radio'.started /\ radio'.link = "down" /\ events' = events
    BY <1>0, <1>1, <1>8, <2>2, StartCall DEF StartRadio
  <2>4. Waiting'
    BY <1>3, <2>1 DEF Waiting, Places
  <2>. QED BY <1>1, <1>3, <2>1, <2>2, <2>3, <2>4 DEF Serving, NoEvent
<1>. QED BY <1>2, <1>4, <1>5, <1>6, <1>7, <1>8

\* wifi_start brings up the station or the soft-AP.
LEMMA StartingStep ==
  ASSUME TypeOK, LeftAlone, ~panicked, ~reconfiguring, Starting, Setup
  PROVE  ~panicked' /\ ~reconfiguring' /\ (Starting' \/ Started' \/ Serving')
<1>0. radio \in Radio /\ pc \in Places /\ events \in Seq(Event)
  BY Typed
<1>1. /\ pc["worker"] = "receive" /\ NoEvent /\ NoCommand /\ radio.link = "down"
      /\ ~radio.started /\ "CONNECTED" \notin bits /\ retry = 0 /\ failed = 0
      /\ pc["setup"] \in {"boot", "sta_role", "sta_mode", "sta_config", "sta_start",
                          "ap_role", "ap_mode", "ap_config", "ap_start"}
  BY DEF Starting, StationSteps, SoftApSteps
<1>2. \/ Boot /\ UNCHANGED panicked
      \/ StationRole("setup") \/ SoftApRole("setup")
      \/ SetMode("setup", "sta_mode", "STA", "sta_config")
      \/ SetMode("setup", "ap_mode", "AP", "ap_config")
      \/ SetInterface("setup", "sta_config", "STA", "sta_start")
      \/ SetInterface("setup", "ap_config", "AP", "ap_start")
      \/ StartRadio("setup", "sta_start") \/ StartRadio("setup", "ap_start")
  BY <1>1 DEF Setup, SetupStep, RaiseFlag, Disconnect, Stop, ClearBits, LowerFlag, BringUp
<1>3. /\ UNCHANGED <<bits, reconfiguring, cmdq>> /\ pc' \in Places
      /\ pc'["worker"] = "receive" /\ NoCommand' /\ retry' = 0 /\ failed' = 0
  BY <1>0, <1>1, <1>2 DEF Boot, StationRole, SoftApRole, SetMode, SetInterface, StartRadio,
     AfterBringUp, Configured, Goto, status, NoCommand, Places, SetupSteps, StationSteps,
     SoftApSteps
<1>4. CASE Boot /\ UNCHANGED panicked
  <2>1. pc'["setup"] \in {"sta_role", "ap_role"} /\ radio' = radio /\ events' = events
    BY <1>0, <1>4 DEF Boot, Configured, Goto, Places
  <2>. QED BY <1>1, <1>3, <1>4, <2>1 DEF Starting, NoEvent, StationSteps, SoftApSteps
<1>5. CASE StationRole("setup") \/ SoftApRole("setup")
  <2>1. /\ radio' = radio /\ events' = events /\ panicked' = panicked
        /\ \/ pc'["setup"] = "sta_mode" /\ role' = "STA"
           \/ pc'["setup"] = "ap_mode" /\ role' = "AP"
    BY <1>0, <1>5 DEF StationRole, SoftApRole, Goto, Places
  <2>. QED BY <1>1, <1>3, <2>1 DEF Starting, NoEvent, StationSteps, SoftApSteps
<1>6. CASE \/ SetMode("setup", "sta_mode", "STA", "sta_config")
           \/ SetMode("setup", "ap_mode", "AP", "ap_config")
  <2>. DEFINE m == IF pc["setup"] = "sta_mode" THEN "STA" ELSE "AP"
  <2>1. /\ m \in {"STA", "AP"} /\ esp_wifi_set_mode(m)
        /\ role' = role /\ panicked' = panicked
        /\ pc["setup"] = IF m = "STA" THEN "sta_mode" ELSE "ap_mode"
        /\ pc'["setup"] = IF m = "STA" THEN "sta_config" ELSE "ap_config"
    BY <1>0, <1>6 DEF SetMode, Goto, Places, status
  <2>. HIDE DEF m
  <2>2. role = m
    BY <2>1 DEF Starting
  <2>3. LinkOfStation
    BY <1>1 DEF LinkOfStation
  <2>4. radio'.mode = m /\ radio'.link = "down" /\ ~radio'.started /\ events' = events
    BY <1>0, <1>1, <2>1, <2>3, SetModeCall
  <2>. QED BY <1>1, <1>3, <2>1, <2>2, <2>4 DEF Starting, NoEvent, StationSteps, SoftApSteps
<1>7. CASE SetInterface("setup", "sta_config", "STA", "sta_start")
  <2>1. pc["setup"] = "sta_config" /\ pc'["setup"] = "sta_start" /\ role' = role
        /\ events' = events /\ panicked' = ~(radio.mode = "STA")
    BY <1>0, <1>7 DEF SetInterface, ConfigAccepted, Goto, Places, status
  <2>2. radio'.mode = radio.mode /\ ~radio'.started /\ radio'.link = "down"
    BY <1>0, <1>1, <1>7 DEF SetInterface, Radio
  <2>3. role = "STA" /\ radio.mode = "STA"
    BY <2>1 DEF Starting
  <2>. QED BY <1>1, <1>3, <2>1, <2>2, <2>3 DEF Starting, NoEvent, StationSteps, SoftApSteps
<1>8. CASE SetInterface("setup", "ap_config", "AP", "ap_start")
  <2>1. pc["setup"] = "ap_config" /\ pc'["setup"] = "ap_start" /\ role' = role
        /\ radio' = radio /\ events' = events /\ panicked' = ~(radio.mode = "AP")
    BY <1>0, <1>8 DEF SetInterface, ConfigAccepted, Goto, Places, status
  <2>2. role = "AP" /\ radio.mode = "AP"
    BY <2>1 DEF Starting
  <2>. QED BY <1>1, <1>3, <2>1, <2>2 DEF Starting, NoEvent, StationSteps, SoftApSteps
<1>9. CASE StartRadio("setup", "sta_start") \/ StartRadio("setup", "ap_start")
  <2>1. /\ pc["setup"] \in {"sta_start", "ap_start"} /\ pc'["setup"] = "idle" /\ role' = role
        /\ panicked' = panicked /\ failed' = retry'
    BY <1>0, <1>3, <1>9 DEF StartRadio, AfterBringUp, Goto, Places, status
  <2>2. Waiting'
    BY <1>3, <2>1 DEF Waiting, Places
  <2>3. /\ radio'.mode = radio.mode /\ radio'.started /\ radio'.link = "down"
        /\ IF radio.mode = "STA" THEN Posts(StaStart) ELSE events' = events
    BY <1>0, <1>1, <1>9, StartCall DEF StartRadio
  <2>4. CASE pc["setup"] = "sta_start"
    <3>1. role = "STA" /\ radio.mode = "STA"
      BY <2>4 DEF Starting
    <3>2. events' = <<StaStart>>
      BY <1>1, <2>3, <3>1 DEF Posts, NoEvent
    <3>. QED BY <1>1, <1>3, <2>1, <2>2, <2>3, <3>1, <3>2 DEF Started, Station, StaStart
  <2>5. CASE pc["setup"] = "ap_start"
    <3>1. role = "AP" /\ radio.mode = "AP"
      BY <2>5 DEF Starting
    <3>. QED BY <1>1, <1>3, <2>1, <2>2, <2>3, <3>1 DEF Serving, NoEvent
  <2>. QED BY <2>1, <2>4, <2>5
<1>. QED BY <1>2, <1>4, <1>5, <1>6, <1>7, <1>8, <1>9

\* Every step of a device that is left alone ends in one of the phases.
LEMMA PhasesStep == IInv /\ [Next]_vars => Phases'
<1>. SUFFICES ASSUME IInv, [Next]_vars, LeftAlone'
     PROVE  /\ ~panicked' /\ ~reconfiguring'
            /\ \/ Starting' \/ Started' \/ Joining' \/ JoinedUntold' \/ Joined' \/ LostUntold'
               \/ Failing' \/ Retrying' \/ GivingUp' \/ FallingBack' \/ Serving'
  BY DEF Phases
<1>0. TypeOK /\ Phases
  BY DEF IInv, Core
<1>1. ~UserRequest /\ LeftAlone
  <2>1. reconfigs \in Nat
    BY <1>0, Typed
  <2>2. ~UserRequest
    BY <2>1 DEF UserRequest, Reconfigure, LeftAlone
  <2>3. reconfigs' = reconfigs
    BY <2>2 DEF Next, vars, Join, Loss, DriverUnchanged, EventLoop, Worker, WorkerReceive,
       WorkerBackoff, WorkerConnect, WorkerFallback, BringUp, StationRole, SoftApRole, SetMode,
       SetInterface, StartRadio, Setup, SetupStep, Boot, RaiseFlag, Disconnect, Stop,
       ClearBits, LowerFlag, Reboot
  <2>. QED BY <2>2, <2>3 DEF LeftAlone
<1>2. ~panicked /\ ~reconfiguring
  BY <1>0, <1>1 DEF Phases
<1>3. CASE UNCHANGED vars
  <2>1. UNCHANGED <<config, role, retry, bits, reconfiguring, cmdq, pc, radio, events,
                    panicked, reconfigs, failed>>
    BY <1>3 DEF vars, status
  <2>2. /\ Starting => Starting'
        /\ Started => Started'
        /\ Joining => Joining'
        /\ JoinedUntold => JoinedUntold'
        /\ Joined => Joined'
        /\ LostUntold => LostUntold'
    BY <2>1 DEF Starting, Started, Joining, JoinedUntold, Joined, LostUntold, Waiting, NoEvent,
       NoCommand, Station
  <2>3. /\ Failing => Failing'
        /\ Retrying => Retrying'
        /\ GivingUp => GivingUp'
        /\ FallingBack => FallingBack'
        /\ Serving => Serving'
    BY <2>1 DEF Failing, Retrying, GivingUp, FallingBack, Serving, Waiting, NoEvent, NoCommand,
       Station
  <2>. QED BY <1>0, <1>1, <1>2, <2>1, <2>2, <2>3 DEF Phases
<1>4. CASE Join \/ Loss \/ EventLoop \/ Worker \/ Setup
  <2>1. CASE Starting
    <3>1. Setup
      BY <1>4, <2>1, NothingToDo DEF Starting, NoEvent, NoCommand
    <3>. QED BY <1>0, <1>1, <1>2, <2>1, <3>1, StartingStep
  <2>2. CASE Started \/ LostUntold \/ Failing
    <3>0. /\ pc["setup"] = "idle" /\ pc["worker"] = "receive" /\ cmdq = <<>>
          /\ radio.link = "down"
      <4>1. Waiting /\ NoCommand /\ Station("down")
        BY <2>2 DEF Started, LostUntold, Failing
      <4>. QED BY <4>1 DEF Waiting, NoCommand, Station
    <3>1. EventLoop
      BY <1>4, <3>0, NothingToDo
    <3>. QED BY <1>0, <1>1, <1>2, <2>2, <3>1, NewsStep
  <2>3. CASE Joining \/ Joined
    <3>1. Join \/ Loss
      BY <1>4, <2>3, NothingToDo DEF Joining, Joined, Waiting, NoEvent, NoCommand
    <3>. QED BY <1>0, <1>1, <1>2, <2>3, <3>1, AnswerStep
  <2>4. CASE JoinedUntold
    <3>1. Join \/ Loss \/ EventLoop
      BY <1>4, <2>4, NothingToDo DEF JoinedUntold, Waiting, NoCommand
    <3>. QED BY <1>0, <1>1, <1>2, <2>4, <3>1, AnswerStep, NewsStep
  <2>5. CASE Retrying \/ GivingUp
    <3>1. Worker
      BY <1>4, <2>5, NothingToDo DEF Retrying, GivingUp, Waiting, NoEvent, Station
    <3>. QED BY <1>0, <1>1, <1>2, <2>5, <3>1, RetryStep
  <2>6. CASE FallingBack
    <3>1. Worker
      BY <1>4, <2>6, NothingToDo DEF FallingBack, NoEvent
    <3>. QED BY <1>0, <1>1, <1>2, <2>6, <3>1, FallbackStep
  <2>7. CASE Serving
    BY <1>4, <2>7, NothingToDo DEF Serving, Waiting, NoEvent, NoCommand
  <2>. QED BY <1>0, <1>1, <2>1, <2>2, <2>3, <2>4, <2>5, <2>6, <2>7 DEF Phases
<1>. QED BY <1>1, <1>2, <1>3, <1>4, NothingToDo DEF Next

-----------------------------------------------------------------------------
(* Theorems. *)

\* The inductive invariant.
THEOREM InductiveInvariant == Spec => []IInv
<1>1. Init => IInv
  <2>. SUFFICES ASSUME Init PROVE IInv
    OBVIOUS
  <2>1. Core
    BY PoweredOnCore, BoundAssumption DEF Init, PoweredOn
  <2>2. Starting /\ ~panicked /\ ~reconfiguring
    BY DEF Init, Starting, NoEvent, NoCommand, Down, StationSteps, SoftApSteps
  <2>. QED BY <2>1, <2>2 DEF IInv, Phases
<1>2. IInv /\ [Next]_vars => IInv'
  BY CoreStep, PhasesStep DEF IInv
<1>. QED BY <1>1, <1>2, PTL DEF Spec

\* Every variable keeps its type, and the retry counter its limit.
THEOREM TypeCorrect == Spec => []TypeOK
<1>1. IInv => TypeOK
  BY DEF IInv, Core
<1>. QED BY <1>1, InductiveInvariant, PTL

\* Once the event loop has caught up, WIFI_CONNECTED_BIT is set only while the station
\* has its link, whatever reconfigurations, joins and losses went before.
THEOREM ConnectedBitAlwaysTruthful == Spec => []ConnectedBitTruthful
<1>1. IInv => ConnectedBitTruthful
  <2>. SUFFICES ASSUME IInv, events = <<>>, "CONNECTED" \in bits PROVE Associated
    BY DEF ConnectedBitTruthful
  <2>1. LinkOfStation /\ BitForetold
    BY DEF IInv, Core
  <2>2. LastWord(0)
    BY DEF LastWord
  <2>. QED BY <2>1, <2>2 DEF LinkOfStation, BitForetold, Associated
<1>. QED BY <1>1, InductiveInvariant, PTL

\* Commands pile up in s_cmd_q by at most one per reconfiguration, however the tasks
\* interleave.
THEOREM CommandsAlwaysBounded == Spec => []CommandsBounded
<1>1. IInv => CommandsBounded
  <2>. SUFFICES ASSUME IInv PROVE CommandsBounded
    OBVIOUS
  <2>. DEFINE m == One(MayStart)
              w == One(pc["worker"] # "receive")
              l == One(radio.link # "down")
              c == Count(events)
              q == Len(cmdq)
  <2>1. AttemptsBounded /\ q \in Nat /\ c \in Nat /\ reconfigs \in Nat
    BY CoreParts DEF IInv
  <2>2. UnderWay = m + l + c + q + w
    BY DEF UnderWay
  <2>3. m \in Nat /\ l \in Nat /\ w \in Nat
    BY DEF One
  <2>4. UnderWay <= 1 + reconfigs
    BY <2>1 DEF AttemptsBounded
  <2>. HIDE DEF m, w, l, c, q
  <2>5. q <= 1 + reconfigs
    BY <2>1, <2>2, <2>3, <2>4
  <2>. QED BY <2>5 DEF CommandsBounded, q
<1>. QED BY <1>1, InductiveInvariant, PTL

\* A device that is left alone is, when it rests, reachable or on its way, and
\* wifi_is_connected says which.
THEOREM AlwaysReachableIfLeftAlone == Spec => []ReachableIfLeftAlone
<1>1. IInv => ReachableIfLeftAlone
  <2>. SUFFICES ASSUME IInv, LeftAlone, Quiescent
       PROVE  /\ SoftApUp \/ radio.link \in {"joining", "up"}
              /\ IsConnected <=> Associated \/ SoftApUp
    BY DEF ReachableIfLeftAlone, NeverStranded, ConnectedReportTruthful
  <2>1. events = <<>> /\ cmdq = <<>> /\ pc["setup"] = "idle" /\ pc["worker"] = "receive"
    BY DEF Quiescent
  <2>2. ~Starting
    BY <2>1 DEF Starting, StationSteps, SoftApSteps
  <2>3. ~Started /\ ~JoinedUntold /\ ~LostUntold /\ ~Failing
    BY <2>1 DEF Started, JoinedUntold, LostUntold, Failing
  <2>4. ~Retrying /\ ~GivingUp /\ ~FallingBack
    BY <2>1 DEF Retrying, GivingUp, FallingBack, SoftApSteps
  <2>5. Joining \/ Joined \/ Serving
    BY <2>2, <2>3, <2>4 DEF IInv, Phases
  <2>. QED BY <2>5 DEF Joining, Joined, Serving, Station, SoftApUp, Associated, IsConnected
<1>. QED BY <1>1, InductiveInvariant, PTL

\* Left alone, the worker gives up on a network only after the first join and all the
\* retries have failed in a row.
THEOREM FallbackAlwaysEarned == Spec => FallbackEarned
<1>1. IInv /\ [Next]_vars =>
        [ LeftAlone /\ pc["worker"] = "receive" /\ pc'["worker"] = "fallback"
            => failed = RetryMax + 1 ]_vars
  <2>. SUFFICES ASSUME IInv, Next, LeftAlone, pc["worker"] = "receive",
                       pc'["worker"] = "fallback"
       PROVE  failed = RetryMax + 1
    OBVIOUS
  <2>0. TypeOK /\ Phases /\ pc \in Places
    BY Typed DEF IInv, Core
  <2>1. ~Reboot /\ ~(Join \/ Loss \/ EventLoop)
    <3>1. Reboot => pc'["worker"] = "receive"
      BY DEF Reboot, Restart
    <3>2. Join \/ Loss \/ EventLoop => pc' = pc
      BY DEF Join, Loss, DriverUnchanged, EventLoop
    <3>. QED BY <3>1, <3>2
  <2>2. ~Setup /\ ~UserRequest
    <3>1. Setup \/ UserRequest => pc'["worker"] = pc["worker"]
      BY <2>0 DEF Setup, SetupStep, Boot, RaiseFlag, Disconnect, Stop, ClearBits, LowerFlag,
         BringUp, StationRole, SoftApRole, SetMode, SetInterface, StartRadio, UserRequest,
         Reconfigure, Goto, Places
    <3>. QED BY <3>1
  <2>3. WorkerReceive
    BY <2>1, <2>2 DEF Next, Worker, WorkerBackoff, WorkerConnect, WorkerFallback, BringUp,
       StationRole, SoftApRole, SetMode, SetInterface, StartRadio
  <2>4. cmdq # <<>> /\ Head(cmdq) # "RETRY_CONNECT"
    BY <2>0, <2>3 DEF WorkerReceive, Goto, Places
  <2>5. ~Retrying
    BY <2>4, Pairs DEF Retrying
  <2>6. ~Starting /\ ~Started /\ ~Joining /\ ~JoinedUntold /\ ~Joined
    BY <2>4 DEF Starting, Started, Joining, JoinedUntold, Joined, NoCommand
  <2>7. ~LostUntold /\ ~Failing /\ ~FallingBack /\ ~Serving
    BY <2>4 DEF LostUntold, Failing, FallingBack, Serving, NoCommand
  <2>8. GivingUp
    BY <2>0, <2>5, <2>6, <2>7 DEF Phases
  <2>. QED BY <2>8 DEF GivingUp
<1>. QED BY <1>1, InductiveInvariant, PTL DEF Spec, FallbackEarned
=============================================================================
