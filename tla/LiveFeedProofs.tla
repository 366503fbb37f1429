--------------------------- MODULE LiveFeedProofs ---------------------------
(***************************************************************************)
(* Theorems about LiveFeed, for every number of slots, set of descriptors  *)
(* and set of tokens: its type invariant, that the client table never      *)
(* records a descriptor twice, that at most one frame goes out under a     *)
(* session that has ended, and that no frame goes to a connection that was *)
(* not a WebSocket when the push task looked.                              *)
(***************************************************************************)
EXTENDS LiveFeed, WellFoundedInduction, TLAPS

Client == [fd : Fd, token : Token] \cup {FreeClient}
Stages == {"wait", "check", "peek", "drop", "remove", "send"}

\* The push task's own variables; past the first check it is at a recorded client.
PushTyped ==
  /\ push \in [at : Stages, slot : Slot, copy : [Slot -> Client], sent : 0 .. Slots]
  /\ push.at \in Stages \ {"wait", "check"} => Here.fd # NoFd

\* A frame may still go out under an ended session only if none has yet, and only
\* while the push task is past the check that found the session live.
LateFrames ==
  /\ late \in [Token -> Nat]
  /\ \A t \in Token : late[t] <= 1 /\ (sessions[t] # "ended" => late[t] = 0)
  /\ push.at = "send" => sessions[Here.token] # "unissued" /\ late[Here.token] = 0

\* A descriptor that passed the first check is a plain connection only if it has
\* changed hands since.
LookedAt == push.at \in {"peek", "send"} => sockets[Here.fd] # "http" \/ taken

\* The inductive invariant.
IInv == TypeOK /\ PushTyped /\ RecordedOnce /\ LateFrames /\ LookedAt

-----------------------------------------------------------------------------
(* The table. *)

\* A set of naturals with a member has a least one.
LEMMA LeastNatural ==
  ASSUME NEW S \in SUBSET Nat, S # {}
  PROVE  \E m \in S : \A k \in S : m <= k
<1>1. PICK m \in S : \A k \in S : ~(<<k, m>> \in OpToRel(<, Nat))
  BY NatLessThanWellFounded, WFMin, Zenon
<1>2. \A k \in S : ~(k < m)
  BY <1>1 DEF OpToRel
<1>. QED BY <1>2

\* The slot a client is recorded in is one of those allowed.
LEMMA MinIsMember ==
  ASSUME NEW S \in SUBSET Slot, S # {}
  PROVE  Min(S) \in S
<1>1. S \in SUBSET Nat
  BY SlotsAssumption DEF Slot
<1>2. \E m \in S : \A k \in S : m <= k
  BY <1>1, LeastNatural
<1>. QED BY <1>2, Zenon DEF Min

\* Recording a client changes one slot: its own if it has one, else a free one.
LEMMA AddedProperties ==
  ASSUME TypeOK, NEW fd \in Fd, NEW token \in Token
  PROVE  \/ Added(fd, token) = clients
         \/ \E s \in Slot :
              /\ Added(fd, token) = [clients EXCEPT ![s] = [fd |-> fd, token |-> token]]
              /\ clients[s].fd = fd \/ (clients[s].fd = NoFd /\ \A u \in Slot : clients[u].fd # fd)
<1>1. CASE SlotFor(fd) = {}
  BY <1>1 DEF Added
<1>2. CASE SlotFor(fd) # {}
  <2>1. SlotFor(fd) \in SUBSET Slot
    BY DEF SlotFor, SlotsOf
  <2>2. Min(SlotFor(fd)) \in SlotFor(fd)
    BY <1>2, <2>1, MinIsMember
  <2>3. \A s \in SlotFor(fd) :
          clients[s].fd = fd \/ (clients[s].fd = NoFd /\ \A u \in Slot : clients[u].fd # fd)
    BY DEF SlotFor, SlotsOf
  <2>4. Added(fd, token) = [clients EXCEPT ![Min(SlotFor(fd))] = [fd |-> fd, token |-> token]]
    BY <1>2 DEF Added
  <2>. QED BY <2>1, <2>2, <2>3, <2>4
<1>. QED BY <1>1, <1>2

\* Recording keeps the table well formed and every descriptor in one slot.
LEMMA AddedKeeps ==
  ASSUME TypeOK, RecordedOnce, NEW fd \in Fd, NEW token \in Token, clients' = Added(fd, token)
  PROVE  clients' \in [Slot -> Client] /\ RecordedOnce'
<1>0. clients \in [Slot -> Client]
  BY DEF TypeOK, Client
<1>1. CASE Added(fd, token) = clients
  BY <1>0, <1>1 DEF RecordedOnce
<1>2. CASE Added(fd, token) # clients
  <2>1. PICK s \in Slot :
          /\ clients' = [clients EXCEPT ![s] = [fd |-> fd, token |-> token]]
          /\ clients[s].fd = fd \/ (clients[s].fd = NoFd /\ \A u \in Slot : clients[u].fd # fd)
    BY <1>2, AddedProperties
  <2>2. clients' \in [Slot -> Client]
    BY <1>0, <2>1 DEF Client
  <2>3. \A u \in Slot : clients'[u].fd = IF u = s THEN fd ELSE clients[u].fd
    BY <1>0, <2>1
  <2>4. fd # NoFd
    BY NamesAssumption
  <2>5. RecordedOnce'
    BY <2>1, <2>3, <2>4 DEF RecordedOnce
  <2>. QED BY <2>2, <2>5
<1>. QED BY <1>1, <1>2

\* Removing a descriptor leaves the others where they are.
LEMMA WithoutKeeps ==
  ASSUME TypeOK, RecordedOnce, NEW fd, clients' = Without(fd)
  PROVE  clients' \in [Slot -> Client] /\ RecordedOnce'
<1>0. clients \in [Slot -> Client]
  BY DEF TypeOK, Client
<1>1. clients' \in [Slot -> Client]
  BY <1>0 DEF Without, Client
<1>2. \A s \in Slot : clients'[s].fd = IF clients[s].fd = fd THEN NoFd ELSE clients[s].fd
  BY DEF Without, FreeClient
<1>. QED BY <1>1, <1>2 DEF RecordedOnce

-----------------------------------------------------------------------------
(* Types. *)

\* The task's next position is a position.
LEMMA OnwardTyped ==
  ASSUME PushTyped, NEW n \in 0 .. Slots, Onward(n)
  PROVE  PushTyped' /\ push'.at \in {"wait", "check"}
<1>. DEFINE P == [at : Stages, slot : Slot, copy : [Slot -> Client], sent : 0 .. Slots]
<1>1. CASE push.slot < LastSlot
  <2>1. push.slot + 1 \in Slot
    BY <1>1, SlotsAssumption DEF PushTyped, Slot, LastSlot
  <2>2. [push.copy EXCEPT ![push.slot] = FreeClient] \in [Slot -> Client]
    BY DEF PushTyped, Client
  <2>3. push' = [push EXCEPT !.at = "check", !.slot = push.slot + 1,
                             !.copy[push.slot] = FreeClient, !.sent = n]
    BY <1>1 DEF Onward
  <2>4. push' \in P /\ push'.at = "check"
    BY <2>1, <2>2, <2>3 DEF PushTyped, Stages
  <2>. QED BY <2>4 DEF PushTyped, Here
<1>2. CASE ~(push.slot < LastSlot)
  <2>1. Waiting \in [at : {"wait"}, slot : Slot, copy : [Slot -> Client], sent : 0 .. Slots]
    BY SlotsAssumption DEF Waiting, Slot, Client
  <2>2. push' = [Waiting EXCEPT !.sent = n]
    BY <1>2 DEF Onward
  <2>3. push' \in P /\ push'.at = "wait"
    BY <2>1, <2>2 DEF Stages
  <2>. QED BY <2>3 DEF PushTyped, Here
<1>. QED BY <1>1, <1>2

\* A new position of the task, at the same client.
LEMMA MoveTyped ==
  ASSUME PushTyped, NEW x \in Stages, push' = [push EXCEPT !.at = x],
         x \notin {"wait", "check"} => Here.fd # NoFd
  PROVE  PushTyped' /\ push'.at = x /\ Here' = Here
<1>1. push' \in [at : Stages, slot : Slot, copy : [Slot -> Client], sent : 0 .. Slots]
      /\ push'.at = x /\ push'.slot = push.slot /\ push'.copy = push.copy
  BY DEF PushTyped
<1>. QED BY <1>1 DEF PushTyped, Here

\* What the task is at, once past the first check, is a recorded client.
LEMMA HereIsClient ==
  ASSUME PushTyped, Here.fd # NoFd
  PROVE  Here \in [fd : Fd, token : Token]
<1>1. Here \in Client
  BY DEF PushTyped, Here
<1>. QED BY <1>1 DEF Client, FreeClient

\* The task begins with the first slot of its copy, or goes back to sleep.
LEMMA CopyTyped ==
  ASSUME clients \in [Slot -> Client], Snapshot \/ NoMemory
  PROVE  PushTyped' /\ push'.at \in {"wait", "check"}
<1>. DEFINE P == [at : Stages, slot : Slot, copy : [Slot -> Client], sent : 0 .. Slots]
<1>1. Waiting \in P /\ Waiting.at = "wait"
  BY SlotsAssumption DEF Waiting, Slot, Client, Stages
<1>2. [Waiting EXCEPT !.at = "check", !.copy = clients] \in P
      /\ [Waiting EXCEPT !.at = "check", !.copy = clients].at = "check"
  BY <1>1 DEF Stages
<1>3. push' \in P /\ push'.at \in {"wait", "check"}
  BY <1>1, <1>2 DEF Snapshot, NoMemory
<1>. QED BY <1>3 DEF PushTyped, Here

\* Every step keeps the types and every descriptor in one slot.
LEMMA TypeStep ==
  TypeOK /\ PushTyped /\ RecordedOnce /\ [Next]_vars => TypeOK' /\ PushTyped' /\ RecordedOnce'
<1>. SUFFICES ASSUME TypeOK, PushTyped, RecordedOnce, [Next]_vars
             PROVE  TypeOK' /\ PushTyped' /\ RecordedOnce'
  OBVIOUS
<1>. DEFINE Rest ==
       /\ sockets \in [Fd -> {"none", "http", "ws", "bye"}]
       /\ opened \in 0 .. MaxConns
       /\ closing \subseteq Fd
       /\ sessions \in [Token -> {"unissued", "live", "ended"}]
       /\ http \in [fd : Fd, token : Token] \cup {Quiet}
       /\ taken \in BOOLEAN
<1>a. Rest /\ clients \in [Slot -> Client]
  BY DEF TypeOK, Client
<1>b. Rest' /\ clients' \in [Slot -> Client] /\ PushTyped' => TypeOK'
  BY DEF TypeOK, PushTyped, Client, Stages
<1>c. UNCHANGED clients => clients' \in [Slot -> Client] /\ RecordedOnce'
  BY <1>a DEF RecordedOnce
<1>d. UNCHANGED push => PushTyped'
  BY DEF PushTyped, Here
<1>1. CASE HttpTask
  <2>1. ASSUME NEW fd \in Fd, Accept(fd) PROVE Rest' /\ UNCHANGED <<clients, push>>
    BY <1>a, <2>1, ConnsAssumption DEF Accept
  <2>2. ASSUME NEW fd \in Fd, LastFrame(fd)
        PROVE  Rest' /\ UNCHANGED push /\ clients' = Without(fd)
    BY <1>a, <2>2 DEF LastFrame, Closed
  <2>3. ASSUME NEW fd \in Fd, Disconnect(fd) PROVE Rest' /\ UNCHANGED <<clients, push>>
    BY <1>a, <2>3 DEF Disconnect, Closed
  <2>4. ASSUME NEW fd \in Fd, NEW token \in Token, Upgrade(fd, token)
        PROVE  Rest' /\ UNCHANGED <<clients, push>>
    BY <1>a, <2>4 DEF Upgrade
  <2>5. ASSUME NEW token \in Token, LogIn(token) PROVE Rest' /\ UNCHANGED <<clients, push>>
    BY <1>a, <2>5 DEF LogIn
  <2>. QED BY <1>1, <1>b, <1>c, <1>d, <2>1, <2>2, <2>3, <2>4, <2>5, WithoutKeeps DEF HttpTask
<1>2. CASE RefuseHandshake
  <2>1. Rest' /\ UNCHANGED <<clients, push>>
    BY <1>2, <1>a DEF RefuseHandshake, Closed
  <2>. QED BY <2>1, <1>b, <1>c, <1>d
<1>3. CASE Record
  <2>1. Rest' /\ UNCHANGED push /\ clients' = Added(http.fd, http.token)
    BY <1>3, <1>a DEF Record
  <2>2. http.fd \in Fd /\ http.token \in Token
    BY <1>3, <1>a DEF Record, Idle
  <2>. QED BY <2>1, <2>2, <1>b, <1>d, AddedKeeps
<1>4. ASSUME NEW fd \in Fd, ServeClose(fd) PROVE TypeOK' /\ PushTyped' /\ RecordedOnce'
  <2>1. Rest' /\ UNCHANGED <<clients, push>>
    BY <1>4, <1>a DEF ServeClose, Closed
  <2>. QED BY <2>1, <1>b, <1>c, <1>d
<1>5. ASSUME NEW token \in Token, End(token) PROVE TypeOK' /\ PushTyped' /\ RecordedOnce'
  <2>1. Rest' /\ UNCHANGED <<clients, push>>
    BY <1>5, <1>a DEF End
  <2>. QED BY <2>1, <1>b, <1>c, <1>d
<1>6. CASE Snapshot \/ NoMemory
  <2>1. Rest' /\ UNCHANGED clients
    BY <1>6, <1>a DEF Snapshot, NoMemory
  <2>2. PushTyped'
    BY <1>6, <1>a, CopyTyped
  <2>. QED BY <2>1, <2>2, <1>b, <1>c
<1>7. CASE PushWalk
  <2>0. push.sent \in 0 .. Slots /\ push.slot \in 0 .. Slots
    BY SlotsAssumption DEF PushTyped, Slot
  <2>1. CASE SkipFree \/ SendFrame
    <3>1. Rest' /\ UNCHANGED clients
      BY <2>1, <1>a DEF SkipFree, SendFrame, Onward
    <3>2. PushTyped'
      BY <2>0, <2>1, OnwardTyped DEF SkipFree, SendFrame
    <3>. QED BY <3>1, <3>2, <1>b, <1>c
  <2>2. CASE CheckSocket \/ CheckSession \/ SendFails
    <3>1. Rest' /\ UNCHANGED clients
      BY <2>2, <1>a DEF CheckSocket, CheckSession, SendFails
    <3>2. \E x \in Stages : push' = [push EXCEPT !.at = x]
      BY <2>2 DEF CheckSocket, CheckSession, SendFails, Stages
    <3>3. Here.fd # NoFd
      BY <2>2 DEF CheckSocket, CheckSession, SendFails, PushTyped, Stages
    <3>. QED BY <3>1, <3>2, <3>3, <1>b, <1>c, MoveTyped
  <2>3. CASE DropConnection
    <3>1. Here.fd # NoFd
      BY <2>3 DEF DropConnection, PushTyped, Stages
    <3>2. Rest' /\ UNCHANGED clients
      BY <2>3, <3>1, <1>a, HereIsClient DEF DropConnection
    <3>3. PushTyped'
      BY <2>3, <3>1, MoveTyped DEF DropConnection, Stages
    <3>. QED BY <3>2, <3>3, <1>b, <1>c
  <2>4. CASE RemoveClient
    <3>1. Rest' /\ clients' = Without(Here.fd)
      BY <2>4, <1>a DEF RemoveClient, Onward
    <3>2. PushTyped'
      BY <2>0, <2>4, OnwardTyped DEF RemoveClient
    <3>. QED BY <3>1, <3>2, <1>b, WithoutKeeps
  <2>. QED BY <1>7, <2>1, <2>2, <2>3, <2>4 DEF PushWalk
<1>8. CASE UNCHANGED vars
  <2>1. Rest' /\ UNCHANGED <<clients, push>>
    BY <1>8, <1>a DEF vars
  <2>. QED BY <2>1, <1>b, <1>c, <1>d
<1>. QED
  BY <1>1, <1>2, <1>3, <1>4, <1>5, <1>6, <1>7, <1>8 DEF Next, HttpFinishes

-----------------------------------------------------------------------------
(* Frames. *)

\* Every step leaves at most one frame to go out under an ended session.
LEMMA LateStep == TypeOK /\ PushTyped /\ LateFrames /\ [Next]_vars => LateFrames'
<1>. SUFFICES ASSUME TypeOK, PushTyped, LateFrames, [Next]_vars PROVE LateFrames'
  OBVIOUS
<1>a. sessions \in [Token -> {"unissued", "live", "ended"}]
  BY DEF TypeOK
<1>b. push.at = "send" => Here.token \in Token
  BY HereIsClient DEF PushTyped, Stages
<1>1. ASSUME NEW token \in Token, LogIn(token) PROVE LateFrames'
  BY <1>1, <1>a, <1>b DEF LogIn, LateFrames, Here
<1>2. ASSUME NEW token \in Token, End(token) PROVE LateFrames'
  BY <1>2, <1>a, <1>b DEF End, LateFrames, Here
<1>3. CASE UNCHANGED <<sessions, late, push>>
  BY <1>3 DEF LateFrames, Here
<1>4. CASE UNCHANGED <<sessions, late>> /\ push'.at # "send"
  BY <1>4 DEF LateFrames
<1>5. CASE CheckSession
  <2>1. push.at = "peek" /\ UNCHANGED <<sessions, late>> /\ Here.token \in Token
    BY <1>5, HereIsClient DEF CheckSession, PushTyped, Stages
  <2>2. Here' = Here
    BY <1>5 DEF CheckSession, Here, PushTyped
  <2>3. push'.at = "send" => sessions[Here.token] = "live"
    BY <1>5 DEF CheckSession, StillLoggedIn, Peek, PushTyped
  <2>. QED BY <2>1, <2>2, <2>3 DEF LateFrames
<1>6. CASE SendFrame
  <2>1. push'.at # "send" /\ UNCHANGED sessions /\ push.at = "send" /\ push.slot \in 0 .. Slots
    BY <1>6, OnwardTyped, SlotsAssumption DEF SendFrame, PushTyped, Slot
  <2>2. CASE Peek(Here.token)
    BY <1>6, <2>1, <2>2 DEF SendFrame, LateFrames
  <2>3. CASE ~Peek(Here.token)
    <3>1. sessions[Here.token] = "ended" /\ late[Here.token] = 0
      BY <1>a, <1>b, <2>1, <2>3 DEF LateFrames, Peek
    <3>2. late' = [late EXCEPT ![Here.token] = 1]
      BY <1>6, <2>3, <3>1 DEF SendFrame
    <3>. QED BY <1>b, <2>1, <3>1, <3>2 DEF LateFrames
  <2>. QED BY <2>2, <2>3
<1>7. ASSUME NEW fd \in Fd, Accept(fd) \/ LastFrame(fd) \/ Disconnect(fd) \/ ServeClose(fd)
      PROVE  UNCHANGED <<sessions, late, push>>
  BY <1>7 DEF Accept, LastFrame, Disconnect, ServeClose
<1>8. ASSUME NEW fd \in Fd, NEW token \in Token, Upgrade(fd, token)
      PROVE  UNCHANGED <<sessions, late, push>>
  BY <1>8 DEF Upgrade
<1>9. RefuseHandshake \/ Record \/ UNCHANGED vars => UNCHANGED <<sessions, late, push>>
  BY DEF RefuseHandshake, Record, vars
<1>10. CheckSocket \/ DropConnection \/ SendFails
         => UNCHANGED <<sessions, late>> /\ push'.at # "send"
  BY DEF CheckSocket, DropConnection, SendFails, PushTyped
<1>12. Snapshot \/ NoMemory => UNCHANGED <<sessions, late>> /\ push'.at # "send"
  BY CopyTyped DEF Snapshot, NoMemory, TypeOK, Client
<1>11. SkipFree \/ RemoveClient => UNCHANGED <<sessions, late>> /\ push'.at # "send"
  BY OnwardTyped DEF SkipFree, RemoveClient, PushTyped
<1>. QED
  BY <1>1, <1>2, <1>3, <1>4, <1>5, <1>6, <1>7, <1>8, <1>9, <1>10, <1>11, <1>12
     DEF Next, HttpTask, HttpFinishes, PushWalk

\* A connection the push task has looked at turns into a plain one only by changing
\* hands, which is noted.
LEMMA LookedStep == TypeOK /\ PushTyped /\ LookedAt /\ [Next]_vars => LookedAt'
<1>. SUFFICES ASSUME TypeOK, PushTyped, LookedAt, [Next]_vars PROVE LookedAt'
  OBVIOUS
<1>a. sockets \in [Fd -> {"none", "http", "ws", "bye"}]
  BY DEF TypeOK
<1>b. push.at \in {"peek", "send"} => Here.fd \in Fd
  BY HereIsClient DEF PushTyped, Stages
<1>1. ASSUME NEW fd \in Fd, Accept(fd) PROVE LookedAt'
  BY <1>1, <1>a, <1>b DEF Accept, LookedAt, Here
<1>2. ASSUME NEW fd \in Fd, LastFrame(fd) \/ Disconnect(fd) \/ ServeClose(fd) PROVE LookedAt'
  BY <1>2, <1>a, <1>b DEF LastFrame, Disconnect, ServeClose, Closed, LookedAt, Here
<1>3. ASSUME NEW fd \in Fd, NEW token \in Token, Upgrade(fd, token) PROVE LookedAt'
  BY <1>3, <1>a, <1>b DEF Upgrade, LookedAt, Here
<1>4. CASE RefuseHandshake
  <2>1. http.fd \in Fd
    BY <1>4 DEF RefuseHandshake, Idle, TypeOK
  <2>. QED BY <1>4, <2>1, <1>a, <1>b DEF RefuseHandshake, Closed, LookedAt, Here
<1>5. CASE UNCHANGED <<sockets, taken, push>>
  BY <1>5 DEF LookedAt, Here
<1>6. CASE push'.at \notin {"peek", "send"}
  BY <1>6 DEF LookedAt
<1>7. CASE CheckSocket
  <2>1. Here' = Here /\ UNCHANGED sockets
    BY <1>7 DEF CheckSocket, Here, PushTyped
  <2>2. push'.at \in {"peek", "send"} => sockets[Here.fd] = "ws"
    BY <1>7 DEF CheckSocket, StillWebSocket, IsWebSocket, PushTyped
  <2>. QED BY <2>1, <2>2 DEF LookedAt
<1>8. CASE CheckSession
  <2>1. Here' = Here /\ UNCHANGED <<sockets, taken>> /\ push.at = "peek"
    BY <1>8 DEF CheckSession, Here, PushTyped
  <2>. QED BY <2>1 DEF LookedAt
<1>9. ASSUME NEW token \in Token, LogIn(token) \/ End(token)
      PROVE  UNCHANGED <<sockets, taken, push>>
  BY <1>9 DEF LogIn, End
<1>10. Record \/ UNCHANGED vars => UNCHANGED <<sockets, taken, push>>
  BY DEF Record, vars
<1>11. DropConnection \/ SendFails => push'.at \notin {"peek", "send"}
  BY DEF DropConnection, SendFails, PushTyped
<1>13. Snapshot \/ NoMemory => push'.at \notin {"peek", "send"}
  BY CopyTyped DEF TypeOK, Client
<1>12. SkipFree \/ RemoveClient \/ SendFrame => push'.at \notin {"peek", "send"}
  BY OnwardTyped, SlotsAssumption DEF SkipFree, RemoveClient, SendFrame, PushTyped, Slot
<1>. QED
  BY <1>1, <1>2, <1>3, <1>4, <1>5, <1>6, <1>7, <1>8, <1>9, <1>10, <1>11, <1>12, <1>13
     DEF Next, HttpTask, HttpFinishes, PushWalk

-----------------------------------------------------------------------------
(* The theorems. *)

\* No connection, no client, no session, and the push task asleep.
LEMMA InitIInv == Init => IInv
<1>. SUFFICES ASSUME Init PROVE IInv
  OBVIOUS
<1>1. push \in [at : Stages, slot : Slot, copy : [Slot -> Client], sent : 0 .. Slots]
      /\ push.at = "wait"
  BY SlotsAssumption DEF Init, Waiting, Slot, Client, Stages
<1>2. PushTyped
  BY <1>1 DEF PushTyped
<1>3. TypeOK
  <2>1. push.slot \in Slot /\ push.sent \in 0 .. Slots /\ opened \in 0 .. MaxConns
    BY <1>1, ConnsAssumption DEF Init
  <2>2. clients \in [Slot -> [fd : Fd, token : Token] \cup {FreeClient}]
    BY DEF Init
  <2>. QED BY <1>1, <2>1, <2>2 DEF Init, TypeOK
<1>4. RecordedOnce
  BY DEF Init, RecordedOnce, FreeClient
<1>5. LateFrames /\ LookedAt
  BY <1>1 DEF Init, LateFrames, LookedAt
<1>. QED BY <1>2, <1>3, <1>4, <1>5 DEF IInv

\* Table, frames and looks agree in every reachable state.
THEOREM InductiveInvariant == Spec => []IInv
<1>1. IInv /\ [Next]_vars => IInv'
  BY TypeStep, LateStep, LookedStep DEF IInv
<1>. QED BY InitIInv, <1>1, PTL DEF Spec

\* Every variable keeps its type, for every number of slots.
THEOREM TypeCorrect == Spec => []TypeOK
<1>1. IInv => TypeOK
  BY DEF IInv
<1>. QED BY InductiveInvariant, <1>1, PTL

\* However handshakes, removals and recycled descriptors interleave, a descriptor is
\* in one slot of the table, so that removing a client removes all of it.
THEOREM AlwaysRecordedOnce == Spec => []RecordedOnce
<1>1. IInv => RecordedOnce
  BY DEF IInv
<1>. QED BY InductiveInvariant, <1>1, PTL

\* Once a session has ended, at most the frame being sent at that moment goes out
\* under it, whatever the number of sockets it had opened.
THEOREM EndedStreamAlwaysStops == Spec => []EndedStreamStops
<1>1. IInv => EndedStreamStops
  BY DEF IInv, LateFrames, EndedStreamStops
<1>. QED BY InductiveInvariant, <1>1, PTL

\* A frame reaches a connection that is no WebSocket only if that connection took over
\* the descriptor after the push task had looked at it.
THEOREM FramesOnWebSocketsOnly == Spec => FrameOnWebSocketOnly
<1>1. IInv => [SendFrame => sockets[Here.fd] # "http" \/ taken]_vars
  BY DEF IInv, LookedAt, SendFrame
<1>. QED BY InductiveInvariant, <1>1, PTL DEF FrameOnWebSocketOnly
=============================================================================
