------------------------------ MODULE LiveFeed ------------------------------
(***************************************************************************)
(* webserver.c: the WebSocket /live.  The HTTP server's task records every *)
(* accepted client in s_ws_clients, with the token its handshake showed.   *)
(* The push task copies that table every half second and then goes through *)
(* its copy without the lock: for each client it asks the server whether   *)
(* the descriptor is still a WebSocket, asks auth.c whether the session    *)
(* still lives, and sends.  Meanwhile sockets close and lwIP hands their   *)
(* descriptors to other connections; the table is not told.                *)
(*                                                                         *)
(* The HTTP server and its sockets are external.  Of auth.c only the fact  *)
(* its own module checks is used: a session that ended never comes back.   *)
(***************************************************************************)
EXTENDS Integers, FiniteSetsExt

CONSTANTS
  Slots,      \* NEXUS_WS_MAX_CLIENTS
  Fd,         \* descriptors the server can have open
  NoFd,       \* -1, the descriptor of a free slot
  Token,      \* session tokens auth.c may still issue
  NoToken,    \* the empty string, the token of a free slot
  MaxConns    \* bound of the model: connections opened

ASSUME SlotsAssumption == Slots \in Nat \ {0}
ASSUME ConnsAssumption == MaxConns \in Nat
ASSUME NamesAssumption == NoFd \notin Fd /\ NoToken \notin Token

VARIABLES
  sockets,   \* what the server has at each descriptor
  opened,    \* number of connections opened so far
  closing,   \* descriptors whose close the push task has queued with the server
  sessions,  \* state of each token in auth.c
  clients,   \* s_ws_clients
  http,      \* the handshake in progress in the HTTP task, or its absence
  push,      \* the push task: where it is, its copy of the table, the slot last sent to
  taken,     \* history: the descriptor got a new owner since the push task looked at it
  late       \* history: frames sent under each token after its session ended

vars == <<sockets, opened, closing, sessions, clients, http, push, taken, late>>

Slot == 1 .. Slots

FreeClient == [fd |-> NoFd, token |-> NoToken]
Quiet == [fd |-> NoFd, token |-> NoToken]
Waiting == [at |-> "wait", slot |-> 1, copy |-> [s \in Slot |-> FreeClient], sent |-> 0]

\* The client the push task is at.
Here == push.copy[push.slot]

IsOpen(fd) == sockets[fd] # "none"

\* httpd_ws_get_fd_info
IsWebSocket(fd) == sockets[fd] = "ws"

\* auth_peek_session: looks, and leaves the expiry alone.
Peek(token) == sessions[token] = "live"

Init ==
  /\ sockets = [fd \in Fd |-> "none"]
  /\ opened = 0
  /\ closing = {}
  /\ sessions = [t \in Token |-> "unissued"]
  /\ clients = [s \in Slot |-> FreeClient]
  /\ http = Quiet
  /\ push = Waiting
  /\ taken = FALSE
  /\ late = [t \in Token |-> 0]

-----------------------------------------------------------------------------
(* The table, each operation one critical section of s_ws_lock. *)

SlotsOf(fd) == {s \in Slot : clients[s].fd = fd}

\* ws_add_client: the descriptor's own slot, else the first free one, else
\* the client goes unrecorded.
SlotFor_FirstFree(fd) == SlotsOf(NoFd)  \* mutant: the own slot is not looked for
SlotFor(fd) == IF SlotsOf(fd) # {} THEN SlotsOf(fd) ELSE SlotsOf(NoFd)

Added(fd, token) ==
  IF SlotFor(fd) = {} THEN clients
  ELSE [clients EXCEPT ![Min(SlotFor(fd))] = [fd |-> fd, token |-> token]]

\* ws_remove_fd
Without(fd) == [s \in Slot |-> IF clients[s].fd = fd THEN FreeClient ELSE clients[s]]

-----------------------------------------------------------------------------
(* The HTTP server's task, which does one thing at a time. *)

Idle == http = Quiet

Closed(fd) == [sockets EXCEPT ![fd] = "none"]

Accept(fd) ==
  /\ Idle /\ ~IsOpen(fd) /\ opened < MaxConns
  /\ opened' = opened + 1
  /\ sockets' = [sockets EXCEPT ![fd] = "http"]
  /\ taken' = (taken \/ (push.at \in {"peek", "send"} /\ Here.fd = fd))
  /\ UNCHANGED <<closing, sessions, clients, http, push, late>>

\* An upgrade request.  The server has answered it, and counts the connection
\* as a WebSocket, before it calls h_ws, which validates the session; a
\* refusal closes the connection.  No cookie is as good as a token nobody issued.
Upgrade(fd, token) ==
  /\ Idle /\ sockets[fd] = "http"
  /\ http' = [fd |-> fd, token |-> token]
  /\ sockets' = [sockets EXCEPT ![fd] = "ws"]
  /\ UNCHANGED <<opened, closing, sessions, clients, push, taken, late>>

RefuseHandshake ==
  /\ ~Idle /\ ~Peek(http.token)
  /\ sockets' = Closed(http.fd)
  /\ http' = Quiet
  /\ UNCHANGED <<opened, closing, sessions, clients, push, taken, late>>

Record ==
  /\ ~Idle /\ Peek(http.token)
  /\ clients' = Added(http.fd, http.token)
  /\ http' = Quiet
  /\ UNCHANGED <<sockets, opened, closing, sessions, push, taken, late>>

\* A frame that is a CLOSE, is too large, or finds no memory: h_ws takes the
\* client off the table.  In the last two cases it also fails, and the server
\* closes the connection; after a CLOSE it is a WebSocket no
\* longer and is closed when the peer goes.
LastFrame(fd) ==
  /\ Idle /\ IsWebSocket(fd)
  /\ clients' = Without(fd)
  /\ \/ sockets' = Closed(fd)
     \/ sockets' = [sockets EXCEPT ![fd] = "bye"]
  /\ UNCHANGED <<opened, closing, sessions, http, push, taken, late>>

\* The peer goes away, a frame cannot be read, or the server needs the place
\* for somebody else: nobody tells the table.
Disconnect(fd) ==
  /\ Idle /\ IsOpen(fd)
  /\ sockets' = Closed(fd)
  /\ UNCHANGED <<opened, closing, sessions, clients, http, push, taken, late>>

\* A close queued by httpd_sess_trigger_close, on whatever has the
\* descriptor by then.
ServeClose(fd) ==
  /\ Idle /\ fd \in closing
  /\ closing' = closing \ {fd}
  /\ sockets' = Closed(fd)
  /\ UNCHANGED <<opened, sessions, clients, http, push, taken, late>>

LogIn(token) ==
  /\ Idle /\ sessions[token] = "unissued"
  /\ sessions' = [sessions EXCEPT ![token] = "live"]
  /\ UNCHANGED <<sockets, opened, closing, clients, http, push, taken, late>>

\* Logout, eviction by another login, or expiry.  A handshake has just renewed
\* the session it is about to record.
End(token) ==
  /\ sessions[token] = "live" /\ http.token # token
  /\ sessions' = [sessions EXCEPT ![token] = "ended"]
  /\ UNCHANGED <<sockets, opened, closing, clients, http, push, taken, late>>

-----------------------------------------------------------------------------
(* ws_push_task. *)

LastSlot_OneLess == Slots - 1  \* mutant: the last client is never served
LastSlot == Slots

\* The next position of the walk through the copy, whose passed entries nothing
\* reads again; past the last one the task sleeps.
Onward(sent) ==
  /\ IF push.slot < LastSlot
     THEN push' = [push EXCEPT !.at = "check", !.slot = @ + 1,
                               !.copy[push.slot] = FreeClient, !.sent = sent]
     ELSE push' = [Waiting EXCEPT !.sent = sent]
  /\ taken' = FALSE

\* The copy, taken under the lock; with no client in it, or without memory for
\* the message, the task goes back to sleep.
Snapshot ==
  /\ push.at = "wait" /\ SlotsOf(NoFd) # Slot
  /\ push' = [Waiting EXCEPT !.at = "check", !.copy = clients]
  /\ UNCHANGED <<sockets, opened, closing, sessions, clients, http, taken, late>>

NoMemory ==
  /\ push.at = "wait"
  /\ push' = Waiting
  /\ UNCHANGED <<sockets, opened, closing, sessions, clients, http, taken, late>>

SkipFree ==
  /\ push.at = "check" /\ Here.fd = NoFd
  /\ Onward(push.sent)
  /\ UNCHANGED <<sockets, opened, closing, sessions, clients, http, late>>

StillWebSocket_Unasked(fd) == TRUE  \* mutant: the descriptor is taken on trust
StillWebSocket(fd) == IsWebSocket(fd)

CheckSocket ==
  /\ push.at = "check" /\ Here.fd # NoFd
  /\ push' = [push EXCEPT !.at = IF StillWebSocket(Here.fd) THEN "peek" ELSE "remove"]
  /\ UNCHANGED <<sockets, opened, closing, sessions, clients, http, taken, late>>

StillLoggedIn_Unasked(token) == TRUE  \* mutant: a session is checked at the handshake only
StillLoggedIn(token) == Peek(token)

CheckSession ==
  /\ push.at = "peek"
  /\ push' = [push EXCEPT !.at = IF StillLoggedIn(Here.token) THEN "send" ELSE "drop"]
  /\ UNCHANGED <<sockets, opened, closing, sessions, clients, http, taken, late>>

\* httpd_sess_trigger_close finds the connection by its descriptor.
DropConnection ==
  /\ push.at = "drop"
  /\ closing' = IF IsOpen(Here.fd) THEN closing \cup {Here.fd} ELSE closing
  /\ push' = [push EXCEPT !.at = "remove"]
  /\ UNCHANGED <<sockets, opened, sessions, clients, http, taken, late>>

RemoveClient_Forgotten ==  \* mutant: the client is skipped, not removed
  /\ push.at = "remove"
  /\ Onward(push.sent)
  /\ UNCHANGED <<sockets, opened, closing, sessions, clients, http, late>>
RemoveClient ==
  /\ push.at = "remove"
  /\ clients' = Without(Here.fd)
  /\ Onward(push.sent)
  /\ UNCHANGED <<sockets, opened, closing, sessions, http, late>>

\* A frame goes to whatever connection has the descriptor now; when there is
\* none, or sending fails, the client is removed.
SendFrame ==
  /\ push.at = "send" /\ IsOpen(Here.fd)
  /\ late' = IF Peek(Here.token) THEN late ELSE [late EXCEPT ![Here.token] = @ + 1]
  /\ Onward(push.slot)
  /\ UNCHANGED <<sockets, opened, closing, sessions, clients, http>>

SendFails ==
  /\ push.at = "send"
  /\ push' = [push EXCEPT !.at = "remove"]
  /\ UNCHANGED <<sockets, opened, closing, sessions, clients, http, taken, late>>

-----------------------------------------------------------------------------

HttpTask ==
  \/ \E fd \in Fd : Accept(fd) \/ LastFrame(fd) \/ Disconnect(fd)
  \/ \E fd \in Fd, token \in Token : Upgrade(fd, token)
  \/ \E token \in Token : LogIn(token)

\* What the HTTP task owes once it has begun it.
HttpFinishes == RefuseHandshake \/ Record \/ \E fd \in Fd : ServeClose(fd)

PushWalk ==
  \/ SkipFree \/ CheckSocket \/ CheckSession \/ DropConnection \/ RemoveClient
  \/ SendFrame \/ SendFails

Next ==
  \/ HttpTask \/ HttpFinishes
  \/ \E token \in Token : End(token)
  \/ Snapshot \/ NoMemory \/ PushWalk

Spec == Init /\ [][Next]_vars

\* The tasks keep running.  Memory for the message is not missing for ever,
\* hence the strong fairness of a cycle that gets its copy.
FairSpec ==
  /\ Spec
  /\ WF_vars(HttpFinishes) /\ WF_vars(PushWalk) /\ SF_vars(Snapshot)

-----------------------------------------------------------------------------
(* Properties. *)

\* Every variable keeps its type.
TypeOK ==
  /\ sockets \in [Fd -> {"none", "http", "ws", "bye"}]
  /\ opened \in 0 .. MaxConns
  /\ closing \subseteq Fd
  /\ sessions \in [Token -> {"unissued", "live", "ended"}]
  /\ clients \in [Slot -> [fd : Fd, token : Token] \cup {FreeClient}]
  /\ http \in [fd : Fd, token : Token] \cup {Quiet}
  /\ push.at \in {"wait", "check", "peek", "drop", "remove", "send"}
  /\ push.slot \in Slot /\ push.sent \in 0 .. Slots
  /\ taken \in BOOLEAN

\* A descriptor is recorded in one slot, whatever connections and disconnections
\* came before: a second slot would outlive the removal of the first, and serve
\* the next connection that is given the descriptor under the old session.
RecordedOnce ==
  \A s, u \in Slot : clients[s].fd = clients[u].fd /\ clients[s].fd # NoFd => s = u

\* "Logging out or letting the TTL lapse actually stops the stream": once a
\* session has ended, at most the one frame being sent at that moment still
\* goes out under it, however many sockets the session had opened.
EndedStreamStops == \A t \in Token : late[t] <= 1

\* A descriptor recycled before the push task looked at it is never written to:
\* a connection that is no WebSocket gets a frame only if it took over the
\* descriptor after that look, in this very cycle.
FrameOnWebSocketOnly ==
  [][SendFrame => sockets[Here.fd] # "http" \/ taken]_vars

\* "Dead sockets are reaped automatically": a client whose session has ended
\* does not stay in the table, whatever becomes of its descriptor.
EndedReaped ==
  \A t \in Token : (sessions[t] = "ended") ~> ~\E s \in Slot : clients[s].token = t

\* A client that stays connected, logged in and recorded is sent frames again
\* and again, whichever slot it has and whatever becomes of the other clients.
Served(s) == clients[s].fd # NoFd /\ IsWebSocket(clients[s].fd) /\ Peek(clients[s].token)
RecordedIsServed == \A s \in Slot : <>[]Served(s) => []<>(push.sent = s)

\* "Every NEXUS_WS_PUSH_INTERVAL_MS the server sends one text frame": an open
\* socket is in the table, hence served, again and again.  The code violates it:
\* a client that found no free slot, one send to which failed, or one removed by
\* a decision about the descriptor's last owner keeps an open socket without
\* frames, and the dashboard polls only while its socket is not open (app.js).
Forsaken(fd) == Idle /\ IsWebSocket(fd) /\ SlotsOf(fd) = {}
OpenSocketIsServed == \A fd \in Fd : []<>~Forsaken(fd)

=============================================================================
