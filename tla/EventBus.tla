------------------------------- MODULE EventBus -------------------------------
(***************************************************************************)
(* api/websocket.py and api/events.py: DEM events and the ECU state are    *)
(* pushed to the connected WebSocket clients.  Every request handler       *)
(* awaits broadcast_updates after its work, and each client's own          *)
(* ws_events handler begins by broadcasting the ECU state.                 *)
(*                                                                         *)
(* All handlers run on one event loop: code between two awaits is one      *)
(* atomic step.  The await that may suspend a broadcast is send_text, and  *)
(* while it is suspended other handlers connect, disconnect or broadcast.  *)
(* broadcast walks the live list self._connections by position, as         *)
(* Python's list iterator does, and no copy of it.                         *)
(***************************************************************************)
EXTENDS Naturals, Sequences, SequencesExt

CONSTANTS Client,    \* WebSockets; each connects at most once
          Handler,   \* request handlers; each serves one request
          MaxEvents  \* bound: DEM events logged

ASSUME EventBusAssumption ==
  /\ MaxEvents \in Nat
  /\ Client \cap Handler = {} \* ws_events is no request handler

Task == Client \cup Handler

VARIABLES
  connections, \* ConnectionManager._connections
  peer,        \* the client's end of the socket: "new", "open" or "closed"
  logged,      \* DEM events in the log
  cursor,      \* AppState._broadcast_index
  status,      \* "idle", "sending", "receiving", "done" or "failed"
  pending,     \* the payloads a task has yet to finish, the current one first
  position,    \* entries of _connections the current loop has gone through
  awaited,     \* the client of a suspended send that may yet raise, if any
  dead,        \* the current loop's list of clients whose send raised
  received,    \* history: the DEM events each client was sent
  shown        \* history: the ECU state each client was sent last

taskVars == <<status, pending, position, awaited, dead>>
vars == <<connections, peer, logged, cursor, taskVars, received, shown>>

(* A DEM event is its position in the log.  The ECU state is what the log so
   far has made it: get_status is dated by the number of events logged. *)
Event(n) == [type |-> "dem_event", n |-> n]
EcuState(n) == [type |-> "ecu_state", n |-> n]
Payload == [type : {"dem_event", "ecu_state"}, n : Nat]
NoState == [type |-> "none", n |-> 0]

Init ==
  /\ connections = << >>
  /\ peer = [c \in Client |-> "new"]
  /\ logged = 0 /\ cursor = 0
  /\ status = [t \in Task |-> "idle"]
  /\ pending = [t \in Task |-> << >>]
  /\ position = [t \in Task |-> 0]
  /\ awaited = [t \in Task |-> {}]
  /\ dead = [t \in Task |-> << >>]
  /\ received = [c \in Client |-> << >>]
  /\ shown = [c \in Client |-> NoState]
-----------------------------------------------------------------------------
(* `await ws.send_text(message)` for the entry after the position reached so
   far: a closed socket raises and is noted in dead, an open one may raise
   after all if it is closed meanwhile (Noted).  Suspended either way. *)
SendNext(t, list, reached, deadSoFar) ==
  LET c == list[reached + 1]
      payload == Head(pending'[t])
  IN  /\ status' = [status EXCEPT ![t] = "sending"]
      /\ position' = [position EXCEPT ![t] = reached + 1]
      /\ \/ /\ peer'[c] = "open"
            /\ IF payload.type = "dem_event"
               THEN /\ received' = [received EXCEPT ![c] = Append(@, payload)]
                    /\ UNCHANGED shown
               ELSE /\ shown' = [shown EXCEPT ![c] = payload]
                    /\ UNCHANGED received
            /\ awaited' = [awaited EXCEPT ![t] = {c}]
            /\ dead' = [dead EXCEPT ![t] = deadSoFar]
         \/ /\ peer'[c] # "open"
            /\ awaited' = [awaited EXCEPT ![t] = {}]
            /\ dead' = [dead EXCEPT ![t] = Append(deadSoFar, c)]
            /\ UNCHANGED <<received, shown>>

(* What the loop has noted when it is resumed: a send whose client went away
   while it was suspended (under back-pressure, say) has raised, or not. *)
Noted(t) ==
  {dead[t]} \cup {Append(dead[t], c) : c \in {d \in awaited[t] : peer[d] = "closed"}}

(* The task has no send to wait for: a request handler answers, a client's
   handler waits for the client, and a raised ValueError ends either. *)
Settle(t, outcome) ==
  /\ status' = [status EXCEPT ![t] = outcome]
  /\ pending' = [pending EXCEPT ![t] = << >>]
  /\ position' = [position EXCEPT ![t] = 0]
  /\ awaited' = [awaited EXCEPT ![t] = {}]
  /\ dead' = [dead EXCEPT ![t] = << >>]
  /\ UNCHANGED <<received, shown>>

Finished(t) == IF t \in Client THEN "receiving" ELSE "done"

(* get_status is evaluated when the broadcast of the state begins. *)
Dated(payloads) ==
  IF Head(payloads).type = "ecu_state" THEN <<EcuState(logged')>> ELSE payloads

(* broadcast, for each payload, up to the first await: with nobody connected
   there is none, and the task runs through. *)
Broadcast(t, list, payloads) ==
  IF list = << >> \/ payloads = << >>
  THEN Settle(t, Finished(t))
  ELSE /\ pending' = [pending EXCEPT ![t] = Dated(payloads)]
       /\ SendNext(t, list, 0, << >>)

(* Mutations: the cursor is read but not advanced; it is one too far. *)
new_dem_eventsKept == UNCHANGED cursor
new_dem_eventsAhead == cursor' = logged' + 1

(* new_dem_events: the events past the cursor, which moves to the end of the
   log before any of them is sent. *)
new_dem_events == cursor' = logged'

(* A request handler's work logs n events; it then calls broadcast_updates. *)
broadcast_updates(h, n) ==
  /\ status[h] = "idle"
  /\ logged' = logged + n
  /\ new_dem_events
  /\ UNCHANGED <<connections, peer>>
  /\ Broadcast(h, connections,
               Append([i \in 1 .. logged' - cursor |-> Event(cursor + i)], EcuState(0)))

(* connect: the accepted client joins the list, and its handler broadcasts
   the ECU state to everybody. *)
connect(c) ==
  /\ peer[c] = "new"
  /\ peer' = [peer EXCEPT ![c] = "open"]
  /\ connections' = Append(connections, c)
  /\ UNCHANGED <<logged, cursor>>
  /\ Broadcast(c, connections', <<EcuState(0)>>)

(* Mutation: the loop does not get past an entry. *)
SendOnStuck(t) ==
  /\ status[t] = "sending"
  /\ position[t] < Len(connections)
  /\ UNCHANGED <<connections, peer, logged, cursor, pending>>
  /\ SendNext(t, connections, position[t] - 1, << >>)

(* The loop goes on with the next entry of the list as it is now. *)
SendOn(t) ==
  /\ status[t] = "sending"
  /\ position[t] < Len(connections)
  /\ UNCHANGED <<connections, peer, logged, cursor, pending>>
  /\ \E noted \in Noted(t) : SendNext(t, connections, position[t], noted)

(* Mutation: as many entries go as sends failed, from the end of the list. *)
WithoutLast(list, gone) == SubSeq(list, 1, Len(list) - Len(gone))

(* list.remove: the entry goes and those behind it move up.  No client is on
   the list twice (TypeOK), and a missing one raises ValueError. *)
remove(list, c) ==
  IF Contains(list, c)
  THEN LET at == CHOOSE i \in DOMAIN list : list[i] = c
       IN  [i \in 1 .. Len(list) - 1 |-> list[IF i < at THEN i ELSE i + 1]]
  ELSE list

(* `for ws in dead: self._connections.remove(ws)`. *)
Without(list, gone) ==
  LET without[k \in 0 .. Len(gone)] ==
        IF k = 0 THEN list ELSE remove(without[k - 1], gone[k])
  IN  without[Len(gone)]

(* The loop has reached the end of the list: the dead are removed one by one
   and the next payload's broadcast begins.  list.remove raises ValueError
   for a client another task has removed meanwhile; a ws_events handler that
   ends this way takes its socket with it. *)
EndLoop(t) ==
  /\ status[t] = "sending"
  /\ position[t] >= Len(connections)
  /\ UNCHANGED <<logged, cursor>>
  /\ \E noted \in Noted(t) :
       LET missing == SelectInSeq(noted, LAMBDA c : ~Contains(connections, c))
       IN  IF missing = 0
           THEN /\ connections' = Without(connections, noted)
                /\ UNCHANGED peer
                /\ Broadcast(t, connections', Tail(pending[t]))
           ELSE /\ connections' = Without(connections, SubSeq(noted, 1, missing - 1))
                /\ peer' = [c \in Client |-> IF c = t THEN "closed" ELSE peer[c]]
                /\ Settle(t, "failed")

(* The client goes away. *)
PeerCloses(c) ==
  /\ peer[c] = "open"
  /\ peer' = [peer EXCEPT ![c] = "closed"]
  /\ UNCHANGED <<connections, logged, cursor, taskVars, received, shown>>

(* Mutation: the client is left in the list. *)
disconnectOnly(c) ==
  /\ status[c] = "receiving" /\ peer[c] = "closed"
  /\ status' = [status EXCEPT ![c] = "done"]
  /\ UNCHANGED <<connections, peer, logged, cursor, pending, position, awaited, dead, received, shown>>

(* receive_text raises WebSocketDisconnect and the handler removes the client,
   with a ValueError if a broadcast has removed it already. *)
disconnect(c) ==
  /\ status[c] = "receiving" /\ peer[c] = "closed"
  /\ connections' = remove(connections, c)
  /\ status' = [status EXCEPT ![c] = IF Contains(connections, c) THEN "done" ELSE "failed"]
  /\ UNCHANGED <<peer, logged, cursor, pending, position, awaited, dead, received, shown>>

Resume(t) == SendOn(t) \/ EndLoop(t)

Next ==
  \/ \E h \in Handler, n \in 0 .. MaxEvents - logged : broadcast_updates(h, n)
  \/ \E c \in Client : connect(c) \/ PeerCloses(c) \/ disconnect(c)
  \/ \E t \in Task : Resume(t)

(* The event loop resumes every task whose await is over. *)
Spec == /\ Init /\ [][Next]_vars
        /\ \A t \in Task : WF_vars(Resume(t))
        /\ \A c \in Client : WF_vars(disconnect(c))
-----------------------------------------------------------------------------
(* Type invariant. *)
TypeOK ==
  /\ connections \in Seq(Client) /\ IsInjective(connections)
  /\ peer \in [Client -> {"new", "open", "closed"}]
  /\ logged \in 0 .. MaxEvents /\ cursor \in 0 .. logged
  /\ status \in [Task -> {"idle", "sending", "receiving", "done", "failed"}]
  /\ pending \in [Task -> Seq(Payload)]
  /\ position \in [Task -> Nat]
  /\ awaited \in [Task -> SUBSET Client]
  /\ dead \in [Task -> Seq(Client)]
  /\ received \in [Client -> Seq(Payload)]
  /\ shown \in [Client -> Payload \cup {NoState}]

(* However the broadcasts of several requests overlap, no client is sent the
   same DEM event twice (the cursor hands each event to one broadcast). *)
EventSentOnce ==
  \A c \in Client : \A i, j \in DOMAIN received[c] :
    received[c][i] = received[c][j] => i = j

(* A client that is still there stays registered: the removals of dead
   clients, made by several tasks after suspended sends, never hit it. *)
OpenStaysRegistered ==
  \A c \in Client : peer[c] = "open" => Contains(connections, c)

(* A registered client that has gone is one whose own handler has yet to
   notice or has died of a ValueError before it could. *)
NoGhosts ==
  \A c \in Client :
    Contains(connections, c) /\ peer[c] = "closed"
      => status[c] \in {"sending", "receiving", "failed"}

(* Every broadcast ends, although the list it walks grows under it and others
   overlap: again and again there is none under way. *)
BroadcastsEnd == []<>(\A t \in Task : status[t] # "sending")

(* When the loop that sends a DEM event ends, every connected client that was
   there before the event (it has been shown an older state) has been sent it:
   "Send JSON payload to all connected clients" (api/websocket.py). *)
EveryClientServed ==
  [][\A t \in Task :
       LET event == Head(pending[t])
       IN  status[t] = "sending" /\ position[t] >= Len(connections) /\ event.type = "dem_event"
             => \A c \in Client :
                  peer[c] = "open" /\ shown[c].type = "ecu_state" /\ shown[c].n < event.n
                    => Contains(received[c], event)]_vars
=============================================================================
