------------------------------ MODULE Realtime ------------------------------
(***************************************************************************)
(* The event feed of one project (realtime/manager.py and router.py): the   *)
(* task that tails a Redis stream, the list of WebSockets in the project's  *)
(* room, and the endpoint that serves each of them, all in one event loop.  *)
(* A broadcast walks the live list by index and yields at every send.       *)
(* The stream, its writers and the network are the environment's.           *)
(***************************************************************************)
EXTENDS Naturals, Sequences, SequencesExt

CONSTANTS
    Clients,      \* WebSocket connections to the project, each made once
    ReadCount,    \* count=10 of the XREAD
    MaxEntries    \* bound of the model: entries of the stream

VARIABLES
    stream,      \* the fields of the entries: "envelope" is the dispatcher's, "payload" what the tail looks for
    pointer,     \* streams[stream_name]: the last entry taken, 0 for "$"
    tail,        \* "idle", "reading" with an XREAD, "working", "sending" to target, or "stopped"
    since,       \* the entry after which the XREAD under way reads
    batch,       \* the messages it returned that are still to be taken
    target,      \* the connection the broadcast under way is sending to
    cursor,      \* how many elements its list iterator has handed out
    attached,    \* the list it walks is still the project's room
    dead,        \* dead_connections
    room,        \* active_connections[project_id], empty when there is none
    socket,      \* of each connection: "new", "open", "dropped" and not yet noticed, or "closed"
    delivered,   \* the entries sent to each connection, in order
    departed     \* a connection was removed from the room during the broadcast under way

tailVars == <<tail, since, batch, pointer>>
loop == <<target, cursor, attached, dead>>
vars == <<stream, tailVars, loop, room, socket, delivered, departed>>

Init ==
    /\ stream = <<>> /\ pointer = 0
    /\ tail = "idle" /\ since = 0 /\ batch = <<>>
    /\ target \in Clients /\ cursor = 0 /\ attached = FALSE /\ dead = {} /\ departed = FALSE
    /\ room = <<>> /\ socket = [c \in Clients |-> "new"]
    /\ delivered = [c \in Clients |-> <<>>]

Sending == tail = "sending"
Walked == IF attached THEN room ELSE <<>>    \* a list that was detached had been emptied

-----------------------------------------------------------------------------
\* The endpoint, after the token and the membership were accepted.
Connect(c) ==
    /\ socket[c] = "new"
    /\ socket' = [socket EXCEPT ![c] = "open"]
    /\ room' = Append(room, c)
    /\ UNCHANGED <<stream, tailVars, loop, delivered, departed>>

\* disconnect: remove from the list, and delete the room with its last connection.
Without(list, gone) ==
    LET kept[n \in 0..Len(list)] ==
          IF n = 0 THEN <<>>
          ELSE IF list[n] \in gone THEN kept[n - 1] ELSE Append(kept[n - 1], list[n])
    IN kept[Len(list)]

\* receive_text raises WebSocketDisconnect.
Leave(c) ==
    /\ socket[c] = "dropped"
    /\ socket' = [socket EXCEPT ![c] = "closed"]
    /\ room' = Without(room, {c})
    /\ attached' = (attached /\ room' # <<>>)
    /\ departed' = (departed \/ (Sending /\ room' # room))
    /\ UNCHANGED <<stream, tailVars, target, cursor, dead, delivered>>

-----------------------------------------------------------------------------
\* Variant: a failed read starts again from the end of the stream.
ReadFromEnd ==
    /\ tail = "idle"
    /\ tail' = "reading" /\ since' = Len(stream)
    /\ UNCHANGED <<stream, pointer, batch, loop, room, socket, delivered, departed>>

\* XREAD with "$" starts at what is the end when Redis gets the command.
Read ==
    /\ tail = "idle"
    /\ tail' = "reading"
    /\ since' = IF pointer = 0 THEN Len(stream) ELSE pointer
    /\ UNCHANGED <<stream, pointer, batch, loop, room, socket, delivered, departed>>

\* The oldest entries after `since', ReadCount of them at the most; an XREAD that
\* waits returns at the first, without those that come right after it.
Receive ==
    /\ tail = "reading" /\ Len(stream) > since
    /\ tail' = "working"
    /\ \E n \in 1..ReadCount :
          /\ n <= Len(stream) - since
          /\ batch' = [i \in 1..n |-> since + i]
    /\ UNCHANGED <<stream, since, pointer, loop, room, socket, delivered, departed>>

\* The second is over, or the connection to Redis is lost: read again.
ReadEnds ==
    /\ tail = "reading"
    /\ tail' = "idle"
    /\ UNCHANGED <<stream, since, batch, pointer, loop, room, socket, delivered, departed>>

BatchDone ==
    /\ tail = "working" /\ batch = <<>>
    /\ tail' = "idle"
    /\ UNCHANGED <<stream, since, batch, pointer, loop, room, socket, delivered, departed>>

\* The pointer moves before anything is done with the message.
Take == tail = "working" /\ batch # <<>> /\ pointer' = Head(batch) /\ batch' = Tail(batch)

\* The dispatcher's entries have no field "payload".
TakeUnread ==
    /\ Take /\ stream[Head(batch)] = "envelope"
    /\ UNCHANGED <<stream, tail, since, loop, room, socket, delivered, departed>>

\* The event names no task, or its project cannot be found.
TakeUnknown ==
    /\ Take /\ stream[Head(batch)] = "payload"
    /\ UNCHANGED <<stream, tail, since, loop, room, socket, delivered, departed>>

\* broadcast_to_project: what Python does between two sends is one step.
TakeAndBroadcast ==
    /\ Take /\ stream[Head(batch)] = "payload"
    /\ dead' = {} /\ departed' = FALSE
    /\ IF room = <<>>
       THEN UNCHANGED <<tail, target, cursor, attached>>
       ELSE tail' = "sending" /\ target' = Head(room) /\ cursor' = 1 /\ attached' = TRUE
    /\ UNCHANGED <<stream, since, room, socket, delivered>>

\* The iterator goes on in what is left of its list, or the dead are removed
\* from what is the room by now.
Onward ==
    IF cursor < Len(Walked)
    THEN /\ target' = Walked[cursor + 1] /\ cursor' = cursor + 1
         /\ UNCHANGED <<tail, room, attached>>
    ELSE /\ tail' = "working" /\ attached' = FALSE
         /\ room' = Without(room, dead')
         /\ UNCHANGED <<target, cursor>>

Send ==
    /\ Sending /\ socket[target] = "open"
    /\ delivered' = [delivered EXCEPT ![target] = Append(@, pointer)]
    /\ dead' = dead
    /\ Onward
    /\ UNCHANGED <<stream, since, batch, pointer, socket, departed>>

\* Variant: a dead connection is removed as soon as its send fails.
SendFailsAndCleans ==
    /\ Sending /\ socket[target] # "open"
    /\ dead' = dead /\ room' = Without(room, {target})
    /\ LET walked == IF attached THEN room' ELSE <<>> IN
       IF cursor < Len(walked)
       THEN target' = walked[cursor + 1] /\ cursor' = cursor + 1 /\ UNCHANGED <<tail, attached>>
       ELSE tail' = "working" /\ attached' = FALSE /\ UNCHANGED <<target, cursor>>
    /\ UNCHANGED <<stream, since, batch, pointer, socket, delivered, departed>>

\* A connection that was lost raises, or a buffer swallows the text.
SendFails ==
    /\ Sending /\ socket[target] # "open"
    /\ dead' \in {dead, dead \cup {target}}
    /\ Onward
    /\ UNCHANGED <<stream, since, batch, pointer, socket, delivered, departed>>

\* CancelledError, at whatever await: a broadcast ends without its clean-up.
Stop ==
    /\ tail # "stopped"
    /\ tail' = "stopped"
    /\ UNCHANGED <<stream, since, batch, pointer, loop, room, socket, delivered, departed>>

-----------------------------------------------------------------------------
Write ==
    /\ Len(stream) < MaxEntries
    /\ \E field \in {"envelope", "payload"} : stream' = Append(stream, field)
    /\ UNCHANGED <<tailVars, loop, room, socket, delivered, departed>>

Drop(c) ==
    /\ socket[c] = "open"
    /\ socket' = [socket EXCEPT ![c] = "dropped"]
    /\ UNCHANGED <<stream, tailVars, loop, room, delivered, departed>>

Next ==
    \/ Read \/ Receive \/ ReadEnds \/ BatchDone
    \/ TakeUnread \/ TakeUnknown \/ TakeAndBroadcast \/ Send \/ SendFails
    \/ Stop \/ Write
    \/ \E c \in Clients : Connect(c) \/ Leave(c) \/ Drop(c)

Spec == Init /\ [][Next]_vars

-----------------------------------------------------------------------------
TypeOK ==
    /\ stream \in Seq({"envelope", "payload"}) /\ pointer \in 0..Len(stream) /\ since \in 0..Len(stream)
    /\ tail \in {"idle", "reading", "working", "sending", "stopped"}
    /\ batch \in Seq(1..Len(stream)) /\ room \in Seq(Clients) /\ dead \subseteq Clients
    /\ target \in Clients /\ cursor \in 0..Len(room) + Cardinality(Clients)
    /\ attached \in BOOLEAN /\ departed \in BOOLEAN
    /\ socket \in [Clients -> {"new", "open", "dropped", "closed"}]
    /\ delivered \in [Clients -> Seq(1..Len(stream))]

(* A broadcast that nobody leaves reaches every connection that is open when   *)
(* it ends, those made while it was under way included: broadcast_to_project   *)
(* walks the live list, so neither it nor the broadcasts before it may have    *)
(* taken an open connection out of the room, or shortened the list before the  *)
(* end of the walk.                                                            *)
ReachesAll ==
    [][Sending /\ tail' = "working" /\ ~departed =>
         \A c \in Clients : socket[c] = "open" => pointer \in ToSet(delivered'[c])]_vars

(* From the first message on the tail takes every entry of the stream once and *)
(* in order, over reads that end empty or fail: "$" is followed by the id of   *)
(* the message, and the pointer is moved before the message is looked at.      *)
TailHasNoGap == [][pointer' # pointer /\ pointer # 0 => pointer' = pointer + 1]_vars

(* What the code does not do: an entry of the dispatcher that is taken while   *)
(* the project has connections is sent to them.                                *)
DispatchedIsSent ==
    [][pointer' # pointer /\ room # <<>> /\ stream[pointer'] = "envelope" => tail' = "sending"]_vars
=============================================================================
