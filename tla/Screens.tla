------------------------------ MODULE Screens ------------------------------
(***************************************************************************)
(* What the desktop client has on the screen: which components are mounted *)
(* and which toasts are shown.  add_toast starts a task that takes the     *)
(* toast away after four seconds.  The task belongs to the component whose *)
(* handler called add_toast, and dioxus drops it with that component: the  *)
(* poller's belong to App, which stays for ever, the others to parts of    *)
(* the screen that come and go.                                            *)
(*                                                                         *)
(* Every handler ends before the next one begins, and the screen is drawn  *)
(* anew in between, so an action is a handler with the drawing after it.   *)
(* Events of the server come as ChatClient says; here they may come at any *)
(* time once Connect was clicked.  Names, messages and commands are left   *)
(* to ChatClient; two rooms of the list with one id share a component.     *)
(***************************************************************************)
EXTENDS Naturals, Sequences, FiniteSets, Retain

CONSTANTS
    RoomIds,      \* ids that rooms may get
    NoRoom,       \* active_room_id is None
    MaxRooms,     \* bound: rooms in the list
    MaxToasts     \* bound: toasts that are ever raised

ASSUME ScreensAssumption ==
    /\ NoRoom \notin RoomIds
    /\ MaxRooms \in Nat /\ MaxToasts \in Nat

VARIABLES
    status,          \* connection_status
    linked,          \* event_rx is set
    error_msg,       \* TRUE: ConnectScreen says that the port is invalid
    rooms,           \* the ids of the rooms of the list
    active,          \* active_room_id
    toasts,          \* toasts; field by is history: who raised it
    toast_counter,   \* toast_counter
    timers           \* the tasks that wait to take a toast away

vars == <<status, linked, error_msg, rooms, active, toasts, toast_counter, timers>>

ListedIds == {rooms[i] : i \in 1..Len(rooms)}

\* A component that raises toasts; a RoomItem has the room's id for its key.
Component(name) == [name |-> name, key |-> NoRoom]
RoomItem(id) == [name |-> "RoomItem", key |-> id]
Components ==
    {Component(n) : n \in {"App", "CreateRoomSection", "SubscribeRoomSection", "ChatHeader"}}
        \cup {RoomItem(id) : id \in RoomIds}

Toasts == [id : 0..MaxToasts, by : Components]

TypeOK ==
    /\ status \in {"disconnected", "connecting", "connected"}
    /\ linked \in BOOLEAN
    /\ error_msg \in BOOLEAN
    /\ rooms \in Seq(RoomIds)
    /\ active \in RoomIds \cup {NoRoom}
    /\ toasts \in Seq(Toasts)
    /\ toast_counter \in 0..MaxToasts
    /\ timers \subseteq Toasts

Init ==
    /\ status = "disconnected"
    /\ linked = FALSE
    /\ error_msg = FALSE
    /\ rooms = <<>>
    /\ active = NoRoom
    /\ toasts = <<>>
    /\ toast_counter = 0
    /\ timers = {}
-----------------------------------------------------------------------------
(* What is mounted *)

Sidebar ==
    {Component("CreateRoomSection"), Component("SubscribeRoomSection")}
        \cup {RoomItem(id) : id \in ListedIds}

\* The header of the first room with the active id; it is not keyed.
ChatPanel == IF active \in ListedIds THEN {Component("ChatHeader")} ELSE {}

Mounted ==
    {Component("App")} \cup (IF status = "connected" THEN Sidebar \cup ChatPanel ELSE {})

\* The screen is drawn anew: a component that is not on it any more goes, and
\* with it the tasks that it spawned.
Draw(tasks) == timers' = {t \in tasks : t.by \in Mounted'}
-----------------------------------------------------------------------------
(* add_toast *)

\* Mutant: the counter is incremented twice.
CountedTwice == toast_counter + 2

\* Mutant: the counter is not incremented.
NotCounted == toast_counter

Counted == toast_counter + 1

\* Mutant: nobody takes the toast away.
NotScheduled(toast) == {}

Scheduled(toast) == {toast}

AddToast(by) ==
    LET toast == [id |-> toast_counter, by |-> by]
    IN  /\ toast_counter < MaxToasts
        /\ toast_counter' = Counted
        /\ toasts' = Append(toasts, toast)
        /\ Draw(timers \cup Scheduled(toast))

NoToast == UNCHANGED <<toasts, toast_counter>> /\ Draw(timers)

\* Four seconds are over.
Expire(id) ==
    /\ \E t \in timers : t.id = id
    /\ toasts' = Retained(toasts, {i \in 1..Len(toasts) : toasts[i].id # id})
    /\ timers' = {t \in timers : t.id # id}
    /\ UNCHANGED <<status, linked, error_msg, rooms, active, toast_counter>>
-----------------------------------------------------------------------------
(* The screen without a connection *)

InvalidPort ==
    /\ status = "disconnected"
    /\ error_msg' = TRUE
    /\ UNCHANGED <<status, linked, rooms, active>>
    /\ NoToast

Connect ==
    /\ status = "disconnected"
    /\ error_msg' = FALSE
    /\ status' = "connecting"
    /\ rooms' = <<>>
    /\ active' = NoRoom
    /\ linked' = TRUE
    /\ NoToast
-----------------------------------------------------------------------------
(* The screen with a connection *)

Click == status = "connected" /\ UNCHANGED <<status, linked, error_msg>>

\* A name was typed; the id is the largest of the list and one.
DoCreate(id) ==
    /\ Click
    /\ id \notin ListedIds
    /\ Len(rooms) < MaxRooms
    /\ rooms' = Append(rooms, id)
    /\ UNCHANGED active
    /\ AddToast(Component("CreateRoomSection"))

\* What was typed is no number, or the id of a room of the list ...
SubscribeRefused ==
    /\ Click
    /\ UNCHANGED <<rooms, active>>
    /\ AddToast(Component("SubscribeRoomSection"))

\* ... or the id of another room.
DoSubscribe(id) ==
    /\ Click
    /\ id \notin ListedIds
    /\ Len(rooms) < MaxRooms
    /\ rooms' = Append(rooms, id)
    /\ UNCHANGED active
    /\ AddToast(Component("SubscribeRoomSection"))

Select(id) ==
    /\ Click
    /\ id \in ListedIds
    /\ active' = id
    /\ UNCHANGED rooms
    /\ NoToast

\* rooms.write().retain(|rm| rm.id != room_id)
RetainOthers(id) == rooms' = Retained(rooms, {i \in 1..Len(rooms) : rooms[i] # id})

Unsubscribe(id) ==
    /\ Click
    /\ id \in ListedIds
    /\ RetainOthers(id)
    /\ active' = IF active = id THEN NoRoom ELSE active
    /\ AddToast(RoomItem(id))

\* The button of ChatHeader.
UnsubscribeActive ==
    /\ Click
    /\ active \in ListedIds
    /\ RetainOthers(active)
    /\ active' = NoRoom
    /\ AddToast(Component("ChatHeader"))

\* ConnectScreen is mounted anew; Connect had cleared its error_msg.
Disconnect ==
    /\ status = "connected"
    /\ status' = "disconnected"
    /\ UNCHANGED <<linked, error_msg, rooms, active>>
    /\ NoToast

User ==
    \/ InvalidPort \/ Connect
    \/ \E id \in RoomIds : DoCreate(id) \/ DoSubscribe(id) \/ Select(id) \/ Unsubscribe(id)
    \/ SubscribeRefused \/ UnsubscribeActive \/ Disconnect
-----------------------------------------------------------------------------
(* The event poller, which is App's *)

PollConnected ==
    /\ linked
    /\ status = "connecting"
    /\ status' = "connected"
    /\ UNCHANGED <<linked, error_msg, rooms, active>>
    /\ AddToast(Component("App"))

PollError ==
    /\ linked
    /\ UNCHANGED <<status, linked, error_msg, rooms, active>>
    /\ AddToast(Component("App"))

PollDisconnected ==
    /\ linked
    /\ status' = "disconnected"
    /\ UNCHANGED <<linked, error_msg, rooms, active>>
    /\ AddToast(Component("App"))

\* csub_ok: a room of the list gets another id, and its RoomItem another key.
PollConfirmed(i, id) ==
    /\ linked
    /\ rooms' = [rooms EXCEPT ![i] = id]
    /\ active' = IF active = rooms[i] THEN id ELSE active
    /\ UNCHANGED <<status, linked, error_msg>>
    /\ NoToast

Poll ==
    \/ PollConnected \/ PollError \/ PollDisconnected
    \/ \E i \in 1..Len(rooms), id \in RoomIds : PollConfirmed(i, id)
-----------------------------------------------------------------------------
Next == User \/ Poll \/ \E id \in 0..(MaxToasts - 1) : Expire(id)

Spec == Init /\ [][Next]_vars

\* A task that sleeps for four seconds wakes up; nothing else has to happen.
FairSpec == Spec /\ \A id \in 0..(MaxToasts - 1) : WF_vars(Expire(id))
-----------------------------------------------------------------------------
(* Properties *)

\* What ToastContainer draws: one element for each toast, with its id for key.
ToastContainer == {toasts[i].id : i \in 1..Len(toasts)}

\* No two toasts are drawn under one key, and a timer that is running waits for
\* a toast that is on the screen: it takes away that one and no other.
ToastsKeyed ==
    /\ Cardinality(ToastContainer) = Len(toasts)
    /\ Cardinality(timers) = Cardinality({t.id : t \in timers})
    /\ \A t \in timers : t.id \in ToastContainer

Showing(id, by) == \E i \in 1..Len(toasts) : toasts[i] = [id |-> id, by |-> by]

\* A toast that never goes away outlived the component that raised it: what
\* the poller raises always goes, and what a section of the sidebar raises does
\* unless the client is disconnected while it is shown.
ToastsOfMountedVanish ==
    \A id \in 0..(MaxToasts - 1) : \A by \in Components :
        <>[]Showing(id, by) => <>(Showing(id, by) /\ by \notin Mounted)

\* Every toast goes away by itself.
ToastsVanish ==
    \A id \in 0..(MaxToasts - 1) : \A by \in Components :
        Showing(id, by) ~> ~Showing(id, by)
=============================================================================
