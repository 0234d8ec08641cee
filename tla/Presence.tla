------------------------------ MODULE Presence ------------------------------
(***************************************************************************)
(* Who is online, in Redis: the hash user:status:<id> counts the open      *)
(* connections of a user, in all and per kind of device.  Connecting and   *)
(* disconnecting each take three commands that others interleave with, and *)
(* the handlers of one user's sockets do not wait for each other.          *)
(***************************************************************************)
EXTENDS FiniteSetsExt, Integers

CONSTANTS
    Users, Sockets, Devices,
    Owner,        \* [Sockets -> Users], from the handshake
    DeviceOf,     \* [Sockets -> Devices], from the handshake
    Overlaps,     \* whether handlers of one user may overlap
    MaxMishaps    \* failing commands and restarts, together

ASSUME PresenceAssumption ==
    /\ Owner \in [Sockets -> Users]
    /\ DeviceOf \in [Sockets -> Devices]
    /\ Overlaps \in BOOLEAN
    /\ MaxMishaps \in Nat
    /\ IsFiniteSet(Sockets)

VARIABLES
    open,       \* sockets that are connected and in their user's room
    up,         \* handleConnection of each socket
    down,       \* handleDisconnect of each socket, with the counts it got
    presence,   \* the Redis hashes
    disturbed,  \* history: users with overlapping handlers or a mishap so far
    mishaps     \* history: how many commands failed or restarts happened

pvars == <<open, up, down, presence, disturbed, mishaps>>

Ended == [pc |-> "done", left |-> 0, onDevice |-> 0]
Gone == [online |-> FALSE, count |-> 0, device |-> [d \in Devices |-> 0]]

PInit ==
    /\ open = {}
    /\ up = [k \in Sockets |-> "done"]
    /\ down = [k \in Sockets |-> Ended]
    /\ presence = [u \in Users |-> Gone]
    /\ disturbed = {}
    /\ mishaps = 0

-----------------------------------------------------------------------------
Handling(u) == {k \in Sockets : Owner[k] = u /\ (up[k] # "done" \/ down[k].pc # "done")}
OpenOf(u) == {k \in open : Owner[k] = u}
OpenOn(u, d) == {k \in OpenOf(u) : DeviceOf[k] = d}

\* A handler starts, maybe while another one of its user runs.
HandlerStarts(k) ==
    /\ Overlaps \/ Handling(Owner[k]) = {}
    /\ disturbed' = IF Handling(Owner[k]) = {} THEN disturbed
                                             ELSE disturbed \cup {Owner[k]}

-----------------------------------------------------------------------------
(* handleConnection: the room is joined at once, the hash written later.   *)

Connects(k) ==
    /\ k \notin open
    /\ up[k] = "done" /\ down[k].pc = "done"
    /\ open' = open \cup {k}
    /\ up' = [up EXCEPT ![k] = "count"]
    /\ HandlerStarts(k)
    /\ UNCHANGED <<down, presence, mishaps>>

CountsUp(k) ==
    /\ up[k] = "count"
    /\ presence' = [presence EXCEPT ![Owner[k]].count = @ + 1]
    /\ up' = [up EXCEPT ![k] = "device"]
    /\ UNCHANGED <<open, down, disturbed, mishaps>>

CountsDeviceUp(k) ==
    /\ up[k] = "device"
    /\ presence' = [presence EXCEPT ![Owner[k]].device[DeviceOf[k]] = @ + 1]
    /\ up' = [up EXCEPT ![k] = "online"]
    /\ UNCHANGED <<open, down, disturbed, mishaps>>

WritesOnline(k) ==
    /\ up[k] = "online"
    /\ presence' = [presence EXCEPT ![Owner[k]].online = TRUE]
    /\ up' = [up EXCEPT ![k] = "done"]
    /\ UNCHANGED <<open, down, disturbed, mishaps>>

-----------------------------------------------------------------------------
(* handleDisconnect, which may begin before handleConnection has ended.    *)

Disconnects(k) ==
    /\ k \in open
    /\ open' = open \ {k}
    /\ down' = [down EXCEPT ![k].pc = "count"]
    /\ HandlerStarts(k)
    /\ UNCHANGED <<up, presence, mishaps>>

CountsDown(k) ==
    /\ down[k].pc = "count"
    /\ presence' = [presence EXCEPT ![Owner[k]].count = @ - 1]
    /\ down' = [down EXCEPT ![k].pc = "device", ![k].left = presence[Owner[k]].count - 1]
    /\ UNCHANGED <<open, up, disturbed, mishaps>>

CountsDeviceDown(k) ==
    LET u == Owner[k]  d == DeviceOf[k] IN
    /\ down[k].pc = "device"
    /\ presence' = [presence EXCEPT ![u].device[d] = @ - 1]
    /\ down' = [down EXCEPT ![k].pc = "write", ![k].onDevice = presence[u].device[d] - 1]
    /\ UNCHANGED <<open, up, disturbed, mishaps>>

\* Mutant of WritesLeft: offline with the last socket of one kind of device.
WritesOfDevice(k) ==
    LET u == Owner[k]  last == down[k].onDevice <= 0 IN
    /\ down[k].pc = "write"
    /\ presence' = [presence EXCEPT
          ![u].online = IF last THEN FALSE ELSE @,
          ![u].device[DeviceOf[k]] = IF last THEN 0 ELSE @]
    /\ down' = [down EXCEPT ![k] = Ended]
    /\ UNCHANGED <<open, up, disturbed, mishaps>>

\* Mutant of WritesLeft: offline only below zero.
WritesBelowZero(k) ==
    LET u == Owner[k]  last == down[k].left < 0 IN
    /\ down[k].pc = "write"
    /\ presence' = [presence EXCEPT
          ![u].online = IF last THEN FALSE ELSE @,
          ![u].count = IF last THEN 0 ELSE @]
    /\ down' = [down EXCEPT ![k] = Ended]
    /\ UNCHANGED <<open, up, disturbed, mishaps>>

\* What it writes follows from the counts it got, however old they are.
WritesLeft(k) ==
    LET u == Owner[k]
        last == down[k].left <= 0
        none == last \/ down[k].onDevice <= 0
    IN
    /\ down[k].pc = "write"
    /\ presence' = [presence EXCEPT
          ![u].online = IF last THEN FALSE ELSE @,
          ![u].count = IF last THEN 0 ELSE @,
          ![u].device[DeviceOf[k]] = IF none THEN 0 ELSE @]
    /\ down' = [down EXCEPT ![k] = Ended]
    /\ UNCHANGED <<open, up, disturbed, mishaps>>

-----------------------------------------------------------------------------
(* Mishaps.                                                                *)

\* A Redis command throws: the handler logs it and ends.
RedisFails(k) ==
    /\ mishaps < MaxMishaps
    /\ mishaps' = mishaps + 1
    /\ disturbed' = disturbed \cup {Owner[k]}
    /\ \/ /\ up[k] # "done"
          /\ up' = [up EXCEPT ![k] = "done"]
          /\ UNCHANGED down
       \/ /\ down[k].pc # "done"
          /\ down' = [down EXCEPT ![k] = Ended]
          /\ UNCHANGED up
    /\ UNCHANGED <<open, presence>>

\* The process dies with its sockets and handlers.  Redis keeps the hashes and
\* nothing resets them when the process starts again.
SocketsDie ==
    /\ open' = {}
    /\ up' = [k \in Sockets |-> "done"]
    /\ down' = [k \in Sockets |-> Ended]
    /\ disturbed' = disturbed \cup {Owner[k] : k \in open}
                              \cup {u \in Users : Handling(u) # {}}
    /\ UNCHANGED presence

Connection(k) ==
    \/ Connects(k) \/ CountsUp(k) \/ CountsDeviceUp(k) \/ WritesOnline(k)
    \/ Disconnects(k) \/ CountsDown(k) \/ CountsDeviceDown(k) \/ WritesLeft(k)
    \/ RedisFails(k)

PNext == \E k \in Sockets : Connection(k)
PSpec == PInit /\ [][PNext]_pvars

-----------------------------------------------------------------------------
(* What holds.                                                             *)

\* Several devices of one user (docs/implementation_plan.md:33-34): once the
\* handlers have ended, the hash says online exactly when a socket is open and
\* every counter is the number of open sockets.  Users whose handlers once
\* overlapped, or whom a mishap hit, are left out: see OfflineMeansGone.
PresenceExact ==
    \A u \in Users \ disturbed : Handling(u) = {} =>
        /\ presence[u].online <=> OpenOf(u) # {}
        /\ presence[u].count = Cardinality(OpenOf(u))
        /\ \A d \in Devices : presence[u].device[d] = Cardinality(OpenOn(u, d))

\* "only switch to offline when the number of connections is back at 0"
\* (docs/implementation_plan.md:34): a user whose handlers have all ended is
\* not offline while a socket is open.  The code breaks it without any mishap.
OfflineMeansGone ==
    mishaps = 0 => \A u \in Users :
        Handling(u) = {} /\ OpenOf(u) # {} => presence[u].online
=============================================================================
