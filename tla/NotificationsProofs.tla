------------------------ MODULE NotificationsProofs -------------------------
(***************************************************************************)
(* Presence and the delivery of notifications, for any number of users,    *)
(* sockets, devices, notifications, channels and calls: the counters of a  *)
(* user whose handlers never overlapped are exact, and no interleaving of  *)
(* listeners, readers and deletions loses or reopens a notification.       *)
(***************************************************************************)
EXTENDS Notifications, FiniteSetTheorems, TLAPS

Kept == [online : BOOLEAN, count : Int, device : [Devices -> Int]]
Leaving == [pc : {"done", "count", "device", "write"}, left : Int, onDevice : Int]

PresenceTypes ==
    /\ open \subseteq Sockets
    /\ up \in [Sockets -> {"done", "count", "device", "online"}]
    /\ down \in [Sockets -> Leaving]
    /\ presence \in [Users -> Kept]
    /\ disturbed \subseteq Users
    /\ mishaps \in Nat

\* The sockets that the counters of a user stand for while a handler is half
\* way: one that has come is counted late, one that has gone a little longer.
Counted(u) ==
    {k \in Sockets : /\ Owner[k] = u /\ up[k] # "count"
                     /\ k \in open \/ down[k].pc = "count"}
CountedOn(u, d) ==
    {k \in Sockets : /\ Owner[k] = u /\ DeviceOf[k] = d
                     /\ up[k] \notin {"count", "device"}
                     /\ k \in open \/ down[k].pc \in {"count", "device"}}

\* What a handler of k knows is true of its user's hash.
HandlerOK(k, hash) ==
    /\ up[k] # "done" => k \in open /\ down[k].pc = "done"
    /\ down[k].pc # "done" => k \notin open /\ hash.online = TRUE
    /\ down[k].pc \in {"device", "write"} => down[k].left = hash.count
    /\ down[k].pc = "write" => down[k].onDevice = hash.device[DeviceOf[k]]

\* A user whom nothing has disturbed: one handler at a time, and the hash of the
\* user follows it step by step.
Followed(u) ==
    /\ \A k, l \in Handling(u) : k = l
    /\ \A k \in Sockets : Owner[k] = u => HandlerOK(k, presence[u])
    /\ presence[u].count = Cardinality(Counted(u))
    /\ \A d \in Devices : presence[u].device[d] = Cardinality(CountedOn(u, d))
    /\ Handling(u) = {} => presence[u].online = (OpenOf(u) # {})

PresenceInv == \A u \in Users \ disturbed : Followed(u)

Called == [pc : {"idle", "read", "delete", "count", "drop"},
           user : SUBSET Users, found : SUBSET Notifs]
Status == {"NONE", "PENDING", "SENT", "FAILED", "READ"}

\* Deliveries that are not over.
Running == Untried \cup {"count"}

NotificationTypes ==
    /\ notif \in [Notifs -> {"NONE", "PROCESSING", "SENT", "DELETED"}]
    /\ row \in [Rows -> Status]
    /\ send \in [Notifs -> {"none", "rows", "done", "mute", "lost"}]
    /\ job \in [Rows -> Running \cup {"none", "done", "lost"}]
    /\ call \in [Calls -> Called]
    /\ asks \in Nat

\* Unless send has saved rows there is nothing to deliver, or to close.
NothingYet ==
    \A n \in Notifs : send[n] # "done" =>
        /\ notif[n] = IF send[n] = "none" THEN "NONE" ELSE "PROCESSING"
        /\ \A r \in RowsOf(n) : row[r] = "NONE" /\ job[r] = "none"

\* The notification that a call looks at now.
Current(c) == CHOOSE n \in call[c].found : TRUE

\* A call holds notifications whose rows have been saved, and drops one only if
\* no row of it is left: rows are never added again.
CallOK(c) ==
    IF call[c].pc = "idle" THEN call[c].found = {} ELSE
        /\ call[c].found # {}
        /\ \E u \in Users : call[c].user = {u}
        /\ \A n \in call[c].found : send[n] = "done"
        /\ call[c].pc = "drop" => \A r \in RowsOf(Current(c)) : ~Exists(r)
CallsOK == \A c \in Calls : CallOK(c)

\* What is recorded was tried, and what is pending is being delivered unless its
\* delivery was lost; somebody is still at work on a notification that is not closed,
\* unless a delivery of it was lost, and without a mishap on one nobody has any more.
Outcomes == \A r \in Rows : row[r] \in {"SENT", "FAILED"} => job[r] \notin Untried
NonePending == \A n \in Notifs : notif[n] = "SENT" => Pending(n) = {}
BeingDelivered == \A r \in Rows : row[r] = "PENDING" => job[r] \in Untried \cup {"lost"}
BeingClosed ==
    \A n \in Notifs : send[n] = "done" =>
        \/ notif[n] \in {"SENT", "DELETED"}
        \/ \E r \in RowsOf(n) : job[r] \in Running \cup {"lost"}
BeingDropped ==
    \A n \in Notifs :
        \/ notif[n] = "DELETED"
        \/ \A r \in RowsOf(n) : job[r] = "none"
        \/ \E r \in RowsOf(n) : Exists(r)
        \/ \E c \in Calls : call[c].pc \in {"count", "drop"} /\ n \in call[c].found

DeliveryInv ==
    /\ NothingYet
    /\ CallsOK
    /\ Outcomes /\ NonePending
    /\ BeingDelivered /\ BeingClosed
    /\ mishaps = 0 => BeingDropped

-----------------------------------------------------------------------------
(* Presence: types.                                                        *)

\* The constant records are typed.
LEMMA RestTyped == Ended \in Leaving /\ Gone \in Kept
  BY DEF Ended, Leaving, Gone, Kept

LEMMA PresenceTypesInit == PInit => PresenceTypes
  BY RestTyped DEF PInit, PresenceTypes

\* The hash of u gets new counters, and no other hash changes.
Rewrites(u, count, device) ==
    /\ presence' \in [Users -> Kept]
    /\ \A v \in Users \ {u} : presence'[v] = presence[v]
    /\ presence'[u].count = count
    /\ presence'[u].device = device

Own(k) == presence[Owner[k]]
Plus(k, n) == [Own(k).device EXCEPT ![DeviceOf[k]] = @ + n]
LastOne(k) == down[k].left <= 0
Emptied(k) ==
    [Own(k).device EXCEPT
        ![DeviceOf[k]] = IF LastOne(k) \/ down[k].onDevice <= 0 THEN 0 ELSE @]

\* A hash that is replaced by a hash.
LEMMA HashReplaced ==
  ASSUME PresenceTypes, NEW u \in Users, NEW h \in Kept, presence' = [presence EXCEPT ![u] = h]
  PROVE  Rewrites(u, h.count, h.device) /\ presence'[u].online = h.online
  BY DEF PresenceTypes, Rewrites

LEMMA OwnTyped ==
  ASSUME PresenceTypes, NEW k \in Sockets
  PROVE  /\ Owner[k] \in Users /\ DeviceOf[k] \in Devices
         /\ Own(k) \in Kept /\ Own(k).count \in Int /\ Own(k).device \in [Devices -> Int]
         /\ Own(k).online \in BOOLEAN
  BY PresenceAssumption DEF PresenceTypes, Kept, Own

\* What each step of a handler writes.
LEMMA CountsUpWrites ==
  ASSUME PresenceTypes, NEW k \in Sockets, CountsUp(k)
  PROVE  Rewrites(Owner[k], Own(k).count + 1, Own(k).device)
<1> DEFINE h == [Own(k) EXCEPT !.count = @ + 1]
<1>1. h \in Kept /\ h.count = Own(k).count + 1 /\ h.device = Own(k).device
  BY OwnTyped DEF Kept
<1>2. presence' = [presence EXCEPT ![Owner[k]] = h]
  BY DEF CountsUp, Own
<1> HIDE DEF h
<1> QED
  BY <1>1, <1>2, HashReplaced, OwnTyped

LEMMA CountsDeviceUpWrites ==
  ASSUME PresenceTypes, NEW k \in Sockets, CountsDeviceUp(k)
  PROVE  Rewrites(Owner[k], Own(k).count, Plus(k, 1))
<1> DEFINE h == [Own(k) EXCEPT !.device = Plus(k, 1)]
<1>0. Plus(k, 1) \in [Devices -> Int]
  BY OwnTyped DEF Plus
<1>1. h \in Kept /\ h.count = Own(k).count /\ h.device = Plus(k, 1)
  BY <1>0, OwnTyped DEF Kept
<1>2. presence' = [presence EXCEPT ![Owner[k]] = h]
  BY DEF CountsDeviceUp, Own, Plus
<1> HIDE DEF h
<1> QED
  BY <1>1, <1>2, HashReplaced, OwnTyped

LEMMA WritesOnlineWrites ==
  ASSUME PresenceTypes, NEW k \in Sockets, WritesOnline(k)
  PROVE  Rewrites(Owner[k], Own(k).count, Own(k).device) /\ presence'[Owner[k]].online = TRUE
<1> DEFINE h == [Own(k) EXCEPT !.online = TRUE]
<1>1. h \in Kept /\ h.count = Own(k).count /\ h.device = Own(k).device /\ h.online = TRUE
  BY OwnTyped DEF Kept
<1>2. presence' = [presence EXCEPT ![Owner[k]] = h]
  BY DEF WritesOnline, Own
<1> HIDE DEF h
<1> QED
  BY <1>1, <1>2, HashReplaced, OwnTyped

LEMMA CountsDownWrites ==
  ASSUME PresenceTypes, NEW k \in Sockets, CountsDown(k)
  PROVE  /\ Rewrites(Owner[k], Own(k).count - 1, Own(k).device)
         /\ presence'[Owner[k]].online = Own(k).online
<1> DEFINE h == [Own(k) EXCEPT !.count = @ - 1]
<1>1. /\ h \in Kept /\ h.count = Own(k).count - 1 /\ h.device = Own(k).device
      /\ h.online = Own(k).online
  BY OwnTyped DEF Kept
<1>2. presence' = [presence EXCEPT ![Owner[k]] = h]
  BY DEF CountsDown, Own
<1> HIDE DEF h
<1> QED
  BY <1>1, <1>2, HashReplaced, OwnTyped

LEMMA CountsDeviceDownWrites ==
  ASSUME PresenceTypes, NEW k \in Sockets, CountsDeviceDown(k)
  PROVE  /\ Rewrites(Owner[k], Own(k).count, Plus(k, -1))
         /\ presence'[Owner[k]].online = Own(k).online
<1> DEFINE h == [Own(k) EXCEPT !.device = Plus(k, -1)]
<1>0. Plus(k, -1) \in [Devices -> Int]
  BY OwnTyped DEF Plus
<1>1. /\ h \in Kept /\ h.count = Own(k).count /\ h.device = Plus(k, -1)
      /\ h.online = Own(k).online
  BY <1>0, OwnTyped DEF Kept
<1>2. presence' = [presence EXCEPT ![Owner[k]] = h]
  BY OwnTyped DEF CountsDeviceDown, Own, Plus
<1> HIDE DEF h
<1> QED
  BY <1>1, <1>2, HashReplaced, OwnTyped

LEMMA WritesLeftWrites ==
  ASSUME PresenceTypes, NEW k \in Sockets, WritesLeft(k)
  PROVE  /\ LastOne(k) => /\ Rewrites(Owner[k], 0, Emptied(k))
                          /\ presence'[Owner[k]].online = FALSE
         /\ ~LastOne(k) => /\ Rewrites(Owner[k], Own(k).count, Emptied(k))
                           /\ presence'[Owner[k]].online = Own(k).online
<1>0. Emptied(k) \in [Devices -> Int]
  BY OwnTyped DEF Emptied
<1>1. ASSUME NEW b \in BOOLEAN, NEW n \in Int,
             \/ LastOne(k) /\ b = FALSE /\ n = 0
             \/ ~LastOne(k) /\ b = Own(k).online /\ n = Own(k).count
      PROVE  Rewrites(Owner[k], n, Emptied(k)) /\ presence'[Owner[k]].online = b
  <2> DEFINE h == [Own(k) EXCEPT !.online = b, !.count = n, !.device = Emptied(k)]
  <2>1. h \in Kept /\ h.count = n /\ h.device = Emptied(k) /\ h.online = b
    BY <1>0, OwnTyped DEF Kept
  <2>2. presence' = [presence EXCEPT ![Owner[k]] = h]
    <3>1. presence \in [Users -> Kept] /\ Owner[k] \in Users
      BY OwnTyped DEF PresenceTypes
    <3>2. presence' = [presence EXCEPT ![Owner[k]].online = b, ![Owner[k]].count = n,
                                       ![Owner[k]].device = Emptied(k)]
      BY <1>1, <3>1 DEF WritesLeft, Own, Emptied, LastOne
    <3> QED
      BY <3>1, <3>2 DEF Own
  <2> HIDE DEF h
  <2> QED
    BY <2>1, <2>2, HashReplaced, OwnTyped
<1>2. FALSE \in BOOLEAN /\ 0 \in Int
  OBVIOUS
<1>3. LastOne(k) => Rewrites(Owner[k], 0, Emptied(k)) /\ presence'[Owner[k]].online = FALSE
  BY <1>1, <1>2, Zenon
<1>4. ~LastOne(k) => /\ Rewrites(Owner[k], Own(k).count, Emptied(k))
                     /\ presence'[Owner[k]].online = Own(k).online
  BY <1>1, OwnTyped, Zenon
<1> QED
  BY <1>3, <1>4, Zenon

LEMMA ConnectionTyped ==
  ASSUME PresenceTypes, NEW k \in Sockets, Connection(k)
  PROVE  PresenceTypes'
<1>0. Owner[k] \in Users /\ Own(k).count - 1 \in Int /\ Own(k).device[DeviceOf[k]] - 1 \in Int
  BY OwnTyped
<1>1. CASE Connects(k) \/ Disconnects(k)
  BY <1>0, <1>1 DEF Connects, Disconnects, HandlerStarts, Leaving, PresenceTypes
<1>2. CASE CountsUp(k) \/ CountsDeviceUp(k) \/ WritesOnline(k)
  <2>1. presence' \in [Users -> Kept]
    BY <1>2, CountsUpWrites, CountsDeviceUpWrites, WritesOnlineWrites DEF Rewrites
  <2> QED
    BY <1>2, <2>1 DEF CountsUp, CountsDeviceUp, WritesOnline, PresenceTypes
<1>3. CASE CountsDown(k) \/ CountsDeviceDown(k)
  <2>1. presence' \in [Users -> Kept]
    BY <1>3, CountsDownWrites, CountsDeviceDownWrites DEF Rewrites
  <2> QED
    BY <1>0, <1>3, <2>1 DEF CountsDown, CountsDeviceDown, PresenceTypes, Leaving, Own
<1>4. CASE WritesLeft(k)
  <2>1. presence' \in [Users -> Kept]
    BY <1>4, WritesLeftWrites DEF Rewrites
  <2> QED
    BY <1>4, <2>1, RestTyped DEF WritesLeft, PresenceTypes
<1>5. CASE RedisFails(k)
  BY <1>0, <1>5, RestTyped DEF RedisFails, PresenceTypes
<1> QED
  BY <1>1, <1>2, <1>3, <1>4, <1>5 DEF Connection

-----------------------------------------------------------------------------
(* Presence: the hash follows the handlers.                                *)

\* Nothing of u's changes.
LEMMA FollowedKept ==
  ASSUME NEW u \in Users, Followed(u), presence'[u] = presence[u],
         \A k \in Sockets : Owner[k] = u =>
             up'[k] = up[k] /\ down'[k] = down[k] /\ (k \in open' <=> k \in open),
         open \subseteq Sockets, open' \subseteq Sockets
  PROVE  Followed(u)'
<1>1. /\ Handling(u)' = Handling(u) /\ Counted(u)' = Counted(u) /\ OpenOf(u)' = OpenOf(u)
      /\ \A d \in Devices : CountedOn(u, d)' = CountedOn(u, d)
  BY DEF Handling, Counted, CountedOn, OpenOf
<1>2. \A k \in Sockets : Owner[k] = u => HandlerOK(k, presence[u])'
  BY DEF Followed, HandlerOK
<1> QED
  BY <1>1, <1>2 DEF Followed

\* The counted sockets are finitely many.
LEMMA CountedFinite ==
  ASSUME NEW u
  PROVE  /\ IsFiniteSet(Counted(u)) /\ Cardinality(Counted(u)) \in Nat
         /\ \A d : IsFiniteSet(CountedOn(u, d)) /\ Cardinality(CountedOn(u, d)) \in Nat
<1>1. Counted(u) \in SUBSET Sockets /\ \A d : CountedOn(u, d) \in SUBSET Sockets
  BY DEF Counted, CountedOn
<1> QED
  BY <1>1, PresenceAssumption, FS_Subset, FS_CardinalityType

\* A step of the only handler of u.
Others(k) == \A l \in Sockets \ {k} : up'[l] = up[l] /\ down'[l] = down[l] /\ (l \in open' <=> l \in open)

LEMMA FollowedStep ==
  ASSUME NEW k \in Sockets, NEW u, u = Owner[k], Followed(u), Handling(u) \subseteq {k}, Others(k),
         HandlerOK(k, presence[u])',
         presence'[u].count = Cardinality(Counted(u)'),
         \A d \in Devices : presence'[u].device[d] = Cardinality(CountedOn(u, d)'),
         Handling(u)' = {} => presence'[u].online = (OpenOf(u)' # {})
  PROVE  Followed(u)'
<1>1. \A l \in Sockets \ {k} : Owner[l] = u =>
         up[l] = "done" /\ down[l].pc = "done" /\ up'[l] = "done" /\ down'[l].pc = "done"
  BY DEF Handling, Others
<1>2. \A l, m \in Handling(u)' : l = m
  BY <1>1 DEF Handling
<1>3. \A l \in Sockets : Owner[l] = u => HandlerOK(l, presence[u])'
  BY <1>1 DEF HandlerOK
<1> QED
  BY <1>2, <1>3 DEF Followed

\* The counters when k begins or ceases to count, for the user or the device.
LEMMA CountsChange ==
  ASSUME NEW k \in Sockets, NEW u, NEW d
  PROVE  /\ k \notin Counted(u) => Cardinality(Counted(u) \cup {k}) = Cardinality(Counted(u)) + 1
         /\ k \in Counted(u) => Cardinality(Counted(u) \ {k}) = Cardinality(Counted(u)) - 1
         /\ k \notin CountedOn(u, d) =>
               Cardinality(CountedOn(u, d) \cup {k}) = Cardinality(CountedOn(u, d)) + 1
         /\ k \in CountedOn(u, d) =>
               Cardinality(CountedOn(u, d) \ {k}) = Cardinality(CountedOn(u, d)) - 1
  BY CountedFinite, FS_AddElement, FS_RemoveElement

\* The handler of k is u's only one.
LEMMA OnlyHandler ==
  ASSUME NEW k \in Sockets, NEW u, u = Owner[k], Followed(u), up[k] # "done" \/ down[k].pc # "done"
  PROVE  Handling(u) = {k}
  BY DEF Followed, Handling

LEMMA ConnectsFollowed ==
  ASSUME PresenceTypes, NEW k \in Sockets, Followed(Owner[k]), Handling(Owner[k]) = {}, Connects(k)
  PROVE  Followed(Owner[k])'
<1> DEFINE u == Owner[k]
<1>1. Others(k) /\ k \in open' /\ up'[k] = "count" /\ down'[k].pc = "done"
  BY DEF Connects, Others, PresenceTypes
<1>2. Counted(u)' = Counted(u) /\ \A d \in Devices : CountedOn(u, d)' = CountedOn(u, d)
  BY <1>1 DEF Connects, Counted, CountedOn, Others
<1>3. k \in Handling(u)'
  BY <1>1 DEF Handling
<1>4. HandlerOK(k, presence[u])'
  BY <1>1 DEF HandlerOK
<1>5. presence' = presence
  BY DEF Connects
<1> QED
  BY <1>1, <1>2, <1>3, <1>4, <1>5, FollowedStep DEF Followed

LEMMA CountsUpFollowed ==
  ASSUME PresenceTypes, NEW k \in Sockets, Followed(Owner[k]), CountsUp(k)
  PROVE  Followed(Owner[k])'
<1> DEFINE u == Owner[k]
<1>1. /\ Others(k) /\ up[k] = "count" /\ up'[k] = "device" /\ down'[k] = down[k]
      /\ open' = open
  BY DEF CountsUp, Others, PresenceTypes
<1>2. k \in open /\ down[k].pc = "done" /\ Handling(u) = {k}
  BY <1>1, OnlyHandler DEF Followed, HandlerOK
<1>3. /\ Counted(u)' = Counted(u) \cup {k} /\ k \notin Counted(u)
      /\ \A d \in Devices : CountedOn(u, d)' = CountedOn(u, d)
  BY <1>1, <1>2 DEF Counted, CountedOn, Others
<1>4. k \in Handling(u)' /\ HandlerOK(k, presence[u])'
  BY <1>1, <1>2 DEF Handling, HandlerOK
<1>5. presence'[u].count = presence[u].count + 1 /\ presence'[u].device = presence[u].device
  BY CountsUpWrites DEF Rewrites, Own
<1>6. Cardinality(Counted(u)') = Cardinality(Counted(u)) + 1
  BY <1>3, CountsChange
<1>7. /\ presence'[u].count = Cardinality(Counted(u)')
      /\ \A d \in Devices : presence'[u].device[d] = Cardinality(CountedOn(u, d)')
  BY <1>3, <1>5, <1>6 DEF Followed
<1> QED
  BY <1>1, <1>2, <1>4, <1>7, FollowedStep

LEMMA CountsDeviceUpFollowed ==
  ASSUME PresenceTypes, NEW k \in Sockets, Followed(Owner[k]), CountsDeviceUp(k)
  PROVE  Followed(Owner[k])'
<1> DEFINE u == Owner[k]
           e == DeviceOf[k]
<1>1. /\ Others(k) /\ up[k] = "device" /\ up'[k] = "online" /\ down'[k] = down[k]
      /\ open' = open
  BY DEF CountsDeviceUp, Others, PresenceTypes
<1>2. k \in open /\ down[k].pc = "done" /\ Handling(u) = {k}
  BY <1>1, OnlyHandler DEF Followed, HandlerOK
<1>3. /\ Counted(u)' = Counted(u)
      /\ CountedOn(u, e)' = CountedOn(u, e) \cup {k} /\ k \notin CountedOn(u, e)
      /\ \A d \in Devices \ {e} : CountedOn(u, d)' = CountedOn(u, d)
  BY <1>1, <1>2 DEF Counted, CountedOn, Others
<1>4. k \in Handling(u)' /\ HandlerOK(k, presence[u])'
  BY <1>1, <1>2 DEF Handling, HandlerOK
<1>5. /\ presence'[u].count = presence[u].count
      /\ presence'[u].device[e] = presence[u].device[e] + 1
      /\ \A d \in Devices \ {e} : presence'[u].device[d] = presence[u].device[d]
  BY CountsDeviceUpWrites, OwnTyped DEF Rewrites, Own, Plus
<1>6. Cardinality(CountedOn(u, e)') = Cardinality(CountedOn(u, e)) + 1
  <2>1. Cardinality(CountedOn(u, e) \cup {k}) = Cardinality(CountedOn(u, e)) + 1
    <3>1. k \notin CountedOn(u, e)
      BY <1>3
    <3> QED
      BY <3>1, CountsChange, Zenon
  <2> QED
    BY <1>3, <2>1
<1>7. /\ presence'[u].count = Cardinality(Counted(u)')
      /\ \A d \in Devices : presence'[u].device[d] = Cardinality(CountedOn(u, d)')
  BY <1>3, <1>5, <1>6, OwnTyped DEF Followed
<1> QED
  BY <1>1, <1>2, <1>4, <1>7, FollowedStep

LEMMA WritesOnlineFollowed ==
  ASSUME PresenceTypes, NEW k \in Sockets, Followed(Owner[k]), WritesOnline(k)
  PROVE  Followed(Owner[k])'
<1> DEFINE u == Owner[k]
<1>1. /\ Others(k) /\ up[k] = "online" /\ up'[k] = "done" /\ down'[k] = down[k]
      /\ open' = open
  BY DEF WritesOnline, Others, PresenceTypes
<1>2. k \in open /\ down[k].pc = "done" /\ Handling(u) = {k}
  BY <1>1, OnlyHandler DEF Followed, HandlerOK
<1>3. Counted(u)' = Counted(u) /\ \A d \in Devices : CountedOn(u, d)' = CountedOn(u, d)
  BY <1>1, <1>2 DEF Counted, CountedOn, Others
<1>4. HandlerOK(k, presence[u])' /\ OpenOf(u)' # {}
  BY <1>1, <1>2 DEF OpenOf, HandlerOK
<1>5. /\ presence'[u].count = presence[u].count /\ presence'[u].device = presence[u].device
      /\ presence'[u].online = TRUE
  BY WritesOnlineWrites DEF Rewrites, Own
<1>7. /\ presence'[u].count = Cardinality(Counted(u)')
      /\ \A d \in Devices : presence'[u].device[d] = Cardinality(CountedOn(u, d)')
  BY <1>3, <1>5 DEF Followed
<1>8. presence'[u].online = (OpenOf(u)' # {})
  BY <1>4, <1>5, Zenon
<1> QED
  BY <1>1, <1>2, <1>4, <1>7, <1>8, FollowedStep

LEMMA DisconnectsFollowed ==
  ASSUME PresenceTypes, NEW k \in Sockets, Followed(Owner[k]), Handling(Owner[k]) = {}, Disconnects(k)
  PROVE  Followed(Owner[k])'
<1> DEFINE u == Owner[k]
<1>1. /\ Others(k) /\ k \in open /\ k \notin open' /\ up'[k] = "done" /\ down'[k].pc = "count"
      /\ up[k] = "done"
  BY DEF Disconnects, Others, PresenceTypes, Leaving, Handling
<1>2. Counted(u)' = Counted(u) /\ \A d \in Devices : CountedOn(u, d)' = CountedOn(u, d)
  BY <1>1 DEF Counted, CountedOn, Others
<1>3. k \in Handling(u)' /\ presence' = presence
  BY <1>1 DEF Handling, Disconnects
<1>4. presence[u].online = TRUE
  <2>1. k \in OpenOf(u)
    BY <1>1 DEF OpenOf
  <2> QED
    BY <2>1, Zenon DEF Followed
<1>5. HandlerOK(k, presence[u])'
  BY <1>1, <1>3, <1>4 DEF HandlerOK
<1>7. /\ presence'[u].count = Cardinality(Counted(u)')
      /\ \A d \in Devices : presence'[u].device[d] = Cardinality(CountedOn(u, d)')
  BY <1>2, <1>3 DEF Followed
<1> QED
  BY <1>1, <1>3, <1>5, <1>7, FollowedStep

LEMMA CountsDownFollowed ==
  ASSUME PresenceTypes, NEW k \in Sockets, Followed(Owner[k]), CountsDown(k)
  PROVE  Followed(Owner[k])'
<1> DEFINE u == Owner[k]
<1>1. /\ Others(k) /\ down[k].pc = "count" /\ down'[k].pc = "device"
      /\ down'[k].left = presence[u].count - 1 /\ up'[k] = up[k] /\ open' = open
  BY DEF CountsDown, Others, PresenceTypes, Leaving
<1>2. k \notin open /\ up[k] = "done" /\ Handling(u) = {k} /\ presence[u].online = TRUE
  BY <1>1, OnlyHandler DEF Followed, HandlerOK
<1>3. /\ Counted(u)' = Counted(u) \ {k} /\ k \in Counted(u)
      /\ \A d \in Devices : CountedOn(u, d)' = CountedOn(u, d)
  BY <1>1, <1>2 DEF Counted, CountedOn, Others
<1>5. /\ presence'[u].count = presence[u].count - 1 /\ presence'[u].device = presence[u].device
      /\ presence'[u].online = presence[u].online
  BY CountsDownWrites DEF Rewrites, Own
<1>4. k \in Handling(u)' /\ HandlerOK(k, presence[u])'
  BY <1>1, <1>2, <1>5 DEF Handling, HandlerOK
<1>6. Cardinality(Counted(u)') = Cardinality(Counted(u)) - 1
  BY <1>3, CountsChange
<1>7. /\ presence'[u].count = Cardinality(Counted(u)')
      /\ \A d \in Devices : presence'[u].device[d] = Cardinality(CountedOn(u, d)')
  BY <1>3, <1>5, <1>6 DEF Followed
<1> QED
  BY <1>1, <1>2, <1>4, <1>7, FollowedStep

LEMMA CountsDeviceDownFollowed ==
  ASSUME PresenceTypes, NEW k \in Sockets, Followed(Owner[k]), CountsDeviceDown(k)
  PROVE  Followed(Owner[k])'
<1> DEFINE u == Owner[k]
           e == DeviceOf[k]
<1>1. /\ Others(k) /\ down[k].pc = "device" /\ down'[k].pc = "write" /\ down'[k].left = down[k].left
      /\ down'[k].onDevice = presence[u].device[e] - 1 /\ up'[k] = up[k] /\ open' = open
  BY DEF CountsDeviceDown, Others, PresenceTypes, Leaving
<1>2. /\ k \notin open /\ up[k] = "done" /\ Handling(u) = {k} /\ presence[u].online = TRUE
      /\ down[k].left = presence[u].count
  BY <1>1, OnlyHandler DEF Followed, HandlerOK
<1>3. /\ Counted(u)' = Counted(u)
      /\ CountedOn(u, e)' = CountedOn(u, e) \ {k} /\ k \in CountedOn(u, e)
      /\ \A d \in Devices \ {e} : CountedOn(u, d)' = CountedOn(u, d)
  BY <1>1, <1>2 DEF Counted, CountedOn, Others
<1>5. /\ presence'[u].count = presence[u].count
      /\ presence'[u].device[e] = presence[u].device[e] - 1
      /\ \A d \in Devices \ {e} : presence'[u].device[d] = presence[u].device[d]
      /\ presence'[u].online = presence[u].online
  BY CountsDeviceDownWrites, OwnTyped DEF Rewrites, Own, Plus
<1>4. k \in Handling(u)' /\ HandlerOK(k, presence[u])'
  BY <1>1, <1>2, <1>5 DEF Handling, HandlerOK
<1>6. Cardinality(CountedOn(u, e)') = Cardinality(CountedOn(u, e)) - 1
  <2>1. Cardinality(CountedOn(u, e) \ {k}) = Cardinality(CountedOn(u, e)) - 1
    BY <1>3, CountsChange
  <2> QED
    BY <1>3, <2>1
<1>7. /\ presence'[u].count = Cardinality(Counted(u)')
      /\ \A d \in Devices : presence'[u].device[d] = Cardinality(CountedOn(u, d)')
  BY <1>3, <1>5, <1>6, OwnTyped DEF Followed
<1> QED
  BY <1>1, <1>2, <1>4, <1>7, FollowedStep

\* What handleDisconnect got is what is there, so that it resets a counter only
\* if that is 0.
LEMMA WritesLeftFollowed ==
  ASSUME PresenceTypes, NEW k \in Sockets, Followed(Owner[k]), WritesLeft(k)
  PROVE  Followed(Owner[k])'
<1> DEFINE u == Owner[k]
           e == DeviceOf[k]
<1>1. /\ Others(k) /\ down[k].pc = "write" /\ down'[k].pc = "done" /\ up'[k] = up[k] /\ open' = open
  BY DEF WritesLeft, Others, PresenceTypes, Ended
<1>2. /\ k \notin open /\ up[k] = "done" /\ Handling(u) = {k} /\ presence[u].online = TRUE
      /\ down[k].left = presence[u].count /\ down[k].onDevice = presence[u].device[e]
  BY <1>1, OnlyHandler DEF Followed, HandlerOK
<1>3. /\ Counted(u)' = Counted(u) /\ \A d \in Devices : CountedOn(u, d)' = CountedOn(u, d)
      /\ Counted(u) = OpenOf(u) /\ OpenOf(u)' = OpenOf(u)
      /\ \A d \in Devices : CountedOn(u, d) \subseteq Counted(u)
  BY <1>1, <1>2 DEF Counted, CountedOn, Others, OpenOf, Handling, PresenceTypes
<1>4. LastOne(k) <=> OpenOf(u) = {}
  BY <1>2, <1>3, CountedFinite, FS_EmptySet DEF LastOne, Followed
<1>5. LastOne(k) => presence[u].count = 0 /\ \A d \in Devices : presence[u].device[d] = 0
  <2>1. \A d \in Devices : presence[u].device[d] = Cardinality(CountedOn(u, d))
    BY DEF Followed
  <2>2. LastOne(k) => Counted(u) = {} /\ \A d \in Devices : CountedOn(u, d) = {}
    BY <1>3, <1>4
  <2> QED
    BY <2>1, <2>2, FS_EmptySet DEF Followed
<1>6. presence[u].device[e] <= 0 => presence[u].device[e] = 0
  BY CountedFinite, OwnTyped DEF Followed
<1>7. /\ presence'[u].count = presence[u].count
      /\ \A d \in Devices : presence'[u].device[d] = presence[u].device[d]
  <2>1. presence'[u].count = presence[u].count
    BY <1>5, WritesLeftWrites DEF Rewrites, Own
  <2>2. presence'[u].device = Emptied(k)
    BY WritesLeftWrites DEF Rewrites
  <2>3. \A d \in Devices : Emptied(k)[d] = presence[u].device[d]
    BY <1>2, <1>5, <1>6, OwnTyped DEF Emptied, Own
  <2> QED
    BY <2>1, <2>2, <2>3
<1>8. presence'[u].online = (OpenOf(u)' # {})
  <2>1. CASE LastOne(k)
    <3>1. presence'[u].online = FALSE
      BY <2>1, WritesLeftWrites, Zenon
    <3> QED
      BY <1>3, <1>4, <2>1, <3>1, Zenon
  <2>2. CASE ~LastOne(k)
    <3>1. presence'[u].online = TRUE
      BY <1>2, <2>2, WritesLeftWrites, Zenon DEF Own
    <3> QED
      BY <1>3, <1>4, <2>2, <3>1, Zenon
  <2> QED
    BY <2>1, <2>2
<1>9. /\ presence'[u].count = Cardinality(Counted(u)')
      /\ \A d \in Devices : presence'[u].device[d] = Cardinality(CountedOn(u, d)')
  BY <1>3, <1>7 DEF Followed
<1>10. HandlerOK(k, presence[u])'
  BY <1>1, <1>2 DEF HandlerOK
<1> QED
  BY <1>1, <1>2, <1>8, <1>9, <1>10, FollowedStep

\* A handler leaves the sockets and the hashes of other users alone.
LEMMA ConnectionLocal ==
  ASSUME PresenceTypes, NEW k \in Sockets, Connection(k)
  PROVE  Others(k) /\ disturbed \subseteq disturbed' /\ \A v \in Users \ {Owner[k]} : presence'[v] = presence[v]
<1>1. Others(k) /\ disturbed \subseteq disturbed'
  BY DEF Connection, Others, Connects, CountsUp, CountsDeviceUp, WritesOnline, Disconnects,
         CountsDown, CountsDeviceDown, WritesLeft, RedisFails, HandlerStarts, PresenceTypes
<1>2. CASE Connects(k) \/ Disconnects(k) \/ RedisFails(k)
  BY <1>1, <1>2 DEF Connects, Disconnects, RedisFails
<1>3. CASE \/ CountsUp(k) \/ CountsDeviceUp(k) \/ WritesOnline(k)
           \/ CountsDown(k) \/ CountsDeviceDown(k) \/ WritesLeft(k)
  BY <1>1, <1>3, CountsUpWrites, CountsDeviceUpWrites, WritesOnlineWrites, CountsDownWrites,
     CountsDeviceDownWrites, WritesLeftWrites DEF Rewrites
<1> QED
  BY <1>2, <1>3 DEF Connection

LEMMA ConnectionFollowed ==
  ASSUME PresenceTypes, PresenceInv, NEW k \in Sockets, Connection(k)
  PROVE  PresenceInv'
<1> SUFFICES ASSUME NEW u \in Users \ disturbed'
             PROVE  Followed(u)'
  BY DEF PresenceInv
<1>0. open' \subseteq Sockets /\ open \subseteq Sockets
  BY ConnectionTyped DEF PresenceTypes
<1>1. Followed(u)
  BY ConnectionLocal DEF PresenceInv
<1>2. CASE u # Owner[k]
  BY <1>0, <1>1, <1>2, ConnectionLocal, FollowedKept DEF Others
<1>3. CASE u = Owner[k]
  <2>1. Connects(k) \/ Disconnects(k) => Handling(u) = {}
    BY <1>3 DEF Connects, Disconnects, HandlerStarts
  <2>2. ~RedisFails(k)
    BY <1>3 DEF RedisFails
  <2> QED
    BY <1>1, <1>3, <2>1, <2>2, ConnectsFollowed, CountsUpFollowed, CountsDeviceUpFollowed,
       WritesOnlineFollowed, DisconnectsFollowed, CountsDownFollowed, CountsDeviceDownFollowed,
       WritesLeftFollowed DEF Connection
<1> QED
  BY <1>2, <1>3

\* A restart disturbs everybody who was connected or being handled.
LEMMA RestartFollowed ==
  ASSUME PresenceTypes, PresenceInv, SocketsDie, mishaps' = mishaps + 1
  PROVE  PresenceTypes' /\ PresenceInv'
<1>1. PresenceTypes'
  BY RestTyped, PresenceAssumption DEF SocketsDie, PresenceTypes
<1>2. ASSUME NEW u \in Users \ disturbed'
      PROVE  Followed(u)'
  <2>1. u \notin disturbed /\ Handling(u) = {} /\ \A k \in open : Owner[k] # u
    BY <1>2 DEF SocketsDie
  <2>2. \A k \in Sockets : Owner[k] = u =>
           /\ up[k] = "done" /\ up'[k] = "done" /\ down[k].pc = "done" /\ down'[k].pc = "done"
           /\ k \notin open /\ k \notin open'
    BY <2>1 DEF Handling, SocketsDie, Ended
  <2>3. /\ Handling(u)' = Handling(u) /\ Counted(u)' = Counted(u) /\ OpenOf(u)' = OpenOf(u)
        /\ \A d \in Devices : CountedOn(u, d)' = CountedOn(u, d)
    BY <2>2, <1>1 DEF Handling, Counted, CountedOn, OpenOf, PresenceTypes
  <2>4. \A k \in Sockets : Owner[k] = u => HandlerOK(k, presence[u])'
    BY <2>2 DEF HandlerOK
  <2> QED
    BY <2>1, <2>3, <2>4 DEF Followed, PresenceInv, SocketsDie
<1> QED
  BY <1>1, <1>2 DEF PresenceInv

\* Delivering and reading leave connections alone.
LEMMA KeepingFollowed ==
  ASSUME PresenceTypes, PresenceInv, Keeping, mishaps' \in Nat
  PROVE  PresenceTypes' /\ PresenceInv'
<1>1. PresenceTypes'
  BY DEF Keeping, PresenceTypes
<1>2. ASSUME NEW u \in Users \ disturbed'
      PROVE  Followed(u)'
  BY FollowedKept DEF Keeping, PresenceInv, PresenceTypes
<1> QED
  BY <1>1, <1>2 DEF PresenceInv

LEMMA PresenceInvInit == PInit => PresenceInv
<1> SUFFICES ASSUME PInit, NEW u \in Users
             PROVE  Followed(u)
  BY DEF PresenceInv
<1>1. /\ Handling(u) = {} /\ Counted(u) = {} /\ OpenOf(u) = {}
      /\ \A d \in Devices : CountedOn(u, d) = {}
  BY DEF PInit, Handling, Counted, CountedOn, OpenOf, Ended
<1>2. \A k \in Sockets : HandlerOK(k, presence[u])
  BY DEF PInit, HandlerOK, Ended
<1>3. presence[u] = Gone
  BY DEF PInit
<1>4. presence[u].online = FALSE /\ presence[u].count = 0 /\ \A d \in Devices : presence[u].device[d] = 0
  BY <1>3 DEF Gone
<1>5. presence[u].online = (OpenOf(u) # {})
  BY <1>1, <1>4, Zenon
<1> QED
  BY <1>1, <1>2, <1>4, <1>5, FS_EmptySet DEF Followed

\* Exactness follows: without handlers, the counted sockets are the open ones.
LEMMA FollowedExact ==
  ASSUME PresenceTypes, PresenceInv
  PROVE  PresenceExact
<1> SUFFICES ASSUME NEW u \in Users \ disturbed, Handling(u) = {}
             PROVE  /\ presence[u].online <=> OpenOf(u) # {}
                    /\ presence[u].count = Cardinality(OpenOf(u))
                    /\ \A d \in Devices : presence[u].device[d] = Cardinality(OpenOn(u, d))
  BY DEF PresenceExact
<1>1. Followed(u)
  BY DEF PresenceInv
<1>2. Counted(u) = OpenOf(u) /\ \A d \in Devices : CountedOn(u, d) = OpenOn(u, d)
  BY DEF Counted, CountedOn, OpenOf, OpenOn, Handling, PresenceTypes
<1>3. presence[u].online <=> OpenOf(u) # {}
  BY <1>1, Zenon DEF Followed
<1> QED
  BY <1>1, <1>2, <1>3 DEF Followed

-----------------------------------------------------------------------------
(* Notifications: rows and types.                                          *)

LEMMA RowFacts ==
  /\ \A r \in Rows : r[1] \in Notifs /\ r[2] \in Users /\ r[3] \in Channels
  /\ \A n \in Notifs : RowsOf(n) \subseteq Rows /\ \A r \in Rows : r \in RowsOf(n) <=> r[1] = n
  /\ \A ns \in SUBSET Notifs, u \in Users :
        RowsFor(ns, u) \subseteq Rows /\ \A r \in Rows : r \in RowsFor(ns, u) <=> r[1] \in ns /\ r[2] = u
  BY DEF Rows, RowsOf, RowsFor

\* An UPDATE touches the rows that exist.
LEMMA SetFacts ==
  ASSUME NotificationTypes, NEW rs, NEW s \in Status
  PROVE  /\ Set(rs, s) \in [Rows -> Status]
         /\ \A r \in Rows : Set(rs, s)[r] = IF r \in rs /\ Exists(r) THEN s ELSE row[r]
  BY DEF NotificationTypes, Set

LEMMA NotificationTypesInit == Init => NotificationTypes
  BY DEF Init, NotificationTypes, NoCall, Called, Running, Untried, Status

LEMMA SendingTyped ==
  ASSUME NotificationTypes, NEW n \in Notifs, Sending(n)
  PROVE  NotificationTypes'
<1>1. ASSUME NEW rs, Adds(rs)
      PROVE  row' \in [Rows -> Status] /\ job' \in [Rows -> Running \cup {"none", "done", "lost"}]
  BY <1>1 DEF Adds, First, NotificationTypes, Running, Untried, Status
<1>2. CASE SavesRows(n)
  BY <1>1, <1>2 DEF Sending, SavesRows, NotificationTypes
<1> QED
  BY <1>2 DEF Sending, SavesNotification, TellsNobody, SendFails, NotificationTypes

LEMMA DeliveringTyped ==
  ASSUME NotificationTypes, NEW r \in Rows, Delivering(r)
  PROVE  NotificationTypes'
<1>1. UNCHANGED <<send, call, asks>> /\ r[1] \in Notifs
  BY RowFacts DEF Delivering
<1>2. /\ job' \in [Rows -> Running \cup {"none", "done", "lost"}]
      /\ notif' \in [Notifs -> {"NONE", "PROCESSING", "SENT", "DELETED"}]
  BY <1>1 DEF Delivering, ReadsPresence, MarksSent, MarksFailed, FinishesIfLast, GoesTo,
         NotificationTypes, Running, Untried
<1>3. row' \in [Rows -> Status]
  BY SetFacts DEF Delivering, ReadsPresence, MarksSent, MarksFailed, FinishesIfLast,
                  NotificationTypes, Status
<1> QED
  BY <1>1, <1>2, <1>3 DEF NotificationTypes

LEMMA AsksTyped ==
  ASSUME NotificationTypes, NEW u \in Users, Asks(u)
  PROVE  NotificationTypes'
<1>1. CASE MarksAllRead(u)
  BY <1>1, SetFacts DEF Asks, MarksAllRead, NotificationTypes, Status
<1>2. ASSUME NEW c \in Calls, NEW ns \in SUBSET Notifs, NEW pc \in {"read", "delete"}, Finds(c, u, ns, pc)
      PROVE  call' \in [Calls -> Called] /\ UNCHANGED <<notif, row>>
  BY <1>2 DEF Finds, NotificationTypes, Called
<1> QED
  BY <1>1, <1>2 DEF Asks, NotificationTypes

LEMMA ProceedsTyped ==
  ASSUME NotificationTypes, NEW c \in Calls, Proceeds(c)
  PROVE  NotificationTypes'
<1>1. NoCall \in Called /\ call[c] \in Called
  BY DEF NoCall, Called, NotificationTypes
<1>2. row' \in [Rows -> Status] /\ UNCHANGED <<send, job, asks>>
  BY SetFacts DEF Proceeds, MarksRead, DeletesRows, CountsLeft, DropsNotification, CallFails,
                  NotificationTypes, Status
<1>3. notif' \in [Notifs -> {"NONE", "PROCESSING", "SENT", "DELETED"}]
  BY DEF Proceeds, MarksRead, DeletesRows, CountsLeft, DropsNotification, CallFails, NotificationTypes
<1>4. call' \in [Calls -> Called]
  <2>1. CASE MarksRead(c) \/ CallFails(c)
    BY <1>1, <2>1 DEF MarksRead, CallFails, Returns, NotificationTypes
  <2>2. CASE DeletesRows(c)
    BY <1>1, <2>2 DEF DeletesRows, NotificationTypes, Called
  <2>3. CASE CountsLeft(c)
    BY <1>1, <2>3 DEF CountsLeft, NotificationTypes, Called
  <2>4. CASE DropsNotification(c)
    BY <1>1, <2>4 DEF DropsNotification, NotificationTypes, Called
  <2> QED
    BY <2>1, <2>2, <2>3, <2>4 DEF Proceeds
<1> QED
  BY <1>2, <1>3, <1>4 DEF NotificationTypes

-----------------------------------------------------------------------------
(* Notifications: nothing is lost or reopened.                             *)

LEMMA DeliveryInvInit == Init => DeliveryInv
<1> SUFFICES ASSUME Init
             PROVE  DeliveryInv
  OBVIOUS
<1>1. /\ NothingYet /\ CallsOK /\ Outcomes /\ NonePending
      /\ BeingDelivered /\ BeingClosed /\ BeingDropped
  BY RowFacts DEF Init, NothingYet, CallsOK, CallOK, Outcomes, NonePending, BeingDelivered,
                  BeingClosed, BeingDropped, NoCall
<1> QED
  BY <1>1 DEF DeliveryInv

\* The rows of a template, with their events, come all at once.
LEMMA SavesRowsKeeps ==
  ASSUME NotificationTypes, DeliveryInv, NEW n \in Notifs, SavesRows(n)
  PROVE  DeliveryInv'
<1>1. PICK us \in (SUBSET Users) \ {{}}, chs \in Templates :
        /\ Adds({n} \X us \X chs)
        /\ send' = [send EXCEPT ![n] = IF chs = {} THEN "mute" ELSE "done"]
  BY DEF SavesRows
<1> DEFINE rs == {n} \X us \X chs
<1>2. send[n] = "rows" /\ UNCHANGED <<mishaps, notif, call>>
  BY DEF SavesRows, NoMishap
<1>3. chs \subseteq Channels /\ us \subseteq Users
  BY NotificationAssumption
<1>4. rs \subseteq RowsOf(n) /\ (chs # {} => rs # {})
  <2>1. rs \subseteq RowsOf(n)
    BY <1>3 DEF RowsOf
  <2>2. ASSUME chs # {}
        PROVE  rs # {}
    <3>1. PICK u \in us, ch \in chs : TRUE
      BY <2>2
    <3>2. <<n, u, ch>> \in rs
      OBVIOUS
    <3> QED
      BY <3>2
  <2> QED
    BY <2>1, <2>2
<1>5. \A r \in Rows : /\ row'[r] = IF r \in rs THEN "PENDING" ELSE row[r]
                      /\ r \in rs => job'[r] \in Untried
                      /\ r \notin rs => job'[r] = job[r]
  <2>1. \A ch : First(ch) \in Untried
    BY DEF First, Untried
  <2> QED
    BY <1>1, <2>1 DEF Adds
<1> HIDE DEF rs
<1>6. \A r \in RowsOf(n) : row[r] = "NONE" /\ job[r] = "none"
  BY <1>2 DEF DeliveryInv, NothingYet
<1>7. \A m \in Notifs \ {n} : \A r \in RowsOf(m) : r \in Rows /\ row'[r] = row[r] /\ job'[r] = job[r]
  BY <1>4, <1>5, RowFacts
<1>8. chs = {} => \A r \in RowsOf(n) : row'[r] = "NONE" /\ job'[r] = "none"
  <2>1. chs = {} => rs = {}
    BY DEF rs
  <2> QED
    BY <1>5, <1>6, <2>1, RowFacts
<1>9. /\ send'[n] = IF chs = {} THEN "mute" ELSE "done"
      /\ \A m \in Notifs \ {n} : send'[m] = send[m]
      /\ notif[n] = "PROCESSING"
  BY <1>1, <1>2 DEF NotificationTypes, DeliveryInv, NothingYet
<1>10. NothingYet'
  BY <1>2, <1>7, <1>8, <1>9 DEF DeliveryInv, NothingYet
<1>11. CallsOK'
  <2> SUFFICES ASSUME NEW c \in Calls, call[c].pc # "idle"
               PROVE  /\ \A m \in call[c].found : send'[m] = "done"
                      /\ call[c].pc = "drop" => \A r \in RowsOf(Current(c)) : row'[r] = "NONE"
    BY <1>2 DEF DeliveryInv, CallsOK, CallOK, Current, Exists
  <2>1. /\ call[c].found \subseteq Notifs /\ call[c].found # {}
        /\ \A m \in call[c].found : send[m] = "done"
        /\ call[c].pc = "drop" => \A r \in RowsOf(Current(c)) : row[r] = "NONE"
    BY DEF DeliveryInv, CallsOK, CallOK, NotificationTypes, Called, Exists
  <2>2. Current(c) \in call[c].found
    BY <2>1 DEF Current
  <2> QED
    BY <1>2, <1>7, <1>9, <2>1, <2>2
<1>12. NonePending'
  BY <1>2, <1>7, <1>9 DEF DeliveryInv, NonePending, Pending
<1>13. Outcomes'
  <2> SUFFICES ASSUME NEW r \in Rows, row'[r] \in {"SENT", "FAILED"}
               PROVE  job'[r] \notin Untried
    BY DEF Outcomes
  <2> QED
    BY <1>5 DEF DeliveryInv, Outcomes
<1>14. BeingDelivered'
  BY <1>5 DEF DeliveryInv, BeingDelivered
<1>15. chs # {} => \E r \in RowsOf(n) : row'[r] # "NONE" /\ job'[r] \in Running
  BY <1>4, <1>5, RowFacts DEF Running
<1>16. BeingClosed'
  BY <1>2, <1>7, <1>9, <1>15 DEF DeliveryInv, BeingClosed
<1>17. BeingDropped => BeingDropped'
  BY <1>2, <1>7, <1>8, <1>15 DEF BeingDropped, Exists
<1> QED
  BY <1>2, <1>10, <1>11, <1>12, <1>13, <1>14, <1>16, <1>17 DEF DeliveryInv

LEMMA SendingKeeps ==
  ASSUME NotificationTypes, DeliveryInv, mishaps \in Nat, NEW n \in Notifs, Sending(n)
  PROVE  DeliveryInv'
<1>1. CASE SavesRows(n)
  BY <1>1, SavesRowsKeeps
<1>2. CASE ~SavesRows(n)
  <2>1. /\ UNCHANGED <<row, job, call>> /\ mishaps' \in {mishaps, mishaps + 1}
        /\ send[n] \in {"none", "rows"}
        /\ \A m \in Notifs \ {n} : send'[m] = send[m] /\ notif'[m] = notif[m]
        /\ \/ send'[n] \in {"rows", "lost"} /\ notif'[n] = "PROCESSING"
           \/ send'[n] = "done" /\ notif'[n] = "SENT"
    BY <1>2 DEF Sending, SavesNotification, TellsNobody, SendFails, NoMishap, Mishap,
                NotificationTypes, DeliveryInv, NothingYet
  <2>2. \A r \in RowsOf(n) : row[r] = "NONE" /\ job[r] = "none"
    BY <2>1 DEF DeliveryInv, NothingYet
  <2>3. NothingYet' /\ NonePending'
    BY <2>1, <2>2 DEF DeliveryInv, NothingYet, NonePending, Pending
  <2>4. CallsOK'
    <3>1. \A m \in Notifs : send[m] = "done" => send'[m] = "done"
      BY <2>1
    <3>2. \A c \in Calls : call[c].found \subseteq Notifs
      BY DEF NotificationTypes, Called
    <3> QED
      BY <2>1, <3>1, <3>2 DEF DeliveryInv, CallsOK, CallOK, Current, Exists
  <2>5. Outcomes' /\ BeingDelivered' /\ BeingClosed'
    BY <2>1 DEF DeliveryInv, Outcomes, BeingDelivered, BeingClosed
  <2>6. BeingDropped => BeingDropped'
    BY <2>1, <2>2 DEF BeingDropped, Exists
  <2> QED
    BY <2>1, <2>3, <2>4, <2>5, <2>6 DEF DeliveryInv
<1> QED
  BY <1>1, <1>2

\* A listener changes only its own row, never whether that row exists, and it
\* never makes anything pending.
LEMMA ListenerLocal ==
  ASSUME NotificationTypes, NEW r \in Rows, Delivering(r)
  PROVE  /\ \A o \in Rows : Exists(o)' <=> Exists(o)
         /\ \A o \in Rows : row'[o] = "PENDING" => row[o] = "PENDING"
         /\ \A o \in Rows \ {r} : row'[o] = row[o] /\ job'[o] = job[o]
         /\ job[r] \in Running /\ job'[r] \in Running \cup {"done", "lost"}
         /\ \A n \in Notifs \ {r[1]} : notif'[n] = notif[n]
         /\ UNCHANGED <<send, call>>
<1>1. UNCHANGED <<send, call>>
  BY DEF Delivering
<1>2. ASSUME NEW s \in {"SENT", "FAILED"}, row' = Set({r}, s)
      PROVE  /\ \A o \in Rows : Exists(o)' <=> Exists(o)
             /\ \A o \in Rows : row'[o] = "PENDING" => row[o] = "PENDING"
             /\ \A o \in Rows \ {r} : row'[o] = row[o]
  <2>1. \A o \in Rows : row'[o] = IF o \in {r} /\ Exists(o) THEN s ELSE row[o]
    BY <1>2, SetFacts DEF Status
  <2> QED
    BY <2>1 DEF Exists
<1>3. row' = row \/ row' = Set({r}, "SENT") \/ row' = Set({r}, "FAILED")
  BY DEF Delivering, ReadsPresence, MarksSent, MarksFailed, FinishesIfLast
<1>4. /\ \A o \in Rows : Exists(o)' <=> Exists(o)
      /\ \A o \in Rows : row'[o] = "PENDING" => row[o] = "PENDING"
      /\ \A o \in Rows \ {r} : row'[o] = row[o]
  <2>1. CASE row' = row
    BY <2>1 DEF Exists
  <2>2. CASE row' = Set({r}, "SENT")
    BY <1>2, <2>2
  <2>3. CASE row' = Set({r}, "FAILED")
    BY <1>2, <2>3
  <2> QED
    BY <1>3, <2>1, <2>2, <2>3
<1>5. \E pc \in Running \cup {"done", "lost"} : job' = [job EXCEPT ![r] = pc]
  BY DEF Delivering, ReadsPresence, MarksSent, MarksFailed, FinishesIfLast, GoesTo, Running, Untried
<1>6. job[r] \in Running
  BY DEF Delivering, ReadsPresence, MarksSent, MarksFailed, FinishesIfLast, At, Running, Untried
<1>7. \A n \in Notifs \ {r[1]} : notif'[n] = notif[n]
  BY DEF Delivering, ReadsPresence, MarksSent, MarksFailed, FinishesIfLast, NotificationTypes
<1> QED
  BY <1>1, <1>4, <1>5, <1>6, <1>7 DEF NotificationTypes

\* It leaves its row only when that is no longer pending, unless it is lost, and
\* ends only having closed the notification if nothing else was pending.
LEMMA ListenerThorough ==
  ASSUME NotificationTypes, NEW r \in Rows, Delivering(r)
  PROVE  /\ \/ notif'[r[1]] = notif[r[1]]
            \/ notif[r[1]] # "DELETED" /\ notif'[r[1]] = "SENT" /\ Pending(r[1]) = {}
         /\ mishaps' = mishaps \/ mishaps' = mishaps + 1
         /\ \/ job'[r] \in Untried \cup {"lost"}
            \/ job[r] = "count" /\ row' = row
            \/ row'[r] # "PENDING"
         /\ row'[r] # row[r] => job'[r] = "count"
         /\ job'[r] \in Untried => job[r] \in Untried
         /\ job'[r] = "done" => /\ job[r] = "count"
                                /\ Pending(r[1]) = {} => notif'[r[1]] \in {"SENT", "DELETED"}
<1>0. r[1] \in Notifs
  BY RowFacts
<1>1. CASE ReadsPresence(r)
  BY <1>1 DEF ReadsPresence, NoMishap, Mishap, GoesTo, At, NotificationTypes, Untried
<1>2. CASE MarksSent(r)
  <2>1. row' = Set({r}, "SENT") => row'[r] # "PENDING"
    BY SetFacts DEF Status, Exists
  <2> QED
    BY <1>2, <2>1 DEF MarksSent, NoMishap, Mishap, GoesTo, At, NotificationTypes, Untried
<1>3. CASE MarksFailed(r)
  <2>1. row' = Set({r}, "FAILED") => row'[r] # "PENDING"
    BY SetFacts DEF Status, Exists
  <2> QED
    BY <1>3, <2>1 DEF MarksFailed, NoMishap, Mishap, GoesTo, At, NotificationTypes, Untried
<1>4. CASE FinishesIfLast(r)
  BY <1>0, <1>4 DEF FinishesIfLast, NoMishap, Mishap, GoesTo, At, NotificationTypes, Untried
<1> QED
  BY <1>1, <1>2, <1>3, <1>4 DEF Delivering

LEMMA DeliveringKeeps ==
  ASSUME NotificationTypes, DeliveryInv, mishaps \in Nat, NEW r \in Rows, Delivering(r)
  PROVE  DeliveryInv'
<1>0. r[1] \in Notifs /\ r \in RowsOf(r[1]) /\ \A n \in Notifs : RowsOf(n) \subseteq Rows
  BY RowFacts
<1>1. send[r[1]] = "done" /\ job[r] # "none" /\ job'[r] # "none"
  BY <1>0, ListenerLocal DEF DeliveryInv, NothingYet, Running, Untried
<1>2. NothingYet'
  <2> SUFFICES ASSUME NEW n \in Notifs, send[n] # "done"
               PROVE  /\ notif'[n] = notif[n]
                      /\ \A o \in RowsOf(n) : row'[o] = "NONE" /\ job'[o] = "none"
    BY ListenerLocal DEF DeliveryInv, NothingYet
  <2>1. n # r[1] /\ r \notin RowsOf(n)
    BY <1>1, RowFacts
  <2> QED
    BY <1>0, <2>1, ListenerLocal DEF DeliveryInv, NothingYet
<1>3. CallsOK'
  <2>1. \A c \in Calls : call[c].pc # "idle" => Current(c) \in Notifs
    BY DEF DeliveryInv, CallsOK, CallOK, Current, NotificationTypes, Called
  <2> QED
    BY <1>0, <2>1, ListenerLocal DEF DeliveryInv, CallsOK, CallOK, Current
<1>4. \A n \in Notifs : Pending(n)' \subseteq Pending(n)
  BY <1>0, ListenerLocal DEF Pending
<1>5. NonePending'
  <2> SUFFICES ASSUME NEW n \in Notifs, notif'[n] = "SENT"
               PROVE  Pending(n)' = {}
    BY DEF NonePending
  <2>1. Pending(n) = {}
    BY ListenerLocal, ListenerThorough DEF DeliveryInv, NonePending
  <2> QED
    BY <1>4, <2>1
<1>6. Outcomes'
  <2> SUFFICES ASSUME NEW o \in Rows, row'[o] \in {"SENT", "FAILED"}
               PROVE  job'[o] \notin Untried
    BY DEF Outcomes
  <2>1. CASE o # r
    BY <2>1, ListenerLocal DEF DeliveryInv, Outcomes
  <2>2. CASE o = r /\ row'[r] # row[r]
    BY <2>2, ListenerThorough DEF Untried
  <2>3. CASE o = r /\ row'[r] = row[r]
    BY <2>3, ListenerThorough DEF DeliveryInv, Outcomes
  <2> QED
    BY <2>1, <2>2, <2>3
<1>7. BeingDelivered'
  <2> SUFFICES ASSUME NEW o \in Rows, row'[o] = "PENDING"
               PROVE  job'[o] \in Untried \cup {"lost"}
    BY DEF BeingDelivered
  <2>1. row[o] = "PENDING" /\ job[o] \in Untried \cup {"lost"}
    BY ListenerLocal DEF DeliveryInv, BeingDelivered
  <2>2. job[o] # "count"
    BY <2>1 DEF Untried
  <2> QED
    BY <2>1, <2>2, ListenerLocal, ListenerThorough
<1>8. BeingClosed'
  <2> SUFFICES ASSUME NEW n \in Notifs, send[n] = "done", notif'[n] \notin {"SENT", "DELETED"}
               PROVE  \E o \in RowsOf(n) : job'[o] \in Running \cup {"lost"}
    BY ListenerLocal DEF BeingClosed
  <2>1. notif[n] \notin {"SENT", "DELETED"}
    BY ListenerLocal, ListenerThorough
  <2>2. PICK o \in RowsOf(n) : job[o] \in Running \cup {"lost"}
    BY <2>1 DEF DeliveryInv, BeingClosed
  <2>3. CASE o # r \/ job'[r] # "done"
    BY <1>0, <2>2, <2>3, ListenerLocal
  <2>4. CASE o = r /\ job'[r] = "done"
    <3>1. n = r[1]
      BY <1>0, <2>4, RowFacts
    <3>2. job[r] = "count" /\ Pending(n) # {}
      BY <2>4, <3>1, ListenerThorough
    <3>3. PICK p \in RowsOf(n) : row[p] = "PENDING"
      BY <3>2 DEF Pending
    <3>4. job[p] \in Untried \cup {"lost"} /\ p \in Rows /\ p # r
      BY <1>0, <3>2, <3>3 DEF DeliveryInv, BeingDelivered, Untried
    <3> QED
      BY <3>3, <3>4, ListenerLocal DEF Running
  <2> QED
    BY <2>3, <2>4
<1>9. ASSUME mishaps' = 0
      PROVE  BeingDropped'
  <2>0. BeingDropped
    BY <1>9, ListenerThorough DEF DeliveryInv
  <2> SUFFICES ASSUME NEW n \in Notifs
               PROVE  \/ notif'[n] = "DELETED"
                      \/ \A o \in RowsOf(n) : job'[o] = "none"
                      \/ \E o \in RowsOf(n) : Exists(o)'
                      \/ \E c \in Calls : call[c].pc \in {"count", "drop"} /\ n \in call[c].found
    BY ListenerLocal DEF BeingDropped
  <2>1. notif[n] = "DELETED" => notif'[n] = "DELETED"
    BY ListenerLocal, ListenerThorough
  <2>2. (\A o \in RowsOf(n) : job[o] = "none") => \A o \in RowsOf(n) : job'[o] = "none"
    BY <1>0, <1>1, ListenerLocal
  <2> QED
    BY <1>0, <2>0, <2>1, <2>2, ListenerLocal DEF BeingDropped
<1> QED
  BY <1>2, <1>3, <1>5, <1>6, <1>7, <1>8, <1>9 DEF DeliveryInv

\* Rows that only go, or stop being pending, open nothing again.
LEMMA RowsShrink ==
  ASSUME NotificationTypes, DeliveryInv, UNCHANGED <<notif, send, job>>,
         \A r \in Rows : /\ row'[r] \in {"PENDING", "SENT", "FAILED"} => row[r] = row'[r]
                         /\ Exists(r)' => Exists(r)
  PROVE  NothingYet' /\ NonePending' /\ Outcomes' /\ BeingDelivered' /\ BeingClosed'
<1>1. NothingYet'
  BY RowFacts DEF DeliveryInv, NothingYet, Exists
<1>2. NonePending'
  BY RowFacts DEF DeliveryInv, NonePending, Pending
<1>3. Outcomes' /\ BeingDelivered' /\ BeingClosed'
  BY DEF DeliveryInv, Outcomes, BeingDelivered, BeingClosed
<1> QED
  BY <1>1, <1>2, <1>3

\* The other calls know what they knew.
LEMMA CallsKept ==
  ASSUME NotificationTypes, DeliveryInv, NEW c \in Calls, CallOK(c)',
         \A d \in Calls \ {c} : call'[d] = call[d],
         \A n \in Notifs : send[n] = "done" => send'[n] = "done",
         \A r \in Rows : Exists(r)' => Exists(r)
  PROVE  CallsOK'
<1> SUFFICES ASSUME NEW d \in Calls \ {c}
             PROVE  CallOK(d)'
  BY DEF CallsOK
<1>1. CallOK(d) /\ call'[d] = call[d] /\ Current(d)' = Current(d) /\ call[d].found \subseteq Notifs
  BY DEF DeliveryInv, CallsOK, Current, NotificationTypes, Called
<1>2. call[d].pc # "idle" => Current(d) \in Notifs
  BY <1>1 DEF CallOK, Current
<1>3. CASE call[d].pc = "idle"
  BY <1>1, <1>3 DEF CallOK
<1>4. CASE call[d].pc # "idle"
  BY <1>1, <1>2, <1>4, RowFacts DEF CallOK
<1> QED
  BY <1>3, <1>4

\* What the inbox shows of a notification, for any state of the rows.
Heaviest(f, n, u) ==
    CHOOSE s \in {f[r] : r \in RowsFor({n}, u)} :
        \A r \in RowsFor({n}, u) : Weight[f[r]] <= Weight[s]

LEMMA HeaviestRead ==
  ASSUME NEW f \in [Rows -> Status], NEW n \in Notifs, NEW u \in Users,
         NEW r \in RowsFor({n}, u), f[r] = "READ"
  PROVE  Heaviest(f, n, u) = "READ"
<1> DEFINE S == {f[o] : o \in RowsFor({n}, u)}
<1>1. RowsFor({n}, u) \subseteq Rows
  BY RowFacts
<1>2. \A o \in RowsFor({n}, u) : f[o] \in Status
  BY <1>1
<1>3. Weight["READ"] = 4 /\ \A s \in Status : Weight[s] <= 4 /\ (Weight[s] >= 4 => s = "READ")
  BY DEF Weight, Status
<1>4. "READ" \in S /\ \A o \in RowsFor({n}, u) : Weight[f[o]] <= Weight["READ"]
  BY <1>2, <1>3
<1>5. Heaviest(f, n, u) \in S /\ Weight[f[r]] <= Weight[Heaviest(f, n, u)]
  BY <1>4 DEF Heaviest
<1>6. Heaviest(f, n, u) \in Status
  BY <1>2, <1>5
<1> QED
  BY <1>3, <1>5, <1>6 DEF Weight, Status

LEMMA HeaviestNone ==
  ASSUME NEW f \in [Rows -> Status], NEW n \in Notifs, NEW u \in Users,
         \A r \in RowsFor({n}, u) : f[r] = "NONE"
  PROVE  Heaviest(f, n, u) = "NONE"
<1>1. PICK ch \in Channels : TRUE
  BY NotificationAssumption
<1>2. <<n, u, ch>> \in RowsFor({n}, u)
  BY DEF RowsFor
<1>3. {f[r] : r \in RowsFor({n}, u)} = {"NONE"}
  BY <1>2
<1>4. Weight["NONE"] <= Weight["NONE"]
  BY DEF Weight
<1> QED
  BY <1>3, <1>4 DEF Heaviest

LEMMA InboxIsHeaviest ==
  ASSUME NEW n, NEW u
  PROVE  InboxStatus(n, u) = Heaviest(row, n, u) /\ InboxStatus(n, u)' = Heaviest(row', n, u)
  BY DEF InboxStatus, Heaviest

\* Reading everything, or finding what to read or delete.
LEMMA AsksKeeps ==
  ASSUME NotificationTypes, DeliveryInv, NEW u \in Users, Asks(u)
  PROVE  DeliveryInv'
<1>0. UNCHANGED <<send, job, notif>> /\ mishaps' = mishaps
  BY DEF Asks, MarksAllRead, Finds, NoMishap
<1>1. CASE MarksAllRead(u)
  <2>1. UNCHANGED call /\ row' = Set(RowsFor(Notifs, u), "READ")
    BY <1>1 DEF MarksAllRead
  <2>2. \A r \in Rows : (Exists(r)' <=> Exists(r)) /\ (row'[r] \in {"PENDING", "SENT", "FAILED"} => row[r] = row'[r])
    BY <2>1, SetFacts DEF Status, Exists
  <2>3. CallsOK'
    <3>1. \A c \in Calls : call[c].pc # "idle" => Current(c) \in Notifs
      BY DEF DeliveryInv, CallsOK, CallOK, Current, NotificationTypes, Called
    <3> QED
      BY <1>0, <2>1, <2>2, <3>1, RowFacts DEF DeliveryInv, CallsOK, CallOK, Current
  <2>4. BeingDropped => BeingDropped'
    BY <1>0, <2>1, <2>2, RowFacts DEF BeingDropped
  <2> QED
    BY <1>0, <2>2, <2>3, <2>4, RowsShrink DEF DeliveryInv
<1>2. ASSUME NEW c \in Calls, NEW ns \in SUBSET Notifs, NEW pc \in {"read", "delete"}, Finds(c, u, ns, pc)
      PROVE  DeliveryInv'
  <2>1. /\ call[c] = NoCall /\ ns # {} /\ ns \subseteq InInbox(u) /\ UNCHANGED row
        /\ call' = [call EXCEPT ![c] = [pc |-> pc, user |-> {u}, found |-> ns]]
    BY <1>2 DEF Finds
  <2>2. \A r \in Rows : (Exists(r)' <=> Exists(r)) /\ (row'[r] \in {"PENDING", "SENT", "FAILED"} => row[r] = row'[r])
    BY <2>1 DEF Exists
  <2>3. \A n \in ns : send[n] = "done"
    <3> SUFFICES ASSUME NEW n \in ns, send[n] # "done"
                 PROVE  FALSE
      OBVIOUS
    <3>1. \A r \in RowsFor({n}, u) : row[r] = "NONE"
      BY RowFacts DEF DeliveryInv, NothingYet
    <3>2. Heaviest(row, n, u) = "NONE"
      BY <3>1, HeaviestNone DEF NotificationTypes
    <3> QED
      BY <2>1, <3>2, InboxIsHeaviest DEF InInbox
  <2>4. call'[c] = [pc |-> pc, user |-> {u}, found |-> ns] /\ \A d \in Calls \ {c} : call'[d] = call[d]
    BY <2>1 DEF NotificationTypes
  <2>5. CallOK(c)'
    BY <1>0, <2>1, <2>3, <2>4 DEF CallOK
  <2>6. CallsOK'
    BY <1>0, <2>2, <2>4, <2>5, CallsKept
  <2>7. BeingDropped => BeingDropped'
    <3>1. call[c].pc = "idle"
      BY <2>1 DEF NoCall
    <3>2. \A d \in Calls : call[d].pc \in {"count", "drop"} => call'[d] = call[d]
      BY <2>4, <3>1
    <3> QED
      BY <1>0, <2>2, <3>2, RowFacts DEF BeingDropped
  <2> QED
    BY <1>0, <2>2, <2>6, <2>7, RowsShrink DEF DeliveryInv
<1> QED
  BY <1>1, <1>2 DEF Asks

\* A call loses no notification that it may still have to drop.
LEMMA ProceedsKeeps ==
  ASSUME NotificationTypes, DeliveryInv, mishaps \in Nat, NEW c \in Calls, Proceeds(c)
  PROVE  DeliveryInv'
<1> DEFINE n == Current(c)
           rest == call[c].found \ {n}
<1>0. UNCHANGED <<send, job>> /\ CallOK(c) /\ call[c] \in Called
  BY DEF Proceeds, DeliveryInv, CallsOK, NotificationTypes
<1>1. CASE MarksRead(c) \/ CallFails(c)
  <2>1. UNCHANGED notif /\ call' = [call EXCEPT ![c] = NoCall]
    BY <1>1 DEF MarksRead, CallFails, Returns
  <2>2. \A r \in Rows : (Exists(r)' <=> Exists(r)) /\ (row'[r] \in {"PENDING", "SENT", "FAILED"} => row[r] = row'[r])
    BY <1>1, SetFacts DEF MarksRead, CallFails, Status, Exists
  <2>3. call'[c] = NoCall /\ \A d \in Calls \ {c} : call'[d] = call[d]
    BY <2>1 DEF NotificationTypes
  <2>4. CallsOK'
    <3>1. CallOK(c)'
      BY <2>3 DEF CallOK, NoCall
    <3> QED
      BY <1>0, <2>2, <2>3, <3>1, CallsKept
  <2>5. \/ mishaps' = mishaps /\ call[c].pc = "read"
        \/ mishaps' = mishaps + 1
    BY <1>1 DEF MarksRead, CallFails, NoMishap, Mishap
  <2>6. call[c].pc = "read" => (BeingDropped => BeingDropped')
    BY <1>0, <2>1, <2>2, <2>3, RowFacts DEF BeingDropped
  <2> QED
    BY <1>0, <2>1, <2>2, <2>4, <2>5, <2>6, RowsShrink DEF DeliveryInv
<1>2. CASE DeletesRows(c)
  <2>1. /\ UNCHANGED notif /\ mishaps' = mishaps /\ call[c].pc = "delete"
        /\ row' = Set(Targets(c), "NONE") /\ call' = [call EXCEPT ![c].pc = "count"]
    BY <1>2 DEF DeletesRows, NoMishap
  <2>2. \A r \in Rows : row'[r] = IF r \in Targets(c) /\ Exists(r) THEN "NONE" ELSE row[r]
    BY <2>1, SetFacts DEF Status
  <2>3. \A r \in Rows : /\ Exists(r)' => Exists(r)
                        /\ row'[r] \in {"PENDING", "SENT", "FAILED"} => row[r] = row'[r]
                        /\ Exists(r) /\ ~Exists(r)' => r[1] \in call[c].found
    BY <2>2 DEF Exists, Targets
  <2>4. /\ call'[c].pc = "count" /\ call'[c].found = call[c].found /\ call'[c].user = call[c].user
        /\ \A d \in Calls \ {c} : call'[d] = call[d]
    BY <1>0, <2>1 DEF NotificationTypes, Called
  <2>5. CallsOK'
    <3>1. CallOK(c)'
      BY <1>0, <2>1, <2>4 DEF CallOK
    <3> QED
      BY <1>0, <2>3, <2>4, <3>1, CallsKept
  <2>6. BeingDropped => BeingDropped'
    <3> SUFFICES ASSUME BeingDropped, NEW m \in Notifs
                 PROVE  \/ notif[m] = "DELETED"
                        \/ \A r \in RowsOf(m) : job[r] = "none"
                        \/ \E r \in RowsOf(m) : Exists(r)'
                        \/ \E d \in Calls : call'[d].pc \in {"count", "drop"} /\ m \in call'[d].found
      BY <1>0, <2>1 DEF BeingDropped
    <3>1. CASE \E r \in RowsOf(m) : Exists(r)
      <4>1. PICK r \in RowsOf(m) : Exists(r)
        BY <3>1
      <4>2. r \in Rows /\ r[1] = m
        BY RowFacts
      <4> QED
        BY <2>3, <2>4, <4>1, <4>2
    <3>2. CASE \E d \in Calls : call[d].pc \in {"count", "drop"} /\ m \in call[d].found
      BY <2>1, <2>4, <3>2
    <3> QED
      BY <3>1, <3>2 DEF BeingDropped
  <2> QED
    BY <1>0, <2>1, <2>3, <2>5, <2>6, RowsShrink DEF DeliveryInv
<1>3. CASE CountsLeft(c)
  <2>1. UNCHANGED <<notif, row>> /\ mishaps' = mishaps /\ call[c].pc = "count"
    BY <1>3 DEF CountsLeft, NoMishap
  <2>2. \A r \in Rows : (Exists(r)' <=> Exists(r)) /\ (row'[r] \in {"PENDING", "SENT", "FAILED"} => row[r] = row'[r])
    BY <2>1 DEF Exists
  <2>3. n \in call[c].found /\ call[c].found \subseteq Notifs /\ \A d \in Calls \ {c} : call'[d] = call[d]
    BY <1>0, <1>3, <2>1 DEF CallOK, Current, Called, CountsLeft, NotificationTypes
  <2>4. \/ /\ \A r \in RowsOf(n) : ~Exists(r)
           /\ call'[c] = [call[c] EXCEPT !.pc = "drop"]
        \/ /\ \E r \in RowsOf(n) : Exists(r)
           /\ call'[c] = IF rest = {} THEN NoCall ELSE [call[c] EXCEPT !.found = rest]
    BY <1>3 DEF CountsLeft, Current, NotificationTypes
  <2>5. CallsOK'
    <3>1. CASE call'[c] = [call[c] EXCEPT !.pc = "drop"] /\ \A r \in RowsOf(n) : ~Exists(r)
      <4>1. /\ call'[c].pc = "drop" /\ call'[c].found = call[c].found
            /\ call'[c].user = call[c].user /\ Current(c)' = n
        BY <1>0, <3>1 DEF Called, Current
      <4>2. \A r \in RowsOf(n) : ~Exists(r)'
        BY <2>1, <3>1 DEF Exists
      <4>3. CallOK(c)'
        BY <1>0, <2>1, <4>1, <4>2 DEF CallOK
      <4> QED
        BY <1>0, <2>2, <2>3, <4>3, CallsKept
    <3>2. CASE call'[c] = IF rest = {} THEN NoCall ELSE [call[c] EXCEPT !.found = rest]
      <4>1. CallOK(c)'
        BY <1>0, <2>1, <3>2 DEF CallOK, Called, NoCall
      <4> QED
        BY <1>0, <2>2, <2>3, <4>1, CallsKept
    <3> QED
      BY <2>4, <3>1, <3>2
  <2>6. BeingDropped => BeingDropped'
    <3> SUFFICES ASSUME NEW m \in Notifs, NEW d \in Calls,
                        call[d].pc \in {"count", "drop"}, m \in call[d].found
                 PROVE  \/ \E r \in RowsOf(m) : Exists(r)
                        \/ \E e \in Calls : call'[e].pc \in {"count", "drop"} /\ m \in call'[e].found
      BY <1>0, <2>1 DEF BeingDropped, Exists
    <3>1. CASE d # c
      BY <2>3, <3>1
    <3>2. CASE d = c
      BY <1>0, <2>1, <2>4, <3>2 DEF Called
    <3> QED
      BY <3>1, <3>2
  <2> QED
    BY <1>0, <2>1, <2>2, <2>5, <2>6, RowsShrink DEF DeliveryInv
<1>4. CASE DropsNotification(c)
  <2>1. /\ mishaps' = mishaps /\ call[c].pc = "drop" /\ notif' = [notif EXCEPT ![n] = "DELETED"]
        /\ row' = Set(RowsOf(n), "NONE")
        /\ call' = [call EXCEPT ![c] =
                      IF rest = {} THEN NoCall ELSE [@ EXCEPT !.pc = "count", !.found = rest]]
    BY <1>4 DEF DropsNotification, NoMishap, Current
  <2>2. /\ n \in call[c].found /\ n \in Notifs /\ send[n] = "done" /\ call[c].found \subseteq Notifs
        /\ \A r \in RowsOf(n) : ~Exists(r)
    BY <1>0, <2>1 DEF CallOK, Current, Called
  <2>3. \A r \in Rows : row'[r] = row[r]
    BY <2>1, <2>2, SetFacts DEF Status
  <2>4. \A d \in Calls \ {c} : call'[d] = call[d]
    BY <2>1 DEF NotificationTypes
  <2>5. call'[c] = IF rest = {} THEN NoCall ELSE [call[c] EXCEPT !.pc = "count", !.found = rest]
    BY <2>1 DEF NotificationTypes
  <2>6. CallsOK'
    <3>1. ASSUME rest = {}
          PROVE  CallOK(c)'
      BY <2>5, <3>1 DEF CallOK, NoCall
    <3>2. ASSUME rest # {}
          PROVE  CallOK(c)'
      <4>1. /\ call'[c].pc = "count" /\ call'[c].found = rest /\ call'[c].user = call[c].user
        BY <1>0, <2>5, <3>2 DEF Called
      <4> QED
        BY <1>0, <2>1, <3>2, <4>1 DEF CallOK
    <3>3. CallOK(c)'
      BY <3>1, <3>2
    <3> QED
      BY <1>0, <2>3, <2>4, <3>3, CallsKept DEF Exists
  <2>7. \A m \in Notifs : notif'[m] = IF m = n THEN "DELETED" ELSE notif[m]
    BY <2>1 DEF NotificationTypes
  <2>8. NothingYet' /\ NonePending' /\ Outcomes'
    BY <1>0, <2>2, <2>3, <2>7, RowFacts DEF DeliveryInv, NothingYet, NonePending, Pending, Outcomes
  <2>9. BeingDelivered' /\ BeingClosed'
    BY <1>0, <2>3, <2>7, RowFacts DEF DeliveryInv, BeingDelivered, BeingClosed
  <2>10. BeingDropped => BeingDropped'
    <3> SUFFICES ASSUME NEW m \in Notifs \ {n}, NEW d \in Calls,
                        call[d].pc \in {"count", "drop"}, m \in call[d].found
                 PROVE  \E e \in Calls : call'[e].pc \in {"count", "drop"} /\ m \in call'[e].found
      BY <1>0, <2>3, <2>7, RowFacts DEF BeingDropped, Exists
    <3>1. CASE d # c
      BY <2>4, <3>1
    <3>2. CASE d = c
      BY <1>0, <2>5, <3>2 DEF Called
    <3> QED
      BY <3>1, <3>2
  <2> QED
    BY <2>1, <2>6, <2>8, <2>9, <2>10 DEF DeliveryInv
<1> QED
  BY <1>1, <1>2, <1>3, <1>4 DEF Proceeds

\* A restart forgets the events and the calls, and counts as a mishap.
LEMMA RestartKeeps ==
  ASSUME NotificationTypes, DeliveryInv, mishaps \in Nat, Restart
  PROVE  NotificationTypes' /\ DeliveryInv'
<1>1. UNCHANGED <<notif, row, asks>> /\ mishaps' # 0 /\ call' = [c \in Calls |-> NoCall]
  BY DEF Restart, Mishap
<1>2. /\ send' = [n \in Notifs |-> IF send[n] = "rows" THEN "lost" ELSE send[n]]
      /\ job' = [r \in Rows |-> IF job[r] \in Running THEN "lost" ELSE job[r]]
  BY DEF Restart, Running
<1>3. NotificationTypes'
  BY <1>1, <1>2 DEF NotificationTypes, NoCall, Called, Running
<1>4. \A r \in Rows : job'[r] \notin Untried /\ (job[r] \in Running \cup {"lost"} <=> job'[r] = "lost")
  BY <1>2 DEF Running, Untried
<1>5. NothingYet'
  BY <1>1, <1>2, RowFacts DEF DeliveryInv, NothingYet, Running, Untried
<1>6. CallsOK' /\ NonePending' /\ Outcomes'
  BY <1>1, <1>4 DEF DeliveryInv, CallsOK, CallOK, NoCall, NonePending, Pending, Outcomes
<1>7. BeingDelivered'
  BY <1>1, <1>4 DEF DeliveryInv, BeingDelivered, Running
<1>8. BeingClosed'
  BY <1>1, <1>2, <1>4, RowFacts DEF DeliveryInv, BeingClosed
<1> QED
  BY <1>1, <1>3, <1>5, <1>6, <1>7, <1>8 DEF DeliveryInv

\* Connections touch nothing of notifications, and take no mishap back.
LEMMA ConnectionKeeps ==
  ASSUME NotificationTypes, DeliveryInv, mishaps \in Nat, NEW k \in Sockets, Connection(k), UNCHANGED nvars
  PROVE  NotificationTypes' /\ DeliveryInv'
<1>1. mishaps' = 0 => mishaps = 0
  <2>1. CASE RedisFails(k)
    BY <2>1 DEF RedisFails
  <2>2. CASE ~RedisFails(k)
    <3>1. UNCHANGED mishaps
      BY <2>2 DEF Connection, Connects, CountsUp, CountsDeviceUp, WritesOnline, Disconnects,
                  CountsDown, CountsDeviceDown, WritesLeft
    <3> QED
      BY <3>1
  <2> QED
    BY <2>1, <2>2
<1>2. UNCHANGED <<notif, row, send, job, call, asks>>
  BY DEF nvars
<1>3. /\ NothingYet' /\ NonePending' /\ Outcomes' /\ BeingDelivered' /\ BeingClosed'
      /\ BeingDropped' = BeingDropped /\ NotificationTypes'
  BY <1>2 DEF DeliveryInv, NothingYet, NonePending, Pending, Outcomes, BeingDelivered,
              BeingClosed, BeingDropped, NotificationTypes, Exists
<1>4. CallsOK'
  BY <1>2 DEF DeliveryInv, CallsOK, CallOK, Current, Exists
<1> QED
  BY <1>1, <1>3, <1>4 DEF DeliveryInv

-----------------------------------------------------------------------------
(* The invariant and what follows from it.                                 *)

Inv == PresenceTypes /\ PresenceInv /\ NotificationTypes /\ DeliveryInv

LEMMA InvInit == Init => Inv
<1> SUFFICES ASSUME Init
             PROVE  Inv
  OBVIOUS
<1>1. PInit
  BY DEF Init
<1> QED
  BY <1>1, PresenceTypesInit, PresenceInvInit, NotificationTypesInit, DeliveryInvInit DEF Inv

\* One step per action; the presence of users only changes with connections.
LEMMA InvNext == Inv /\ [Next]_vars => Inv'
<1> SUFFICES ASSUME Inv, [Next]_vars
             PROVE  Inv'
  OBVIOUS
<1>0. mishaps \in Nat
  BY DEF Inv, PresenceTypes
<1>1. CASE \E k \in Sockets : Connection(k) /\ UNCHANGED nvars
  BY <1>0, <1>1, ConnectionTyped, ConnectionFollowed, ConnectionKeeps DEF Inv
<1>2. CASE \E n \in Notifs : Sending(n)
  <2>1. Keeping /\ mishaps' \in Nat
    BY <1>0, <1>2 DEF Sending, SavesNotification, SavesRows, TellsNobody, SendFails, NoMishap, Mishap
  <2> QED
    BY <1>0, <1>2, <2>1, KeepingFollowed, SendingTyped, SendingKeeps DEF Inv
<1>3. CASE \E r \in Rows : Delivering(r)
  <2>1. Keeping /\ mishaps' \in Nat
    BY <1>0, <1>3 DEF Delivering, ReadsPresence, MarksSent, MarksFailed, FinishesIfLast, NoMishap, Mishap
  <2> QED
    BY <1>0, <1>3, <2>1, KeepingFollowed, DeliveringTyped, DeliveringKeeps DEF Inv
<1>4. CASE \E u \in Users : Asks(u)
  <2>1. Keeping /\ mishaps' \in Nat
    BY <1>0, <1>4 DEF Asks, MarksAllRead, Finds, NoMishap
  <2> QED
    BY <1>0, <1>4, <2>1, KeepingFollowed, AsksTyped, AsksKeeps DEF Inv
<1>5. CASE \E c \in Calls : Proceeds(c)
  <2>1. Keeping /\ mishaps' \in Nat
    BY <1>0, <1>5 DEF Proceeds, MarksRead, DeletesRows, CountsLeft, DropsNotification, CallFails, NoMishap, Mishap
  <2> QED
    BY <1>0, <1>5, <2>1, KeepingFollowed, ProceedsTyped, ProceedsKeeps DEF Inv
<1>6. CASE Restart
  <2>1. SocketsDie /\ mishaps' = mishaps + 1
    BY <1>6 DEF Restart, Mishap
  <2> QED
    BY <1>0, <1>6, <2>1, RestartFollowed, RestartKeeps DEF Inv
<1>7. CASE UNCHANGED vars
  <2>1. UNCHANGED pvars /\ UNCHANGED <<notif, row, send, job, call, asks, mishaps>>
    BY <1>7 DEF vars, nvars, pvars
  <2>2. PresenceTypes' /\ PresenceInv'
    BY <1>0, <2>1, KeepingFollowed DEF Inv, Keeping, pvars
  <2>3. NotificationTypes' /\ NothingYet' /\ NonePending' /\ Outcomes' /\ BeingDelivered'
        /\ BeingClosed' /\ BeingDropped' = BeingDropped
    BY <2>1 DEF Inv, NotificationTypes, DeliveryInv, NothingYet, NonePending, Pending, Outcomes,
                BeingDelivered, BeingClosed, BeingDropped, Exists
  <2>4. CallsOK'
    BY <2>1 DEF Inv, DeliveryInv, CallsOK, CallOK, Current, Exists
  <2> QED
    BY <2>1, <2>2, <2>3, <2>4 DEF Inv, DeliveryInv
<1> QED
  BY <1>1, <1>2, <1>3, <1>4, <1>5, <1>6, <1>7 DEF Next

LEMMA InvAlways == Spec => []Inv
  BY InvInit, InvNext, PTL DEF Spec

\* Every variable keeps its type: the hashes of the gateway, the rows of the
\* notification service and the calls in flight.
THEOREM NotificationsTypeCorrect == Spec => [](PresenceTypes /\ NotificationTypes)
<1>1. Inv => PresenceTypes /\ NotificationTypes
  BY DEF Inv
<1> QED
  BY <1>1, InvAlways, PTL

\* Whatever the order in which sockets come and go, the hash of a user whose
\* handlers did not overlap counts the user's sockets, in all and per device.
THEOREM PresenceIsExact == Spec => []PresenceExact
<1>1. Inv => PresenceExact
  BY FollowedExact DEF Inv
<1> QED
  BY <1>1, InvAlways, PTL

\* A notification is SENT only when the outcome of every delivery is on record, also
\* after failures and restarts, or its user had read or deleted it before.
THEOREM SentIsTried == Spec => []SentMeansTried
<1>1. Inv => SentMeansTried
  <2> SUFFICES ASSUME Inv, NEW n \in Notifs, notif[n] = "SENT", NEW r \in RowsOf(n)
               PROVE  Settled(r)
    BY DEF SentMeansTried
  <2>1. r \in Rows /\ row[r] \in Status
    BY RowFacts DEF Inv, NotificationTypes
  <2>2. row[r] # "PENDING"
    BY DEF Inv, DeliveryInv, NonePending, Pending
  <2> QED
    BY <2>1, <2>2 DEF Inv, DeliveryInv, Outcomes, Settled, Status
<1> QED
  BY <1>1, InvAlways, PTL

\* Deletions in any order leave no notification without rows behind.
THEOREM NothingOrphaned == Spec => []NoOrphans
<1>1. Inv => NoOrphans
  <2> SUFFICES ASSUME Inv
               PROVE  NoOrphans
    OBVIOUS
  <2>1. mishaps = 0 => BeingDropped
    BY DEF Inv, DeliveryInv
  <2>2. mishaps \in Nat
    BY DEF Inv, PresenceTypes
  <2> QED
    BY <2>1, <2>2 DEF NoOrphans, BeingDropped
<1> QED
  BY <1>1, InvAlways, PTL

\* The last of any number of listeners closes the notification, unless a restart or a
\* failing query took one of its own; one without channels nothing closes.
THEOREM QuietIsSettled == Spec => []SettledWhenQuiet
<1>1. Inv => SettledWhenQuiet
  BY RowFacts DEF Inv, DeliveryInv, SettledWhenQuiet, NothingYet, BeingClosed, Running, Untried
<1> QED
  BY <1>1, InvAlways, PTL

-----------------------------------------------------------------------------
(* What no step does.                                                      *)

\* New rows are rows that did not exist and had no delivery.
LEMMA SendingAdds ==
  ASSUME Inv, NEW n \in Notifs, Sending(n), NEW r \in Rows, row[r] # "NONE" \/ job[r] # "none"
  PROVE  row'[r] = row[r] /\ job'[r] = job[r]
<1>1. CASE SavesRows(n)
  <2>1. PICK us \in (SUBSET Users) \ {{}}, chs \in Templates : Adds({n} \X us \X chs)
    BY <1>1 DEF SavesRows
  <2>2. chs \subseteq Channels
    BY NotificationAssumption
  <2>3. send[n] # "done"
    BY <1>1 DEF SavesRows
  <2>4. r \notin RowsOf(n)
    BY <2>3 DEF Inv, DeliveryInv, NothingYet
  <2>5. r \notin {n} \X us \X chs
    BY <2>2, <2>4 DEF RowsOf
  <2> QED
    BY <2>1, <2>5 DEF Adds
<1>2. CASE ~SavesRows(n)
  BY <1>2 DEF Sending, SavesNotification, TellsNobody, SendFails
<1> QED
  BY <1>1, <1>2

\* A call writes READ or deletes what it found; the deletion of the notification
\* takes no row, because none is left by then.
LEMMA ProceedsWrites ==
  ASSUME Inv, NEW c \in Calls, Proceeds(c)
  PROVE  \/ \A r \in Rows : row'[r] = row[r]
         \/ \A r \in Rows : row'[r] = IF r \in Targets(c) /\ Exists(r) THEN "READ" ELSE row[r]
         \/ \A r \in Rows : row'[r] = IF r \in Targets(c) /\ Exists(r) THEN "NONE" ELSE row[r]
<1>0. NotificationTypes /\ CallOK(c)
  BY DEF Inv, DeliveryInv, CallsOK
<1>1. CASE MarksRead(c)
  BY <1>0, <1>1, SetFacts DEF MarksRead, Status
<1>2. CASE DeletesRows(c)
  BY <1>0, <1>2, SetFacts DEF DeletesRows, Status
<1>3. CASE DropsNotification(c)
  <2>1. row' = Set(RowsOf(Current(c)), "NONE") /\ \A r \in RowsOf(Current(c)) : ~Exists(r)
    BY <1>0, <1>3 DEF DropsNotification, CallOK, Current
  <2> QED
    BY <1>0, <2>1, SetFacts DEF Status
<1>4. CASE CountsLeft(c) \/ CallFails(c)
  BY <1>4 DEF CountsLeft, CallFails
<1> QED
  BY <1>1, <1>2, <1>3, <1>4 DEF Proceeds

\* A user's question writes READ or nothing.
LEMMA AsksWrites ==
  ASSUME Inv, NEW u \in Users, Asks(u), NEW r \in Rows
  PROVE  row'[r] = row[r] \/ (row[r] # "NONE" /\ row'[r] = "READ")
<1>1. CASE MarksAllRead(u)
  BY <1>1, SetFacts DEF MarksAllRead, Inv, Status, Exists
<1>2. CASE ~MarksAllRead(u)
  BY <1>2 DEF Asks, Finds
<1> QED
  BY <1>1, <1>2

LEMMA QuietRows ==
  ASSUME \/ \E k \in Sockets : Connection(k) /\ UNCHANGED nvars
         \/ Restart \/ UNCHANGED vars
  PROVE  row' = row
BY DEF Restart, nvars, vars

\* In one step a row that was read after its delivery stays READ, or the user
\* deletes all the rows of the notification.
LEMMA ReadStaysRead ==
  ASSUME Inv, [Next]_vars, NEW n \in Notifs, NEW u \in Users, NEW r \in RowsFor({n}, u),
         row[r] = "READ", job[r] \notin Untried
  PROVE  row'[r] = "READ" \/ \A o \in RowsFor({n}, u) : row'[o] = "NONE"
<1>0. r \in Rows /\ r[1] = n /\ r[2] = u /\ RowsFor({n}, u) \subseteq Rows
  BY RowFacts
<1>1. CASE \E m \in Notifs : Sending(m)
  BY <1>0, <1>1, SendingAdds
<1>2. CASE \E q \in Rows : Delivering(q)
  <2>1. PICK q \in Rows : Delivering(q)
    BY <1>2
  <2>2. CASE q # r
    BY <1>0, <2>1, <2>2, ListenerLocal DEF Inv
  <2>3. CASE q = r
    BY <2>1, <2>3 DEF Delivering, ReadsPresence, MarksSent, MarksFailed, FinishesIfLast, At, Untried
  <2> QED
    BY <2>2, <2>3
<1>3. CASE \E v \in Users : Asks(v)
  BY <1>0, <1>3, AsksWrites
<1>4. CASE \E c \in Calls : Proceeds(c)
  <2>1. PICK c \in Calls : Proceeds(c)
    BY <1>4
  <2>2. r \in Targets(c) => RowsFor({n}, u) \subseteq Targets(c)
    <3> SUFFICES ASSUME r \in Targets(c), NEW o \in RowsFor({n}, u)
                 PROVE  o \in Targets(c)
      OBVIOUS
    <3>1. n \in call[c].found /\ u \in call[c].user
      BY <1>0 DEF Targets
    <3> QED
      BY <3>1 DEF RowsFor, Targets
  <2> QED
    BY <1>0, <2>1, <2>2, ProceedsWrites DEF Exists
<1> QED
  BY <1>1, <1>2, <1>3, <1>4, QuietRows DEF Next

\* A notification once seen as read, its delivery over, is never unread again,
\* whatever listeners of its other channels and other calls do.
THEOREM ReadStays == Spec => ReadSticks
<1>1. ASSUME Inv, Inv', [Next]_vars, NEW n \in Notifs, NEW u \in Users,
             \E r \in RowsFor({n}, u) : row[r] = "READ" /\ job[r] \notin Untried
      PROVE  InboxStatus(n, u)' \in {"READ", "NONE"}
  <2>1. PICK r \in RowsFor({n}, u) : row[r] = "READ" /\ job[r] \notin Untried
    BY <1>1
  <2>2. row'[r] = "READ" \/ \A o \in RowsFor({n}, u) : row'[o] = "NONE"
    BY <1>1, <2>1, ReadStaysRead
  <2>3. row' \in [Rows -> Status]
    BY <1>1 DEF Inv, NotificationTypes
  <2>4. Heaviest(row', n, u) \in {"READ", "NONE"}
    BY <2>2, <2>3, HeaviestRead, HeaviestNone
  <2> QED
    BY <2>4, InboxIsHeaviest
<1>2. Inv /\ Inv' /\ [Next]_vars =>
         [\A n \in Notifs, u \in Users :
             (\E r \in RowsFor({n}, u) : row[r] = "READ" /\ job[r] \notin Untried)
             => InboxStatus(n, u)' \in {"READ", "NONE"}]_vars
  BY <1>1
<1> QED
  BY <1>2, InvAlways, PTL DEF Spec, ReadSticks

\* Nobody's rows disappear but by that user's own deletion, although deleting
\* the last row of a notification deletes the notification with its rows.
THEOREM OnlyOwnDeletions == Spec => NobodyElseDeletes
<1>1. ASSUME Inv, [Next]_vars, NEW r \in Rows, Exists(r), ~Exists(r)'
      PROVE  \E c \in Calls : r \in Targets(c)
  <2>1. row[r] # "NONE" /\ row'[r] = "NONE"
    BY <1>1 DEF Exists
  <2>2. ~\E n \in Notifs : Sending(n)
    BY <1>1, <2>1, SendingAdds
  <2>3. ~\E q \in Rows : Delivering(q)
    BY <1>1, ListenerLocal DEF Inv
  <2>4. ~\E u \in Users : Asks(u)
    BY <1>1, <2>1, AsksWrites
  <2>5. CASE \E c \in Calls : Proceeds(c)
    BY <1>1, <2>1, <2>5, ProceedsWrites
  <2> QED
    BY <1>1, <2>1, <2>2, <2>3, <2>4, <2>5, QuietRows DEF Next
<1>2. Inv /\ [Next]_vars =>
         [\A r \in Rows : Exists(r) /\ ~Exists(r)' => \E c \in Calls : r \in Targets(c)]_vars
  BY <1>1
<1> QED
  BY <1>2, InvAlways, PTL DEF Spec, NobodyElseDeletes

\* A listener leaves the push out only when the hash says online, and then the
\* user is connected, disconnecting, or was once disturbed.
THEOREM PushSkippedRightly == Spec => PushSkippedOnlyIfThere
<1>1. ASSUME Inv, [Next]_vars, NEW r \in Rows, At(r, "presence"), At(r, "update")'
      PROVE  r[2] \in disturbed \/ OpenOf(r[2]) # {} \/ Handling(r[2]) # {}
  <2>1. job[r] = "presence" /\ job'[r] = "update"
    BY <1>1 DEF At
  <2>2. ~\E n \in Notifs : Sending(n)
    BY <1>1, <2>1, SendingAdds
  <2>3. CASE \E q \in Rows : Delivering(q)
    <3>1. Delivering(r)
      BY <1>1, <2>1, <2>3, ListenerLocal DEF Inv
    <3>2. presence[r[2]].online
      BY <1>1, <2>1, <3>1 DEF Delivering, ReadsPresence, MarksSent, MarksFailed, FinishesIfLast, At,
                              GoesTo, Inv, NotificationTypes
    <3>3. PresenceExact /\ r[2] \in Users
      BY <1>1, FollowedExact, RowFacts DEF Inv
    <3> QED
      BY <3>2, <3>3 DEF PresenceExact
  <2>4. job'[r] = job[r] \/ job'[r] = "lost" \/ \E q \in Rows : Delivering(q)
    BY <1>1, <2>2 DEF Next, nvars, vars, Asks, Proceeds, Restart
  <2> QED
    BY <2>1, <2>3, <2>4
<1>2. Inv /\ [Next]_vars =>
         [\A r \in Rows : At(r, "presence") /\ At(r, "update")' =>
             r[2] \in disturbed \/ OpenOf(r[2]) # {} \/ Handling(r[2]) # {}]_vars
  BY <1>1
<1> QED
  BY <1>2, InvAlways, PTL DEF Spec, PushSkippedOnlyIfThere
=============================================================================
