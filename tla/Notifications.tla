---------------------------- MODULE Notifications ---------------------------
(***************************************************************************)
(* A notification, its recipients and their delivery.  send saves the      *)
(* notification, then one row per recipient and channel, then emits one    *)
(* event per row; a listener delivers each row on its own, beside the      *)
(* users who read and delete what is in their inbox.  Events are kept in   *)
(* memory only.                                                            *)
(***************************************************************************)
EXTENDS Presence

CONSTANTS
    Notifs, Channels,
    Templates,  \* the channels a template can ask for, possibly none
    MaxRows,    \* rows of one notification
    Urgent,     \* notifications of an urgent type: pushed to devices as well
    Calls,      \* requests about the inbox that may be in flight at once
    MaxAsks     \* how many such requests there are

ASSUME NotificationAssumption ==
    /\ Urgent \subseteq Notifs
    /\ Templates \subseteq SUBSET Channels
    /\ MaxRows \in Nat /\ MaxAsks \in Nat
    /\ IsFiniteSet(Notifs) /\ IsFiniteSet(Users) /\ IsFiniteSet(Channels)
    /\ Channels # {}

VARIABLES
    notif,   \* sys_notification rows
    row,     \* notification_recipient rows
    send,    \* how far send is with each notification; "mute" if it was for no channel
    job,     \* how far the listener is with each row; "lost" if it ends without counting
    call,    \* the requests about the inbox in flight
    asks     \* how many there were

nvars == <<notif, row, send, job, call, asks>>
vars == <<pvars, nvars>>

Rows == Notifs \X Users \X Channels
RowsOf(n) == {n} \X Users \X Channels
RowsFor(ns, u) == ns \X {u} \X Channels

Weight == [READ |-> 4, SENT |-> 3, FAILED |-> 2, PENDING |-> 1, NONE |-> 0]
Exists(r) == row[r] # "NONE"
Untried == {"presence", "update", "pushed", "fail"}
NoCall == [pc |-> "idle", user |-> {}, found |-> {}]

Init ==
    /\ PInit
    /\ notif = [n \in Notifs |-> "NONE"]
    /\ row = [r \in Rows |-> "NONE"]
    /\ send = [n \in Notifs |-> "none"]
    /\ job = [r \in Rows |-> "none"]
    /\ call = [c \in Calls |-> NoCall]
    /\ asks = 0

Mishap == mishaps < MaxMishaps /\ mishaps' = mishaps + 1
NoMishap == UNCHANGED mishaps
Keeping == UNCHANGED <<open, up, down, presence, disturbed>>

\* UPDATE of the rows rs, those of them that exist.
Set(rs, status) == [r \in Rows |-> IF r \in rs /\ Exists(r) THEN status ELSE row[r]]

\* Where the delivery of a row starts: APP and PUSH, which go to the user's
\* room first, look whether the user is online; EMAIL and SMS are mocks.
First(ch) == CASE ch \in {"APP", "PUSH"} -> "presence"
               [] ch \in {"EMAIL", "SMS"} -> "update"
               [] OTHER -> "fail"

-----------------------------------------------------------------------------
(* send.                                                                   *)

SavesNotification(n) ==
    /\ send[n] = "none"
    /\ notif' = [notif EXCEPT ![n] = "PROCESSING"]
    /\ send' = [send EXCEPT ![n] = "rows"]
    /\ NoMishap /\ UNCHANGED <<row, job, call>>

Adds(rs) ==
    /\ row' = [r \in Rows |-> IF r \in rs THEN "PENDING" ELSE row[r]]
    /\ job' = [r \in Rows |-> IF r \in rs THEN First(r[3]) ELSE job[r]]

\* A row per recipient and channel of the template, all in one save, then the
\* events.  A template may name no channel: then there is neither.
SavesRows(n) ==
    /\ send[n] = "rows"
    /\ \E us \in (SUBSET Users) \ {{}}, chs \in Templates :
          /\ Cardinality(us) * Cardinality(chs) <= MaxRows
          /\ Adds({n} \X us \X chs)
          /\ send' = [send EXCEPT ![n] = IF chs = {} THEN "mute" ELSE "done"]
    /\ NoMishap /\ UNCHANGED <<notif, call>>

\* Nobody to tell, or the query for recipients failed.
TellsNobody(n) ==
    /\ send[n] = "rows"
    /\ notif' = [notif EXCEPT ![n] = "SENT"]
    /\ send' = [send EXCEPT ![n] = "done"]
    /\ NoMishap /\ UNCHANGED <<row, job, call>>

SendFails(n) ==
    /\ Mishap
    /\ send[n] = "rows"
    /\ send' = [send EXCEPT ![n] = "lost"]
    /\ UNCHANGED <<notif, row, job, call>>

Sending(n) ==
    /\ \/ SavesNotification(n) \/ SavesRows(n) \/ TellsNobody(n) \/ SendFails(n)
    /\ Keeping /\ UNCHANGED asks

-----------------------------------------------------------------------------
(* NotificationDispatchListener.handleDispatch, for the row r.             *)

At(r, pc) == job[r] = pc
GoesTo(r, pc) == job' = [job EXCEPT ![r] = pc]

\* A user who is online hears only an urgent notification twice.
ReadsPresence(r) ==
    /\ At(r, "presence")
    /\ \/ NoMishap /\ GoesTo(r, IF presence[r[2]].online /\ r[1] \notin Urgent
                                THEN "update" ELSE "pushed")
       \/ Mishap /\ GoesTo(r, "pushed")
    /\ UNCHANGED <<notif, row>>

\* Mutant of MarksSent: every row of the user is updated.
MarksAllSent(r) ==
    /\ At(r, "update") \/ At(r, "pushed")
    /\ row' = Set(RowsFor({r[1]}, r[2]), "SENT")
    /\ GoesTo(r, "count")
    /\ NoMishap /\ UNCHANGED notif

MarksSent(r) ==
    /\ At(r, "update") \/ At(r, "pushed")
    /\ \/ NoMishap /\ row' = Set({r}, "SENT") /\ GoesTo(r, "count")
       \/ Mishap /\ GoesTo(r, "fail") /\ UNCHANGED row
    /\ UNCHANGED notif

\* An UPDATE that fails here leaves the handler: the row stays PENDING.
MarksFailed(r) ==
    /\ At(r, "fail")
    /\ \/ NoMishap /\ row' = Set({r}, "FAILED") /\ GoesTo(r, "count")
       \/ Mishap /\ GoesTo(r, "lost") /\ UNCHANGED row
    /\ UNCHANGED notif

Pending(n) == {r \in RowsOf(n) : row[r] = "PENDING"}

\* Mutant of FinishesIfLast: only rows of the same channel are counted.
FinishesChannel(r) ==
    /\ At(r, "count")
    /\ notif' = [notif EXCEPT ![r[1]] =
          IF @ # "DELETED" /\ \A o \in Pending(r[1]) : o[3] # r[3] THEN "SENT" ELSE @]
    /\ GoesTo(r, "done")
    /\ NoMishap /\ UNCHANGED row

\* Mutant of FinishesIfLast: a row that is READ by now counts as remaining.
FinishesUnread(r) ==
    /\ At(r, "count")
    /\ notif' = [notif EXCEPT ![r[1]] =
          IF @ # "DELETED" /\ \A o \in RowsOf(r[1]) : row[o] \notin {"PENDING", "READ"}
          THEN "SENT" ELSE @]
    /\ GoesTo(r, "done")
    /\ NoMishap /\ UNCHANGED row

\* Counts what is PENDING and updates the notification.  Nothing becomes
\* PENDING again, so nothing can happen between the two that matters.
FinishesIfLast(r) ==
    /\ At(r, "count")
    /\ \/ /\ notif' = [notif EXCEPT ![r[1]] =
                IF @ # "DELETED" /\ Pending(r[1]) = {} THEN "SENT" ELSE @]
          /\ NoMishap /\ GoesTo(r, "done")
       \/ Mishap /\ GoesTo(r, "lost") /\ UNCHANGED notif
    /\ UNCHANGED row

Delivering(r) ==
    /\ \/ ReadsPresence(r) \/ MarksSent(r) \/ MarksFailed(r)
       \/ FinishesIfLast(r)
    /\ Keeping /\ UNCHANGED <<send, call, asks>>

-----------------------------------------------------------------------------
(* The inbox of user u: markAsRead, bulkMarkAsRead, markAllAsRead,         *)
(* deleteNotification, bulkDelete.                                         *)

\* The one row per notification that the inbox shows: the heaviest.
InboxStatus(n, u) ==
    CHOOSE s \in {row[r] : r \in RowsFor({n}, u)} :
        \A r \in RowsFor({n}, u) : Weight[row[r]] <= Weight[s]

InInbox(u) == {n \in Notifs : InboxStatus(n, u) # "NONE"}

Returns(c) == call' = [call EXCEPT ![c] = NoCall]

\* findOne or find, by the ids of rows.
Finds(c, u, ns, pc) ==
    /\ call[c] = NoCall
    /\ ns # {} /\ ns \subseteq InInbox(u)
    /\ call' = [call EXCEPT ![c] = [pc |-> pc, user |-> {u}, found |-> ns]]
    /\ NoMishap /\ UNCHANGED <<notif, row>>

Targets(c) == call[c].found \X call[c].user \X Channels

MarksRead(c) ==
    /\ call[c].pc = "read"
    /\ row' = Set(Targets(c), "READ")
    /\ Returns(c)
    /\ NoMishap /\ UNCHANGED notif

MarksAllRead(u) ==
    /\ row' = Set(RowsFor(Notifs, u), "READ")
    /\ row' # row
    /\ NoMishap /\ UNCHANGED <<notif, call>>

\* Mutant of DeletesRows: the rows are counted before they are deleted.
CountsThenDeletes(c) ==
    /\ call[c].pc = "delete"
    /\ row' = Set(Targets(c), "NONE")
    /\ IF \E n \in call[c].found, u \in Users : InboxStatus(n, u) # "NONE"
       THEN Returns(c)
       ELSE call' = [call EXCEPT ![c].pc = "count"]
    /\ NoMishap /\ UNCHANGED notif

DeletesRows(c) ==
    /\ call[c].pc = "delete"
    /\ row' = Set(Targets(c), "NONE")
    /\ call' = [call EXCEPT ![c].pc = "count"]
    /\ NoMishap /\ UNCHANGED notif

\* Mutant of CountsLeft: rows already READ are not counted.
CountsUnread(c) ==
    /\ call[c].pc = "count"
    /\ LET n == CHOOSE n \in call[c].found : TRUE
           rest == call[c].found \ {n}
       IN  IF \A r \in RowsOf(n) : row[r] \in {"NONE", "READ"}
           THEN call' = [call EXCEPT ![c].pc = "drop"]
           ELSE call' = [call EXCEPT ![c] =
                           IF rest = {} THEN NoCall ELSE [@ EXCEPT !.found = rest]]
    /\ NoMishap /\ UNCHANGED <<notif, row>>

\* The notifications are looked at in turn; one without rows is deleted.
CountsLeft(c) ==
    /\ call[c].pc = "count"
    /\ LET n == CHOOSE n \in call[c].found : TRUE
           rest == call[c].found \ {n}
       IN  IF \A r \in RowsOf(n) : ~Exists(r)
           THEN call' = [call EXCEPT ![c].pc = "drop"]
           ELSE call' = [call EXCEPT ![c] =
                           IF rest = {} THEN NoCall ELSE [@ EXCEPT !.found = rest]]
    /\ NoMishap /\ UNCHANGED <<notif, row>>

\* The recipients' rows go with the notification (ON DELETE CASCADE).
DropsNotification(c) ==
    /\ call[c].pc = "drop"
    /\ LET n == CHOOSE n \in call[c].found : TRUE
           rest == call[c].found \ {n}
       IN  /\ notif' = [notif EXCEPT ![n] = "DELETED"]
           /\ row' = Set(RowsOf(n), "NONE")
           /\ call' = [call EXCEPT ![c] =
                 IF rest = {} THEN NoCall ELSE [@ EXCEPT !.pc = "count", !.found = rest]]
    /\ NoMishap

CallFails(c) ==
    /\ Mishap
    /\ call[c] # NoCall
    /\ Returns(c)
    /\ UNCHANGED <<notif, row>>

Proceeds(c) ==
    /\ \/ MarksRead(c) \/ DeletesRows(c) \/ CountsLeft(c) \/ DropsNotification(c)
       \/ CallFails(c)
    /\ Keeping /\ UNCHANGED <<send, job, asks>>

Asks(u) ==
    /\ asks < MaxAsks /\ asks' = asks + 1
    /\ \/ MarksAllRead(u)
       \/ \E c \in Calls, ns \in SUBSET Notifs, pc \in {"read", "delete"} :
             Finds(c, u, ns, pc)
    /\ Keeping /\ UNCHANGED <<send, job>>

-----------------------------------------------------------------------------
Restart ==
    /\ Mishap
    /\ SocketsDie
    /\ send' = [n \in Notifs |-> IF send[n] = "rows" THEN "lost" ELSE send[n]]
    /\ job' = [r \in Rows |-> IF job[r] \in Untried \cup {"count"} THEN "lost" ELSE job[r]]
    /\ call' = [c \in Calls |-> NoCall]
    /\ UNCHANGED <<notif, row, asks>>

Next ==
    \/ \E k \in Sockets : Connection(k) /\ UNCHANGED nvars
    \/ \E n \in Notifs : Sending(n)
    \/ \E r \in Rows : Delivering(r)
    \/ \E u \in Users : Asks(u)
    \/ \E c \in Calls : Proceeds(c)
    \/ Restart

Spec == Init /\ [][Next]_vars

-----------------------------------------------------------------------------
(* What holds.                                                             *)

\* How the delivery of a row ended is on record, or its user had read or deleted the
\* notification: markAllAsRead takes rows nobody has tried to deliver yet.
Settled(r) == \/ row[r] \in {"READ", "NONE"}
              \/ row[r] \in {"SENT", "FAILED"} /\ job[r] \notin Untried

\* A notification is SENT only when every delivery was tried and its outcome is
\* recorded, but for those whose user read or deleted the notification before:
\* listeners that finish together, deletions, failures and restarts change nothing.
SentMeansTried ==
    \A n \in Notifs : notif[n] = "SENT" =>
        \A r \in RowsOf(n) : job[r] = "none" \/ Settled(r)

\* What the inbox shows as read it never shows as unread again, once one of
\* its deliveries was over when it was read.  A delivery that is still under
\* way writes SENT over READ.
ReadSticks ==
    [][\A n \in Notifs, u \in Users :
          (\E r \in RowsFor({n}, u) : row[r] = "READ" /\ job[r] \notin Untried)
          => InboxStatus(n, u)' \in {"READ", "NONE"}]_vars

\* A recipient's rows disappear only when that recipient deletes them: the
\* deletion of the notification itself never takes rows of somebody else.
NobodyElseDeletes ==
    [][\A r \in Rows : Exists(r) /\ ~Exists(r)' =>
          \E c \in Calls : r \in Targets(c)]_vars

\* When every recipient has deleted a notification it is gone itself, in
\* whatever order they did, unless a query failed or the process died.
NoOrphans ==
    \A n \in Notifs :
        \/ mishaps > 0 \/ notif[n] = "DELETED"
        \/ \E c \in Calls : n \in call[c].found
        \/ \A r \in RowsOf(n) : job[r] = "none"
        \/ \E r \in RowsOf(n) : Exists(r)

\* The push to the user's devices is left out only for somebody who is
\* connected, or whose last socket is closing right now.
PushSkippedOnlyIfThere ==
    [][\A r \in Rows : At(r, "presence") /\ At(r, "update")' =>
          r[2] \in disturbed \/ OpenOf(r[2]) # {} \/ Handling(r[2]) # {}]_vars

\* The last listener to finish closes the notification, however the listeners,
\* readers and deletions interleave and whatever befell other notifications: with no
\* event left to handle it is not PROCESSING, unless one of its own deliveries ended
\* by a restart, or by a query that failed, before it had counted what is left.  Then
\* it may be for ever, as is one whose template names no channel: nothing closes it.
SettledWhenQuiet ==
    \A n \in Notifs :
        /\ send[n] = "done" /\ (\A r \in RowsOf(n) : job[r] \in {"none", "done"})
           => notif[n] \in {"SENT", "DELETED"}
        /\ send[n] = "mute" => notif[n] = "PROCESSING"
=============================================================================
