---------------------------- MODULE Notifications ----------------------------
(***************************************************************************)
(* Sending a notification (notifications/notifier.rs): the inbox row, then  *)
(* the live push, then the mail or the job that will send it, each of which *)
(* may fail and end the call; the inbox operations of the recipient         *)
(* (store.rs); and the map of live channels (broadcast.rs), where a push    *)
(* looks its channel up under the lock and publishes after it.             *)
(*                                                                         *)
(* A call stores at most one row, so a row is named by its call.  A caller  *)
(* that retries after an error makes another call.                         *)
(***************************************************************************)
EXTENDS Integers, FiniteSets

CONSTANTS Calls,          \* calls of send and queue
          Keys,           \* recipients
          Connections,    \* live connections
          MaxChannels     \* bound: channels ever created

ASSUME NotificationConstants == MaxChannels \in Nat

VARIABLES call,       \* each call
          row,        \* its inbox row: none, unread or read
          job,        \* its mail job
          out,        \* history: calls that reached a connection, a mailbox or the queue
          dismissed,  \* history: <<c, k>> when recipient k marked the row of c read or deleted it
          channels,   \* the map: each recipient's channel, 0 when it has none
          created,    \* channels created so far
          subscribed  \* each connection's recipient and channel

noteVars == <<call, row, job, out, dismissed, channels, created, subscribed>>

Fresh == [at |-> "none"]
Off == [key |-> "none", channel |-> 0]

NoteInit ==
    /\ call = [c \in Calls |-> Fresh]
    /\ row = [c \in Calls |-> "none"]
    /\ job = [c \in Calls |-> "none"]
    /\ out = {}
    /\ dismissed = {}
    /\ channels = [k \in Keys |-> 0]
    /\ created = 0
    /\ subscribed = [x \in Connections |-> Off]

Subscribers(channel) == {x \in Connections : subscribed[x].channel = channel /\ channel # 0}
-----------------------------------------------------------------------------
\* The notification renders content for some channels of its recipient.
BeginSend(c, key, wants, queued) ==
    /\ call[c] = Fresh
    /\ queued => "mail" \in wants
    /\ call' = [call EXCEPT ![c] = [at |-> "database", key |-> key, wants |-> wants,
                                    queued |-> queued, channel |-> 0]]
    /\ UNCHANGED <<row, job, out, dismissed, channels, created, subscribed>>

\* A call that has returned: whom it was for, and whether the inbox was to have it.
Returned(v, result) ==
    [v EXCEPT !.at = result, !.wants = @ \cap {"database"}, !.queued = FALSE]

\* deliver_database inserts the row under an id not in the table.
Inboxed(c) == row' = [row EXCEPT ![c] = "unread"]

\* The mail server takes the message, or the queue its job.
Mailed(c) ==
    /\ out' = out \cup {c}
    /\ job' = [job EXCEPT ![c] = IF call[c].queued THEN "pending" ELSE @]

\* A channel fails, or is not configured: the call returns its error, and what the
\* earlier channels did stays done.  So does what this one did, when only the answer
\* to the insert or to the hand-over was lost.
ChannelFails(c) ==
    /\ call[c].at \in {"database", "broadcast", "mail"}
    /\ call[c].at \in call[c].wants
    /\ call' = [call EXCEPT ![c] = Returned(@, "failed")]
    /\ \/ UNCHANGED <<row, job, out>>
       \/ call[c].at = "database" /\ Inboxed(c) /\ UNCHANGED <<job, out>>
       \/ call[c].at = "mail" /\ Mailed(c) /\ UNCHANGED row
    /\ UNCHANGED <<dismissed, channels, created, subscribed>>

\* The first channel: the inbox, if the notification is meant for it.
StoreRow(c) ==
    /\ call[c].at = "database"
    /\ IF "database" \in call[c].wants THEN Inboxed(c) ELSE UNCHANGED row
    /\ call' = [call EXCEPT ![c].at = "broadcast"]
    /\ UNCHANGED <<job, out, dismissed, channels, created, subscribed>>

\* push, its lookup: the recipient's channel is cloned out of the map.
FindChannel(c) ==
    /\ call[c].at = "broadcast"
    /\ call' = [call EXCEPT
        ![c].at = IF "broadcast" \in call[c].wants /\ channels[call[c].key] # 0 THEN "publish"
                  ELSE "mail",
        ![c].channel = IF "broadcast" \in call[c].wants THEN channels[call[c].key] ELSE 0]
    /\ UNCHANGED <<row, job, out, dismissed, channels, created, subscribed>>

\* push, its publish: the message goes to whoever is on that channel now.
Publish(c) ==
    /\ call[c].at = "publish"
    /\ out' = IF Subscribers(call[c].channel) # {} THEN out \cup {c} ELSE out
    /\ call' = [call EXCEPT ![c].at = "mail", ![c].channel = 0]
    /\ UNCHANGED <<row, job, dismissed, channels, created, subscribed>>

\* The last channel: the mail, sent or queued.
SendMail(c) ==
    /\ call[c].at = "mail"
    /\ call' = [call EXCEPT ![c] = Returned(@, "ok")]
    /\ IF "mail" \in call[c].wants THEN Mailed(c) ELSE UNCHANGED <<job, out>>
    /\ UNCHANGED <<row, dismissed, channels, created, subscribed>>

\* The worker runs the mail job: sent; dead, because the message cannot be built
\* or the attempts are spent; or back in the queue (also when the worker dies after
\* the server took the message: the recipient will get it again).
RunMailJob(c, outcome) ==
    /\ job[c] = "pending"
    /\ job' = [job EXCEPT ![c] = outcome]
    /\ UNCHANGED <<call, row, out, dismissed, channels, created, subscribed>>
-----------------------------------------------------------------------------
InboxOf(key) == {c \in Calls : row[c] \in {"unread", "read"} /\ call[c].key = key}

\* mark_read and mark_all_read: only rows of that recipient, only unread ones.
MarkRead(key, rows) ==
    /\ rows \subseteq InboxOf(key)
    /\ rows # {}
    /\ row' = [c \in Calls |-> IF c \in rows THEN "read" ELSE row[c]]
    /\ dismissed' = dismissed \cup (rows \X {key})
    /\ UNCHANGED <<call, job, out, channels, created, subscribed>>

\* delete and delete_all_for.
DeleteRows(key, rows) ==
    /\ rows \subseteq InboxOf(key)
    /\ rows # {}
    /\ row' = [c \in Calls |-> IF c \in rows THEN "none" ELSE row[c]]
    /\ dismissed' = dismissed \cup (rows \X {key})
    /\ UNCHANGED <<call, job, out, channels, created, subscribed>>

\* Mutant: retention goes by age alone.
PruneOld(old) ==
    /\ \E c \in old : row[c] # "none"
    /\ row' = [c \in Calls |-> IF c \in old THEN "none" ELSE row[c]]
    /\ UNCHANGED <<call, job, out, dismissed, channels, created, subscribed>>

\* prune_read_before: of the rows that are old enough, those that were read.
PruneRead(old) ==
    /\ \E c \in old : row[c] = "read"
    /\ row' = [c \in Calls |-> IF c \in old /\ row[c] = "read" THEN "none" ELSE row[c]]
    /\ UNCHANGED <<call, job, out, dismissed, channels, created, subscribed>>
-----------------------------------------------------------------------------
\* Mutant: every connection opens its own channel.
ChannelAnew(key) == created + 1

\* The channel a new connection joins: the recipient's, or a new one.
ChannelOf(key) == IF channels[key] # 0 THEN channels[key] ELSE created + 1

\* subscribe, under the lock: the entries of other recipients that nobody is on are
\* reclaimed, this recipient's is found or made, and the connection joins it.
Subscribe(x, key) ==
    LET channel == ChannelOf(key)
    IN  /\ subscribed[x] = Off
        /\ channel <= MaxChannels
        /\ created' = IF channel > created THEN channel ELSE created
        /\ channels' = [k \in Keys |->
            IF k = key THEN channel
            ELSE IF Subscribers(channels[k]) = {} THEN 0 ELSE channels[k]]
        /\ subscribed' = [subscribed EXCEPT ![x] = [key |-> key, channel |-> channel]]
        /\ UNCHANGED <<call, row, job, out, dismissed>>

\* A connection ends; its entry is left for a later subscribe.
Disconnect(x) ==
    /\ subscribed[x] # Off
    /\ subscribed' = [subscribed EXCEPT ![x] = Off]
    /\ UNCHANGED <<call, row, job, out, dismissed, channels, created>>
-----------------------------------------------------------------------------
NoteNext ==
    \/ \E c \in Calls :
        \/ \E k \in Keys, w \in SUBSET {"database", "broadcast", "mail"}, q \in BOOLEAN :
            BeginSend(c, k, w, q)
        \/ ChannelFails(c) \/ StoreRow(c) \/ FindChannel(c) \/ Publish(c) \/ SendMail(c)
        \/ \E o \in {"sent", "dead", "pending"} : RunMailJob(c, o)
    \/ \E k \in Keys : \E rows \in SUBSET Calls : MarkRead(k, rows) \/ DeleteRows(k, rows)
    \/ \E old \in SUBSET Calls : PruneRead(old)
    \/ \E x \in Connections : Disconnect(x) \/ \E k \in Keys : Subscribe(x, k)

NoteSpec == NoteInit /\ [][NoteNext]_noteVars
-----------------------------------------------------------------------------
\* Whatever reached a connection, a mailbox or the job queue is in the recipient's
\* inbox too, if it was meant for it, until that recipient marked it read or deleted
\* it: also when a later channel failed, whatever other recipients do with their
\* inboxes, and through every prune.
InboxKeeps ==
    \A c \in Calls :
        /\ call[c] # Fresh
        /\ "database" \in call[c].wants
        /\ c \in out
        => row[c] # "none" \/ <<c, call[c].key>> \in dismissed

\* A connection that is subscribed is on the channel a push would find: neither the
\* reclaiming of another recipient's subscribe nor a reconnect leaves it on one
\* nobody publishes to.
SubscribersReachable ==
    \A x \in Connections :
        subscribed[x] # Off => subscribed[x].channel = channels[subscribed[x].key]

\* "There is no case where the payload was rejected while somebody was listening":
\* a publish reaches the recipient's connections of that moment.
PushSeesListeners ==
    \A c \in Calls :
        call[c].at = "publish" =>
            \A x \in Connections : subscribed[x].key = call[c].key
                                   => subscribed[x].channel = call[c].channel
=============================================================================
