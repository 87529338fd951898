------------------------------ MODULE KeepAlive ------------------------------
(***************************************************************************)
(* The keep-alive engine of the gateway (main/keep_alive.c) together with  *)
(* the way the HTTP server task of main/main.c drives it.                  *)
(*                                                                         *)
(* Three parties move the state:                                           *)
(*   - the httpd task opens and closes sessions and handles PONG frames;   *)
(*     all it tells the engine goes through one short queue, written with  *)
(*     a timeout of 0, so a message that finds the queue full is dropped;  *)
(*   - keep_alive_task owns the table of clients: it takes one message at  *)
(*     a time, or, when the queue stays silent for a whole delay, scans    *)
(*     the table, pings the clients not seen for Period and closes the     *)
(*     ones not seen for NotAliveAfter;                                    *)
(*   - time passes.                                                        *)
(*                                                                         *)
(* A timestamp (last_seen) is modelled by its age, in time units, which    *)
(* saturates at NotAliveAfter: every comparison of the code has the same   *)
(* outcome for all larger ages.                                            *)
(***************************************************************************)
EXTENDS Integers, Sequences, FiniteSets, FiniteSetsExt

CONSTANTS
    NoClient,       \* the content of a table slot of type NO_CLIENT
    Fds,            \* socket descriptors the network stack may hand out
    MaxClients,     \* max_clients of the engine and max_open_sockets of httpd
    QueueSize,      \* max_clients / 2 in wss_keep_alive_start
    Period,         \* keep_alive_period_ms: ping a client not seen for so long
    NotAliveAfter,  \* not_alive_after_ms: close a client not seen for so long
    MinDelay,       \* 1000 ms in get_max_delay
    MaxDelay,       \* 30000 ms in get_max_delay
    MaxLate         \* bound: units that may pass before a runnable engine steps

ASSUME EngineAssumption ==
    /\ MaxClients \in Nat \ {0}
    /\ QueueSize \in Nat \ {0}
    /\ MinDelay \in Nat \ {0}
    /\ Period \in Nat
    /\ NotAliveAfter \in Nat
    /\ MaxDelay \in Nat
    /\ MinDelay <= Period
    /\ Period < NotAliveAfter
    /\ NotAliveAfter <= MaxDelay
    /\ MaxLate \in Nat \ {0}
    /\ NoClient \notin [fd : Fds, age : 0..NotAliveAfter]

VARIABLES
    clients,  \* the engine's table: one entry or NoClient per slot
    q,        \* the engine's queue
    wait,     \* what is left of the timeout of the current xQueueReceive
    scan,     \* 0 in xQueueReceive, else the slot the timeout branch looks at
    late,     \* units for which the engine has been runnable without a step
    sess,     \* httpd's view of each descriptor
    quiet,    \* units since the session was opened or last sent a PONG
    closes,   \* descriptors for which httpd_sess_trigger_close is queued
    leaked    \* history: descriptors whose removal was dropped by a full queue

vars == <<clients, q, wait, scan, late, sess, quiet, closes, leaked>>
engineVars == <<clients, wait, scan, late>>
httpdVars == <<sess, quiet, leaked>>

-----------------------------------------------------------------------------
Slots == 1..MaxClients
Ages == 0..NotAliveAfter

Entry == [fd : Fds, age : Ages]

Message == [type : {"ADD", "REMOVE", "UPDATE"}, fd : Fds, age : Ages]
Add(fd) == [type |-> "ADD", fd |-> fd, age |-> 0]
Remove(fd) == [type |-> "REMOVE", fd |-> fd, age |-> 0]
Update(fd) == [type |-> "UPDATE", fd |-> fd, age |-> 0]

\* "refused": open_fn failed; "closing": httpd is about to run close_fn.
SessionState == {"free", "open", "refused", "closing"}

Older(age) == IF age < NotAliveAfter THEN age + 1 ELSE NotAliveAfter

Active(table) == {i \in Slots : table[i] # NoClient}
SlotsOf(table, fd) == {i \in Active(table) : table[i].fd = fd}

\* Mutant of RemoveFirst: remove_client stops searching at an empty slot.
RemoveBeforeGap(table, fd) ==
    LET fits == {i \in SlotsOf(table, fd) : 1..i \subseteq Active(table)}
    IN IF fits = {} THEN table ELSE [table EXCEPT ![Min(fits)] = NoClient]

\* Mutant of RemoveFirst: remove_client does not compare the descriptor.
RemoveAnyFirst(table, fd) ==
    IF Active(table) = {} THEN table
    ELSE [table EXCEPT ![Min(Active(table))] = NoClient]

\* Mutant of RemoveFirst: remove_client does not reset the slot it found.
RemoveNothing(table, fd) == table

\* The loops of the engine stop at the first slot that fits, hence the Min.
RemoveFirst(table, fd) ==
    IF SlotsOf(table, fd) = {} THEN table
    ELSE [table EXCEPT ![Min(SlotsOf(table, fd))] = NoClient]

AddFirst(table, fd) ==
    IF Active(table) = Slots THEN table
    ELSE [table EXCEPT ![Min(Slots \ Active(table))] =
             [fd |-> fd, age |-> 0]]

\* Mutant of UpdateFirst: update_client keeps the old timestamp.
UpdateNothing(table, fd, age) == table

UpdateFirst(table, fd, age) ==
    IF SlotsOf(table, fd) = {} THEN table
    ELSE [table EXCEPT ![Min(SlotsOf(table, fd))] =
             [fd |-> fd, age |-> age]]

\* Time left until a client has to be pinged; negative when overdue.
Remaining(table, i) == Period - table[i].age

\* An overdue client sets the delay to MinDelay, whatever the clients before
\* it asked for; only the clients after the last overdue one can shorten it.
GetMaxDelay(table) ==
    LET overdue == {i \in Active(table) : Remaining(table, i) < 0}
        after == IF overdue = {} THEN Active(table)
                 ELSE {i \in Active(table) : i > Max(overdue)}
        base == IF overdue = {} THEN MaxDelay ELSE MinDelay
        asked == {base} \cup {Remaining(table, i) : i \in after}
    IN Min(asked)

-----------------------------------------------------------------------------
HttpdIdle == \A fd \in Fds : sess[fd] \notin {"refused", "closing"}
Opened == {fd \in Fds : sess[fd] \in {"open", "closing"}}

SessionAvailable == Cardinality(Opened) < MaxClients

QueueHasRoom == Len(q) < QueueSize

Init ==
    /\ clients = [i \in Slots |-> NoClient]
    /\ q = <<>>
    /\ wait = MaxDelay
    /\ scan = 0
    /\ late = 0
    /\ sess = [fd \in Fds |-> "free"]
    /\ quiet = [fd \in Fds |-> 0]
    /\ closes = {}
    /\ leaked = {}

-----------------------------------------------------------------------------
(* The httpd task.                                                         *)

\* A connection is accepted only while a session slot is free; wss_open_fd
\* registers it with the engine.
OpenClient(fd) ==
    /\ HttpdIdle
    /\ sess[fd] = "free"
    /\ SessionAvailable
    /\ QueueHasRoom
    /\ q' = Append(q, Add(fd))
    /\ sess' = [sess EXCEPT ![fd] = "open"]
    /\ quiet' = [quiet EXCEPT ![fd] = 0]
    /\ UNCHANGED <<engineVars, closes, leaked>>

\* Mutant of RefuseClient: wss_open_fd ignores that the engine has no room.
AcceptUnwatched(fd) ==
    /\ HttpdIdle
    /\ sess[fd] = "free"
    /\ SessionAvailable
    /\ ~QueueHasRoom
    /\ sess' = [sess EXCEPT ![fd] = "open"]
    /\ UNCHANGED <<engineVars, q, closes, quiet, leaked>>

\* The queue is full: wss_open_fd returns ESP_FAIL and httpd drops the session.
RefuseClient(fd) ==
    /\ HttpdIdle
    /\ sess[fd] = "free"
    /\ SessionAvailable
    /\ ~QueueHasRoom
    /\ sess' = [sess EXCEPT ![fd] = "refused"]
    /\ UNCHANGED <<engineVars, q, closes, quiet, leaked>>

\* The PONG branch of ws_handler.
Pong(fd) ==
    /\ HttpdIdle
    /\ sess[fd] = "open"
    /\ QueueHasRoom
    /\ q' = Append(q, Update(fd))
    /\ quiet' = [quiet EXCEPT ![fd] = 0]
    /\ UNCHANGED <<engineVars, closes, sess, leaked>>

\* The queue is full: ws_handler returns ESP_FAIL, which ends the session.
PongDropped(fd) ==
    /\ HttpdIdle
    /\ sess[fd] = "open"
    /\ ~QueueHasRoom
    /\ sess' = [sess EXCEPT ![fd] = "closing"]
    /\ quiet' = [quiet EXCEPT ![fd] = 0]
    /\ UNCHANGED <<engineVars, q, closes, leaked>>

\* The peer leaves, or reading from it fails.
PeerCloses(fd) ==
    /\ HttpdIdle
    /\ sess[fd] = "open"
    /\ sess' = [sess EXCEPT ![fd] = "closing"]
    /\ UNCHANGED <<engineVars, q, closes, quiet, leaked>>

\* The work item of httpd_sess_trigger_close; it names the session by its
\* descriptor, whoever holds that descriptor by now.
TriggeredClose(fd) ==
    /\ HttpdIdle
    /\ fd \in closes
    /\ closes' = closes \ {fd}
    /\ sess' = [sess EXCEPT ![fd] = IF @ = "open" THEN "closing" ELSE @]
    /\ UNCHANGED <<engineVars, q, quiet, leaked>>

\* wss_close_fd: the result of wss_keep_alive_remove_client is ignored.
CloseFd(fd) ==
    /\ sess[fd] \in {"refused", "closing"}
    /\ sess' = [sess EXCEPT ![fd] = "free"]
    /\ \/ /\ QueueHasRoom
          /\ q' = Append(q, Remove(fd))
          /\ UNCHANGED leaked
       \/ /\ ~QueueHasRoom
          /\ leaked' = IF sess[fd] = "closing" THEN leaked \cup {fd} ELSE leaked
          /\ UNCHANGED q
    /\ quiet' = [quiet EXCEPT ![fd] = 0]
    /\ UNCHANGED <<engineVars, closes>>

Httpd ==
    \E fd \in Fds :
        \/ OpenClient(fd) \/ RefuseClient(fd)
        \/ Pong(fd) \/ PongDropped(fd)
        \/ PeerCloses(fd) \/ TriggeredClose(fd) \/ CloseFd(fd)

-----------------------------------------------------------------------------
(* keep_alive_task.                                                        *)

\* xQueueReceive returned a message of the given type.
Receive(type, table) ==
    /\ scan = 0
    /\ q # <<>>
    /\ Head(q).type = type
    /\ q' = Tail(q)
    /\ clients' = table
    /\ wait' = GetMaxDelay(table)
    /\ late' = 0
    /\ UNCHANGED <<scan, closes, httpdVars>>

AddNewClient == Receive("ADD", AddFirst(clients, Head(q).fd))
RemoveClient == Receive("REMOVE", RemoveFirst(clients, Head(q).fd))
UpdateClient == Receive("UPDATE", UpdateFirst(clients, Head(q).fd, Head(q).age))

\* xQueueReceive timed out on an empty queue.
Timeout ==
    /\ scan = 0
    /\ q = <<>>
    /\ wait = 0
    /\ scan' = 1
    /\ late' = 0
    /\ UNCHANGED <<clients, q, wait, closes, httpdVars>>

\* The scan moves on; after the last slot the task waits on the queue again.
NextSlot(table) ==
    /\ clients' = table
    /\ scan' = IF scan = MaxClients THEN 0 ELSE scan + 1
    /\ wait' = IF scan = MaxClients THEN GetMaxDelay(table) ELSE wait
    /\ late' = 0

SkipSlot ==
    /\ scan \in Slots
    /\ clients[scan] # NoClient => clients[scan].age < Period
    /\ NextSlot(clients)
    /\ UNCHANGED <<q, closes, httpdVars>>

\* check_client_alive_cb: httpd is asked to send a PING. The client may answer
\* it, or send a PONG unasked, at any time, so the frame itself is not state.
PingSlot ==
    /\ scan \in Slots
    /\ clients[scan] # NoClient
    /\ clients[scan].age \in Period..(NotAliveAfter - 1)
    /\ NextSlot(clients)
    /\ UNCHANGED <<q, closes, httpdVars>>

\* Mutant of ExpireSlot: the entry goes, the session is not closed.
ExpireSlotSilently ==
    /\ scan \in Slots
    /\ clients[scan] # NoClient
    /\ clients[scan].age = NotAliveAfter
    /\ NextSlot(RemoveFirst(clients, clients[scan].fd))
    /\ UNCHANGED <<q, closes, httpdVars>>

\* client_not_alive_cb, which fails when no session has this descriptor, and
\* remove_client, which clears the first entry of the descriptor.
ExpireSlot ==
    /\ scan \in Slots
    /\ clients[scan] # NoClient
    /\ clients[scan].age = NotAliveAfter
    /\ closes' = IF sess[clients[scan].fd] = "free" THEN closes
                 ELSE closes \cup {clients[scan].fd}
    /\ NextSlot(RemoveFirst(clients, clients[scan].fd))
    /\ UNCHANGED <<q, httpdVars>>

Engine ==
    \/ AddNewClient \/ RemoveClient \/ UpdateClient
    \/ Timeout \/ SkipSlot \/ PingSlot \/ ExpireSlot

-----------------------------------------------------------------------------
EngineRunnable == scan # 0 \/ q # <<>> \/ wait = 0

Tick ==
    /\ EngineRunnable => late < MaxLate
    /\ late' = IF EngineRunnable THEN late + 1 ELSE 0
    /\ wait' = IF wait > 0 THEN wait - 1 ELSE 0
    /\ clients' = [i \in Slots |->
                      IF clients[i] = NoClient THEN NoClient
                      ELSE [clients[i] EXCEPT !.age = Older(@)]]
    /\ q' = [k \in DOMAIN q |->
                IF q[k].type = "UPDATE" THEN [q[k] EXCEPT !.age = Older(@)]
                ELSE q[k]]
    /\ quiet' = [fd \in Fds |->
                    IF fd \in Opened THEN Older(quiet[fd]) ELSE quiet[fd]]
    /\ UNCHANGED <<scan, sess, closes, leaked>>

Next == Httpd \/ Engine \/ Tick

Spec == Init /\ [][Next]_vars

\* Every task is eventually scheduled, and time does not stop. httpd serves its
\* control socket in every round of its loop, before sessions and new
\* connections, so no traffic keeps a queued close waiting for ever: SF. Clients
\* owe nothing: nobody has to connect, answer or leave.
Fairness ==
    /\ WF_vars(Engine)
    /\ WF_vars(Tick)
    /\ \A fd \in Fds : WF_vars(CloseFd(fd)) /\ SF_vars(TriggeredClose(fd))

FairSpec == Spec /\ Fairness

-----------------------------------------------------------------------------
(* Properties.                                                             *)

\* Every variable stays in its domain; the engine's queue never exceeds its size.
TypeOK ==
    /\ clients \in [Slots -> Entry \cup {NoClient}]
    /\ q \in Seq(Message)
    /\ Len(q) <= QueueSize
    /\ wait \in 0..MaxDelay
    /\ scan \in 0..MaxClients
    /\ late \in 0..MaxLate
    /\ sess \in [Fds -> SessionState]
    /\ quiet \in [Fds -> Ages]
    /\ closes \subseteq Fds
    /\ leaked \subseteq Fds

\* Positions in the queue of the messages about a descriptor.
About(fd, types) == {k \in DOMAIN q : q[k].fd = fd /\ q[k].type \in types}
Adds(fd) == About(fd, {"ADD"})
Removes(fd) == About(fd, {"REMOVE"})
Mentions(fd) == About(fd, {"ADD", "REMOVE", "UPDATE"})

\* As long as no removal of a descriptor was dropped, the table holds at most
\* one entry for it, however often the descriptor is closed and handed out
\* again while messages are still queued. update_client and remove_client,
\* which stop at the first match, rely on it.
OneEntryPerClient ==
    \A fd \in Fds \ leaked :
        \A i, j \in SlotsOf(clients, fd) : i = j

\* As long as no removal was dropped, add_new_client finds a slot: the
\* "Cannot add new client" path is not reached, although the queue lags behind
\* the sessions and both have the same capacity.
AddFindsSlot ==
    (leaked = {} /\ q # <<>> /\ Head(q).type = "ADD") => Active(clients) # Slots

\* As long as no removal was dropped, no open session escapes the engine: it
\* has an entry that no queued REMOVE will take away, or an ADD on the way,
\* or its closing is already requested.
OpenSessionWatched ==
    leaked = {} =>
        \A fd \in Fds : sess[fd] = "open" =>
            \/ fd \in closes
            \/ SlotsOf(clients, fd) # {} /\ Removes(fd) = {}
            \/ \E k \in Adds(fd) : \A r \in Removes(fd) : r < k

\* The engine asks for the closing of an open session only when the session
\* has been silent for NotAliveAfter, or else news about the descriptor is
\* already queued (a PONG that lost the race, or a new session under the old
\* number). Descriptors whose removal was dropped are excepted: their entry
\* stays, and its expiry closes whichever session has the number by then.
JustifiedClose(fd) ==
    sess[fd] = "open" => (quiet[fd] = NotAliveAfter \/ Mentions(fd) # {})
ExpiryJustified ==
    [][\A fd \in (closes' \ closes) \ leaked : JustifiedClose(fd)]_vars

\* A session that falls silent for good does not stay open for ever, provided
\* that traffic lets the engine scan its table again and again, and that no
\* removal is dropped.
SilentClientClosed ==
    ([]<>(scan # 0) /\ [](leaked = {})) =>
        \A fd \in Fds : []<>~(sess[fd] = "open" /\ quiet[fd] = NotAliveAfter)

-----------------------------------------------------------------------------
(* The inductive strengthening of OneEntryPerClient.                       *)

Watching(fd) == SlotsOf(clients, fd) # {}

\* Between two registrations of a descriptor there is always its removal: in
\* the queue, or between the table and the queue, or, for a descriptor nobody
\* holds, at the end of the queue.
Alternates(fd) ==
    /\ \A k \in Adds(fd) : Watching(fd) => \E r \in Removes(fd) : r < k
    /\ \A k, l \in Adds(fd) : k < l => \E r \in Removes(fd) : k < r /\ r < l
    /\ sess[fd] \in {"free", "refused"} =>
          /\ Watching(fd) => Removes(fd) # {}
          /\ \A k \in Adds(fd) : \E r \in Removes(fd) : k < r

\* While no removal of a descriptor is lost, its registrations and removals
\* reach the engine in alternation, and the table has one entry for it at most.
AlternationInv ==
    \A fd \in Fds \ leaked :
        /\ \A i, j \in SlotsOf(clients, fd) : i = j
        /\ Alternates(fd)

-----------------------------------------------------------------------------
(* The inductive strengthenings of AddFindsSlot, OpenSessionWatched and      *)
(* ExpiryJustified.                                                          *)

\* The descriptor has an entry once the messages before position k have been
\* worked off.
Holds(fd, k) ==
    \/ Watching(fd) /\ \A r \in Removes(fd) : r >= k
    \/ \E a \in Adds(fd) : a < k /\ \A r \in Removes(fd) : r < k => r < a

Ahead(k) == {fd \in Fds : Holds(fd, k)}

\* When the engine gets to a registration, the entries made before it leave a
\* slot: httpd accepted the session while fewer than MaxClients were open, and
\* only open sessions are registered without a removal behind it.
RoomInv ==
    /\ IsFiniteSet(Opened)
    /\ leaked = {} =>
         \A fd \in Fds : \A k \in Adds(fd) :
            IsFiniteSet(Ahead(k)) /\ Cardinality(Ahead(k)) < MaxClients

\* The last news of an open session in the queue is no older than its silence;
\* neither are its entries, when nothing about it is queued.
FreshInv ==
    \A fd \in Fds \ leaked : sess[fd] = "open" =>
        /\ Mentions(fd) = {} => \A i \in SlotsOf(clients, fd) : clients[i].age <= quiet[fd]
        /\ \A k \in About(fd, {"UPDATE"}) :
              (\A j \in Mentions(fd) : j <= k) => q[k].age <= quiet[fd]

-----------------------------------------------------------------------------
(* Refinement: seen through its queue, the engine is an atomic set.        *)

\* The descriptors the table will hold once the queue has been worked off.
Pending(fd) ==
    LET news == Adds(fd) \cup Removes(fd)
    IN IF news = {} THEN SlotsOf(clients, fd) # {} ELSE q[Max(news)].type = "ADD"

Watched == INSTANCE WatchedClients WITH
    open <- Opened,
    watched <- IF leaked = {} THEN {fd \in Fds : Pending(fd)} ELSE {},
    failed <- leaked # {}

\* The engine with its queue, its lagging table and its slot-by-slot scan
\* implements the atomic set of watched clients that main.c expects.
WatchedSpec == Watched!Spec
=============================================================================
