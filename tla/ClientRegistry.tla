--------------------------- MODULE ClientRegistry ---------------------------
(***************************************************************************)
(* The arrays of main/main.c that remember which WebSocket session listens *)
(* to which device, and the three kinds of tasks that touch them without a *)
(* lock:                                                                   *)
(*   - the httpd task registers a session when its URI is requested and    *)
(*     clears entries on a CLOSE frame and when the session ends;          *)
(*   - the tasks of the devices walk through an array to broadcast;        *)
(*   - the software watchdog walks through all arrays every 30 s and       *)
(*     restarts the gateway when it meets no client.                       *)
(*                                                                         *)
(* An entry is a pair (handle, descriptor); both are set and both are      *)
(* reset together, and a reader that meets one half finds a descriptor of  *)
(* -1 or a null handle and sends nothing, so the descriptor alone is kept. *)
(***************************************************************************)
EXTENDS Naturals, FiniteSets

CONSTANTS
    NoFd,        \* -1
    Fds,         \* socket descriptors the network stack may hand out
    Devices,     \* the devices considered, a subset of DOMAIN CloseFnRank
    Sources,     \* devices whose task broadcasts
    Size,        \* MAX_CLIENT_NUM: length of each array
    MaxSessions  \* max_open_sockets

\* The order in which one index of the arrays is looked at.
CloseFnRank == [camera |-> 1, printer |-> 2, barcode |-> 3, trigger |-> 4, relay |-> 5, LED |-> 6]
CloseFrameRank == [printer |-> 1, barcode |-> 2, LED |-> 3, trigger |-> 4, relay |-> 5]
WatchRank == [printer |-> 1, barcode |-> 2, trigger |-> 3, relay |-> 4, LED |-> 5]

ASSUME RegistryAssumption ==
    /\ NoFd \notin Fds
    /\ Devices \subseteq DOMAIN CloseFnRank
    /\ Sources \subseteq Devices
    /\ Size \in Nat \ {0}
    /\ MaxSessions \in Nat \ {0}
    /\ MaxSessions <= Size

VARIABLES
    slot,       \* the arrays: slot[d][i] is a descriptor or NoFd
    sess,       \* httpd's view of each descriptor
    wants,      \* history: devices whose URI the present session has requested
    greedy,     \* history: descriptors a session registered more than once
    cast,       \* the broadcast of each source
    unseen,     \* cells the watchdog has still to look at, {} when it sleeps
    steady,     \* history: sessions registered throughout the watchdog's walk
    rebooting   \* the shutdown sequence that ends in esp_restart has begun

vars == <<slot, sess, wants, greedy, cast, unseen, steady, rebooting>>

-----------------------------------------------------------------------------
Indices == 1..Size
Cells == Devices \X Indices

\* No URI leads to the camera array: its registration is commented out.
Uris == Devices \ {"camera"}
WatchedCells == (Devices \cap DOMAIN WatchRank) \X Indices

CellsOf(fd) == {c \in Cells : slot[c[1]][c[2]] = fd}
Registered == {fd \in Fds : CellsOf(fd) # {}}

\* The loops go through the indices, and through the devices at each index.
FirstCell(cells, rank) ==
    CHOOSE c \in cells : \A e \in cells :
        c[2] < e[2] \/ (c[2] = e[2] /\ rank[c[1]] <= rank[e[1]])

\* Both clearing loops leave after the first entry they reset.
ClearFirst(cells, rank) ==
    IF cells = {} THEN slot
    ELSE LET c == FirstCell(cells, rank) IN [slot EXCEPT ![c[1]][c[2]] = NoFd]

\* A broadcast: next is the index to read (0 when idle), to the descriptor just
\* read; audience and heard are history: the sessions registered from its
\* start on, and those a frame was sent to.
Idle == [next |-> 0, to |-> NoFd, audience |-> {}, heard |-> {}]

Init ==
    /\ slot = [d \in Devices |-> [i \in Indices |-> NoFd]]
    /\ sess = [fd \in Fds |-> "free"]
    /\ wants = [fd \in Fds |-> {}]
    /\ greedy = {}
    /\ cast = [d \in Sources |-> Idle]
    /\ unseen = {}
    /\ steady = {}
    /\ rebooting = FALSE

-----------------------------------------------------------------------------
(* The httpd task.                                                         *)

HttpdIdle == \A fd \in Fds : sess[fd] # "closing"

OpenSession(fd) ==
    /\ HttpdIdle
    /\ sess[fd] = "free"
    /\ Cardinality({f \in Fds : sess[f] # "free"}) < MaxSessions
    /\ sess' = [sess EXCEPT ![fd] = "open"]
    /\ UNCHANGED <<slot, wants, greedy, cast, unseen, steady, rebooting>>

\* Mutant of RequestUri: the loop goes on after the first free entry.
RequestUriFillsAll(fd, d) ==
    /\ HttpdIdle
    /\ sess[fd] = "open"
    /\ slot' = [slot EXCEPT ![d] = [i \in Indices |-> IF @[i] = NoFd THEN fd ELSE @[i]]]
    /\ wants' = [wants EXCEPT ![fd] = @ \cup {d}]
    /\ greedy' = IF CellsOf(fd) = {} THEN greedy ELSE greedy \cup {fd}
    /\ UNCHANGED <<sess, cast, unseen, steady, rebooting>>

\* The GET branch of ws_handler. The first free entry is taken; when there is
\* none the session stays open, unregistered.
RequestUri(fd, d) ==
    /\ HttpdIdle
    /\ sess[fd] = "open"
    /\ \/ \E i \in Indices :
             /\ slot[d][i] = NoFd
             /\ \A j \in 1..(i - 1) : slot[d][j] # NoFd
             /\ slot' = [slot EXCEPT ![d][i] = fd]
       \/ /\ \A i \in Indices : slot[d][i] # NoFd
          /\ UNCHANGED slot
    /\ wants' = [wants EXCEPT ![fd] = @ \cup {d}]
    /\ greedy' = IF CellsOf(fd) = {} THEN greedy ELSE greedy \cup {fd}
    /\ UNCHANGED <<sess, cast, unseen, steady, rebooting>>

\* The CLOSE branch of ws_handler: it clears the first entry of the session,
\* and httpd ends the session when the handler returns.
CloseFrame(fd) ==
    /\ HttpdIdle
    /\ sess[fd] = "open"
    /\ slot' = ClearFirst({c \in CellsOf(fd) : c[1] \in DOMAIN CloseFrameRank}, CloseFrameRank)
    /\ sess' = [sess EXCEPT ![fd] = "closing"]
    /\ UNCHANGED <<wants, greedy, cast, unseen, steady, rebooting>>

\* The peer vanishes, a read or a handler fails, or a close was triggered.
DropSession(fd) ==
    /\ HttpdIdle
    /\ sess[fd] = "open"
    /\ sess' = [sess EXCEPT ![fd] = "closing"]
    /\ UNCHANGED <<slot, wants, greedy, cast, unseen, steady, rebooting>>

\* Mutant of CloseFd: it relies on the CLOSE frame to clear the entry.
CloseFdKeepsEntry(fd) ==
    /\ sess[fd] = "closing"
    /\ sess' = [sess EXCEPT ![fd] = "free"]
    /\ wants' = [wants EXCEPT ![fd] = {}]
    /\ cast' = [d \in Sources |->
                  [cast[d] EXCEPT !.audience = @ \ {fd}, !.heard = @ \ {fd}]]
    /\ steady' = steady \ {fd}
    /\ UNCHANGED <<slot, greedy, unseen, rebooting>>

\* wss_close_fd: the first entry found is reset, then the loop is left.
CloseFd(fd) ==
    /\ sess[fd] = "closing"
    /\ slot' = ClearFirst(CellsOf(fd), CloseFnRank)
    /\ sess' = [sess EXCEPT ![fd] = "free"]
    /\ wants' = [wants EXCEPT ![fd] = {}]
    /\ cast' = [d \in Sources |->
                  [cast[d] EXCEPT !.audience = @ \ {fd}, !.heard = @ \ {fd}]]
    /\ steady' = steady \ {fd}
    /\ UNCHANGED <<greedy, unseen, rebooting>>

-----------------------------------------------------------------------------
(* The device tasks: device_cb with a null handle.                         *)

StartBroadcast(d) ==
    /\ cast[d] = Idle
    /\ cast' = [cast EXCEPT ![d].next = 1,
                            ![d].audience = {fd \in Fds : /\ sess[fd] = "open"
                                                             /\ \E i \in Indices : slot[d][i] = fd}]
    /\ UNCHANGED <<slot, sess, wants, greedy, unseen, steady, rebooting>>

\* Mutant of ReadEntry: the walk ends at the first empty entry.
ReadEntryUntilEmpty(d) ==
    /\ cast[d].next \in Indices
    /\ cast[d].to = NoFd
    /\ LET fd == slot[d][cast[d].next]
       IN cast' = [cast EXCEPT ![d].to = fd,
                               ![d].next = IF fd = NoFd THEN Size + 1 ELSE @]
    /\ UNCHANGED <<slot, sess, wants, greedy, unseen, steady, rebooting>>

\* The entry is read without a lock...
ReadEntry(d) ==
    /\ cast[d].next \in Indices
    /\ cast[d].to = NoFd
    /\ LET fd == slot[d][cast[d].next]
       IN cast' = [cast EXCEPT ![d].to = fd,
                               ![d].next = IF fd = NoFd THEN @ + 1 ELSE @]
    /\ UNCHANGED <<slot, sess, wants, greedy, unseen, steady, rebooting>>

\* ... and used afterwards: httpd looks the session up by its descriptor.
SendFrame(d) ==
    /\ cast[d].to # NoFd
    /\ cast' = [cast EXCEPT ![d].to = NoFd,
                            ![d].next = @ + 1,
                            ![d].heard = IF sess[cast[d].to] = "free" THEN @
                                         ELSE @ \cup {cast[d].to}]
    /\ UNCHANGED <<slot, sess, wants, greedy, unseen, steady, rebooting>>

EndBroadcast(d) ==
    /\ cast[d].next > Size
    /\ cast' = [cast EXCEPT ![d] = Idle]
    /\ UNCHANGED <<slot, sess, wants, greedy, unseen, steady, rebooting>>

Broadcast == \E d \in Sources : StartBroadcast(d) \/ ReadEntry(d) \/ SendFrame(d) \/ EndBroadcast(d)

-----------------------------------------------------------------------------
(* softWD and restartDaily.                                                *)

WatchdogWakes ==
    /\ ~rebooting
    /\ unseen = {}
    /\ unseen' = WatchedCells
    /\ steady' = {fd \in Registered : sess[fd] = "open"}
    /\ UNCHANGED <<slot, sess, wants, greedy, cast, rebooting>>

\* Mutant of WatchdogLooks: no break, the last entry decides.
WatchdogLooksAtAll ==
    /\ ~rebooting
    /\ unseen # {}
    /\ LET c == FirstCell(unseen, WatchRank)
       IN /\ unseen' = unseen \ {c}
          /\ rebooting' = (unseen = {c} /\ slot[c[1]][c[2]] = NoFd)
    /\ UNCHANGED <<slot, sess, wants, greedy, cast, steady>>

\* One entry is looked at: a client ends the walk, and the last entry of all
\* without a client begins the restart.
WatchdogLooks ==
    /\ ~rebooting
    /\ unseen # {}
    /\ LET c == FirstCell(unseen, WatchRank)
           found == slot[c[1]][c[2]] # NoFd
       IN /\ unseen' = IF found THEN {} ELSE unseen \ {c}
          /\ rebooting' = (~found /\ unseen = {c})
    /\ UNCHANGED <<slot, sess, wants, greedy, cast, steady>>

DailyRestart ==
    /\ ~rebooting
    /\ rebooting' = TRUE
    /\ unseen' = {}
    /\ UNCHANGED <<slot, sess, wants, greedy, cast, steady>>

\* esp_restart: app_main fills the arrays again.
Reboot ==
    /\ rebooting
    /\ slot' = [d \in Devices |-> [i \in Indices |-> NoFd]]
    /\ sess' = [fd \in Fds |-> "free"]
    /\ wants' = [fd \in Fds |-> {}]
    /\ greedy' = {}
    /\ cast' = [d \in Sources |-> Idle]
    /\ unseen' = {}
    /\ steady' = {}
    /\ rebooting' = FALSE

Watchdog == WatchdogWakes \/ WatchdogLooks

Httpd ==
    \E fd \in Fds :
        \/ OpenSession(fd) \/ CloseFrame(fd) \/ DropSession(fd) \/ CloseFd(fd)
        \/ \E d \in Uris : RequestUri(fd, d)

Next == Httpd \/ Broadcast \/ Watchdog \/ DailyRestart \/ Reboot

Spec == Init /\ [][Next]_vars

-----------------------------------------------------------------------------
(* Properties.                                                             *)

\* Every variable stays in its domain.
TypeOK ==
    /\ slot \in [Devices -> [Indices -> Fds \cup {NoFd}]]
    /\ sess \in [Fds -> {"free", "open", "closing"}]
    /\ wants \in [Fds -> SUBSET Uris]
    /\ greedy \subseteq Fds
    /\ cast \in [Sources -> [next : 0..(Size + 1), to : Fds \cup {NoFd},
                             audience : SUBSET Fds, heard : SUBSET Fds]]
    /\ unseen \subseteq WatchedCells
    /\ steady \subseteq Fds
    /\ rebooting \in BOOLEAN

\* The arrays and the sessions agree. An entry belongs to a session that asked
\* for this device: nobody inherits the registrations of a closed session that
\* had the same descriptor, and through them its events and its right to send
\* commands; the clearing loops reset one entry only, so descriptors that once
\* had several are excepted. And unless a session registered twice, one that
\* asked for a device is in its array: the arrays never overflow silently, and
\* nothing but the end of the session takes an entry away.
RegistrationsAgree ==
    /\ \A d \in Devices, i \in Indices :
         slot[d][i] \in Fds \ greedy => d \in wants[slot[d][i]]
    /\ greedy = {} =>
         \A fd \in Fds, d \in Devices :
             (sess[fd] = "open" /\ d \in wants[fd]) => \E i \in Indices : slot[d][i] = fd

\* When a broadcast ends, it has reached every session that was registered from
\* its start to its end, although the array changed under it.
AudienceServed ==
    \A d \in Sources : cast[d].next > Size =>
        {fd \in cast[d].audience : sess[fd] = "open"} \subseteq cast[d].heard

\* And it sends none of them the same event a second time, although entries are
\* cleared and taken again ahead of the walk and behind it: a session is not met
\* again at another index. Descriptors that once had several entries are excepted.
ServedOnce ==
    \A d \in Sources : \A fd \in cast[d].audience \ greedy :
        (sess[fd] = "open" /\ cast[d].to = fd) => fd \notin cast[d].heard

\* The watchdog restarts the gateway only when no session was registered, and
\* stayed open, all along its walk: a client that stays connected is never cut off by it.
WatchdogSparesSteadyClients ==
    [][WatchdogLooks /\ rebooting' => \A fd \in steady : sess[fd] # "open"]_vars

\* What the watchdog reports when its walk stops at an entry ("at least one
\* connected client"): the entry's session exists. Here no descriptor is
\* excepted.
FoundEntryIsConnected ==
    [][(WatchdogLooks /\ unseen' = {} /\ ~rebooting')
          => LET c == FirstCell(unseen, WatchRank) IN sess[slot[c[1]][c[2]]] # "free"]_vars

-----------------------------------------------------------------------------
(* The inductive strengthenings.                                             *)

Holders == {fd \in Fds : sess[fd] # "free"}

\* Who is registered: a descriptor has one entry at most until a session of it
\* registers twice; entries are made for URIs only; a free descriptor has asked
\* for nothing; and there are no more sessions than an array has entries.
EntriesInv ==
    /\ \A fd \in Fds \ greedy : \A c, e \in CellsOf(fd) : c = e
    /\ \A d \in Devices, i \in Indices : slot[d][i] \in Fds => d \in Uris
    /\ \A fd \in Fds : sess[fd] = "free" => wants[fd] = {}
    /\ IsFiniteSet(Holders)
    /\ Cardinality(Holders) <= MaxSessions

\* A broadcast that holds a descriptor is at its entry; its audience are sessions
\* that exist, and one it has still to reach has an entry ahead of it.
CastInv ==
    \A d \in Sources :
        LET b == cast[d]
            ahead == IF b.to = NoFd THEN b.next ELSE b.next + 1
        IN  /\ b.to # NoFd => b.next \in Indices
            /\ b.audience \subseteq Holders
            /\ \A fd \in b.audience : sess[fd] = "open" =>
                  \/ fd \in b.heard
                  \/ fd = b.to
                  \/ \E i \in Indices : i >= ahead /\ slot[d][i] = fd

\* One it has reached has an entry behind it, and the one it is about to reach
\* has the entry it is at.
PassedInv ==
    \A d \in Sources : \A fd \in cast[d].audience :
        LET b == cast[d]
        IN  sess[fd] = "open" =>
              /\ fd \in b.heard => \E i \in Indices : i < b.next /\ slot[d][i] = fd
              /\ fd = b.to => slot[d][b.next] = fd

\* A session that was registered when the watchdog woke has an entry among those
\* it has still to look at.
SteadyInv ==
    /\ steady \subseteq Holders
    /\ unseen # {} =>
         \A fd \in steady : sess[fd] = "open" => \E c \in unseen : slot[c[1]][c[2]] = fd

=============================================================================
