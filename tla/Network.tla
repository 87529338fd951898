------------------------------ MODULE Network ------------------------------
(***************************************************************************)
(* Bringing the network up and tearing it down. app_main connects and starts *)
(* the server; the event loop's task runs disconnect_handler; softWD and      *)
(* restartDaily disconnect before they restart the gateway. All of them run   *)
(* example_connect and example_disconnect on the same static variables,       *)
(* without a lock. A failed ESP_ERROR_CHECK or assertion aborts, and an abort  *)
(* reboots the gateway.                                                      *)
(***************************************************************************)
EXTENDS Integers, Sequences

CONSTANT MaxEvents   \* the event loop's queue

ASSUME NetworkAssumption == MaxEvents \in Nat \ {0}

Tasks == {"main", "loop", "softWD", "daily"}
Events == {"connected", "got_ip", "disconnected"}

\* Where a task is: in example_connect, in example_disconnect, or elsewhere.
Connecting == {"create", "start", "take", "waiting", "register"}
Disconnecting == {"test", "delete", "clear", "stop", "uninstall", "unregister"}
Places == Connecting \cup Disconnecting
          \cup {"idle", "none", "answer", "handlers", "serve", "returned", "delay", "stopServer", "pause"}

VARIABLES
    up,         \* FALSE between an abort or a restart and the next boot
    pc,         \* where each task is
    cable,      \* there is a link
    link,       \* link_status of the PHY driver: the link state last reported
    events,     \* the queue of the event loop
    sem,        \* s_semph_get_ip_addrs: "null", "empty", "given", or "freed" but not yet NULL
    driver,     \* s_eth_handle: "none", "started", or "stopped" and not yet uninstalled
    bus,        \* the SPI bus is initialised
    shutdown,   \* example_ethernet_shutdown is registered as a shutdown handler
    handles,    \* event handlers that are registered: "got_ip", "disconnect"
    server,     \* httpd runs
    clients,    \* a client is registered
    address     \* history: this boot has had an address

vars == <<up, pc, cable, link, events, sem, driver, bus, shutdown, handles,
          server, clients, address>>
ethVars == <<link, sem, driver, bus, shutdown>>
restVars == <<cable, events, handles, server, clients, address>>

BootPlaces == [t \in Tasks |-> CASE t = "main" -> "create"
                                  [] t = "daily" -> "none"
                                  [] OTHER -> "idle"]

Init == /\ up = TRUE /\ cable \in BOOLEAN /\ pc = BootPlaces
        /\ link = FALSE /\ events = <<>> /\ sem = "null" /\ driver = "none"
        /\ bus = FALSE /\ shutdown = FALSE /\ handles = {}
        /\ server = FALSE /\ clients = FALSE /\ address = FALSE

Goto(t, place) == pc' = [pc EXCEPT ![t] = place]

\* ESP_ERROR_CHECK, configASSERT and assert: the panic handler reboots.
Abort == up' = FALSE /\ UNCHANGED <<pc, ethVars, restVars>>

Boot == /\ ~up
        /\ up' = TRUE /\ pc' = BootPlaces
        /\ link' = FALSE /\ events' = <<>> /\ sem' = "null" /\ driver' = "none"
        /\ bus' = FALSE /\ shutdown' = FALSE /\ handles' = {}
        /\ server' = FALSE /\ clients' = FALSE /\ address' = FALSE
        /\ UNCHANGED cable

\* (Un)registering a handler needs the loop's recursive mutex, which the loop
\* holds while it runs a handler.
LoopFree(t) == t = "loop" \/ pc["loop"] = "idle"

\* A full queue refuses an event: esp_event_post without waiting.
Posted(q, e) == IF Len(q) < MaxEvents THEN Append(q, e) ELSE q
-----------------------------------------------------------------------------
(* example_connect, run by app_main and by disconnect_handler.               *)

At(t, place) == up /\ pc[t] = place

CreateSem(t) == /\ At(t, "create")
                /\ \/ sem' = "empty" /\ Goto(t, "start") /\ UNCHANGED up
                   \/ /\ t = "main" /\ UNCHANGED <<sem, pc>>      \* no memory: ESP_ERROR_CHECK
                      /\ up' = FALSE
                   \/ /\ t = "loop" /\ UNCHANGED <<sem, up>>      \* no memory: not looked at
                      /\ Goto(t, "stopServer")
                /\ UNCHANGED <<link, driver, bus, shutdown, restVars>>

EthStart(t) == /\ At(t, "start")
               /\ LoopFree(t)
               /\ IF bus THEN Abort
                  ELSE /\ bus' = TRUE
                       /\ driver' = "started"
                       /\ link' = FALSE
                       /\ handles' = handles \cup {"got_ip"}
                       /\ Goto(t, "take")
                       /\ UNCHANGED <<up, sem, shutdown, cable, events, server, clients, address>>

\* xSemaphoreTake is called: NULL is asserted against, a freed one may be anything.
TakeSem(t) == /\ At(t, "take")
              /\ \/ sem \in {"null", "freed"} /\ Abort
                 \/ /\ sem # "null"
                    /\ Goto(t, "waiting")
                    /\ UNCHANGED <<up, ethVars, restVars>>

\* Mutant of SemTaken: the wait has a timeout and its result is ignored.
SemTakenOrNot(t) == /\ At(t, "waiting")
                    /\ sem' = IF sem = "given" THEN "empty" ELSE sem
                    /\ Goto(t, "register")
                    /\ UNCHANGED <<up, link, driver, bus, shutdown, restVars>>

\* Nobody gives a semaphore that was deleted under the one who waits for it.
SemTaken(t) == /\ At(t, "waiting")
               /\ sem = "given"
               /\ sem' = "empty"
               /\ Goto(t, "register")
               /\ UNCHANGED <<up, link, driver, bus, shutdown, restVars>>

RegisterShutdown(t) == /\ At(t, "register")
                       /\ IF shutdown THEN Abort
                          ELSE /\ shutdown' = TRUE
                               /\ Goto(t, IF t = "main" THEN "handlers" ELSE "stopServer")
                               /\ UNCHANGED <<up, link, sem, driver, bus, restVars>>

Connect(t) == CreateSem(t) \/ EthStart(t) \/ TakeSem(t) \/ SemTaken(t) \/ RegisterShutdown(t)
-----------------------------------------------------------------------------
(* example_disconnect, run by disconnect_handler, softWD and restartDaily.   *)

TestSem(t) == /\ At(t, "test")
              /\ Goto(t, IF sem = "null" THEN "unregister" ELSE "delete")
              /\ UNCHANGED <<up, ethVars, restVars>>

\* Deleting twice corrupts the heap, which is noticed or not.
DeleteSem(t) == /\ At(t, "delete")
                /\ \/ sem \in {"null", "freed"} /\ Abort
                   \/ /\ sem' = IF sem = "null" THEN "null" ELSE "freed"
                      /\ Goto(t, "clear")
                      /\ UNCHANGED <<up, link, driver, bus, shutdown, restVars>>

ClearSem(t) == /\ At(t, "clear")
               /\ sem' = "null"
               /\ Goto(t, "stop")
               /\ UNCHANGED <<up, link, driver, bus, shutdown, restVars>>

\* eth_stop unregisters eth_on_got_ip, which is not registered; got_ip_event_handler
\* stays. Stopping a driver that is not started aborts.
EthStop(t) == /\ At(t, "stop")
              /\ LoopFree(t)
              /\ IF driver # "started" THEN Abort
                 ELSE /\ driver' = "stopped"
                      /\ Goto(t, "uninstall")
                      /\ UNCHANGED <<up, link, sem, bus, shutdown, restVars>>

\* Mutant of Uninstall: the bus is freed as well.
UninstallAll(t) == /\ At(t, "uninstall")
                   /\ driver' = "none"
                   /\ bus' = FALSE
                   /\ Goto(t, "unregister")
                   /\ UNCHANGED <<up, link, sem, shutdown, restVars>>

\* The driver is uninstalled, the bus it used is not freed.
Uninstall(t) == /\ At(t, "uninstall")
                /\ driver' = "none"
                /\ Goto(t, "unregister")
                /\ UNCHANGED <<up, link, sem, bus, shutdown, restVars>>

UnregisterShutdown(t) == /\ At(t, "unregister")
                         /\ IF ~shutdown THEN Abort
                            ELSE /\ shutdown' = FALSE
                                 /\ Goto(t, IF t = "loop" THEN "delay" ELSE "pause")
                                 /\ UNCHANGED <<up, link, sem, driver, bus, restVars>>

Disconnect(t) == TestSem(t) \/ DeleteSem(t) \/ ClearSem(t) \/ EthStop(t) \/ Uninstall(t)
                 \/ UnregisterShutdown(t)
-----------------------------------------------------------------------------
(* app_main after example_connect. connect_handler has no effect.            *)

RegisterHandlers == /\ At("main", "handlers")
                    /\ LoopFree("main")
                    /\ handles' = handles \cup {"disconnect"}
                    /\ Goto("main", "serve")
                    /\ UNCHANGED <<up, ethVars, cable, events, server, clients, address>>

\* httpd and the daily restart are started, and app_main's frame, where
\* disconnect_handler's argument is, goes away.
StartServer == /\ At("main", "serve")
               /\ server' = TRUE
               /\ pc' = [pc EXCEPT !["main"] = "returned", !["daily"] = "idle"]
               /\ UNCHANGED <<up, ethVars, cable, events, handles, clients, address>>

MainTask == Connect("main") \/ RegisterHandlers \/ StartServer

(* The event loop: the network interface answers a link with its static        *)
(* address; got_ip_event_handler gives the semaphore.                         *)

NextEvent(e) == up /\ pc["loop"] = "idle" /\ events # <<>> /\ Head(events) = e

OnConnected == /\ NextEvent("connected")
               /\ events' = Tail(events)
               /\ Goto("loop", IF driver = "started" THEN "answer" ELSE "idle")
               /\ UNCHANGED <<up, ethVars, cable, handles, server, clients, address>>

AnswerLink == /\ At("loop", "answer")
              /\ events' = Posted(events, "got_ip")
              /\ Goto("loop", "idle")
              /\ UNCHANGED <<up, ethVars, cable, handles, server, clients, address>>

OnGotIp == /\ NextEvent("got_ip")
           /\ IF sem = "null" THEN Abort
              ELSE \/ /\ sem' = IF sem = "freed" THEN "freed" ELSE "given"
                      /\ events' = Tail(events)
                      /\ address' = TRUE
                      /\ UNCHANGED <<up, pc, link, driver, bus, shutdown, cable, handles, server, clients>>
                   \/ sem = "freed" /\ Abort

\* disconnect_handler tests *server, which after app_main's return is whatever the
\* memory holds.
OnDisconnected == /\ NextEvent("disconnected")
                  /\ events' = Tail(events)
                  /\ \/ "disconnect" \in handles /\ pc["main"] = "returned" /\ Goto("loop", "test")
                     \/ UNCHANGED pc
                  /\ UNCHANGED <<up, ethVars, cable, handles, server, clients, address>>

DelayEnds == /\ At("loop", "delay")
             /\ Goto("loop", "create")
             /\ UNCHANGED <<up, ethVars, restVars>>

\* stop_webserver(*server): with whatever *server is, httpd stops or does not.
StopServer == /\ At("loop", "stopServer")
              /\ \/ server' = FALSE /\ clients' = FALSE
                 \/ UNCHANGED <<server, clients>>
              /\ Goto("loop", "idle")
              /\ UNCHANGED <<up, ethVars, cable, events, handles, address>>

EventLoop == \/ OnConnected \/ AnswerLink \/ OnGotIp \/ OnDisconnected
             \/ Disconnect("loop") \/ DelayEnds \/ Connect("loop") \/ StopServer

(* softWD looks for clients every 30 s, restartDaily wakes once a day; both     *)
(* disconnect, wait for 4 s and restart.                                      *)

\* Mutant of WatchdogLooks: it looks after the clients of a server that runs.
WatchdogLooksIfServing == /\ At("softWD", "idle")
                          /\ server /\ ~clients
                          /\ Goto("softWD", "test")
                          /\ UNCHANGED <<up, ethVars, restVars>>

WatchdogLooks == /\ At("softWD", "idle")
                 /\ ~clients
                 /\ Goto("softWD", "test")
                 /\ UNCHANGED <<up, ethVars, restVars>>

DayEnds == /\ At("daily", "idle")
           /\ Goto("daily", "test")
           /\ UNCHANGED <<up, ethVars, restVars>>

Restart(t) == At(t, "pause") /\ Abort

WatchdogTask == WatchdogLooks \/ Disconnect("softWD") \/ Restart("softWD")
DailyTask == Disconnect("daily") \/ Restart("daily")
-----------------------------------------------------------------------------
(* The cable, the timer that watches the link, and the clients.              *)

CableChanges == /\ up
                /\ cable' = ~cable
                /\ UNCHANGED <<up, pc, ethVars, events, handles, server, clients, address>>

\* A link whose event is refused is reported again.
LinkCheck == /\ up /\ driver = "started" /\ link # cable
             /\ Len(events) < MaxEvents
             /\ link' = cable
             /\ events' = Posted(events, IF cable THEN "connected" ELSE "disconnected")
             /\ UNCHANGED <<up, pc, sem, driver, bus, shutdown, cable, handles, server, clients, address>>

Reachable == server /\ cable /\ driver = "started"

ClientComes == /\ up /\ ~clients /\ Reachable
               /\ clients' = TRUE
               /\ UNCHANGED <<up, pc, ethVars, cable, events, handles, server, address>>

ClientsLeave == /\ up /\ clients
                /\ clients' = FALSE
                /\ UNCHANGED <<up, pc, ethVars, cable, events, handles, server, address>>

\* The keep-alive engine closes clients it cannot reach (KeepAlive).
ClientsTimeOut == ClientsLeave /\ ~Reachable

Next == \/ Boot \/ MainTask \/ EventLoop \/ WatchdogTask \/ DayEnds \/ DailyTask
        \/ CableChanges \/ LinkCheck \/ ClientComes \/ ClientsLeave

\* Every task goes on and silent clients are closed; the day may not end, and the
\* cable owes nothing. The loop is idle for most of the 2 s between two link
\* checks, so who waits for its mutex gets it.
Fairness == /\ WF_vars(Boot) /\ WF_vars(MainTask) /\ WF_vars(EventLoop)
            /\ WF_vars(WatchdogTask) /\ WF_vars(DailyTask) /\ WF_vars(LinkCheck)
            /\ WF_vars(ClientsTimeOut)
            /\ SF_vars(EthStop("softWD")) /\ SF_vars(EthStop("daily"))
            /\ SF_vars(EthStart("main")) /\ SF_vars(RegisterHandlers)

Spec == Init /\ [][Next]_vars /\ Fairness
-----------------------------------------------------------------------------
\* Every variable stays in its domain; the event queue in its bound.
TypeOK == /\ up \in BOOLEAN /\ cable \in BOOLEAN /\ link \in BOOLEAN
          /\ pc \in [Tasks -> Places]
          /\ events \in Seq(Events) /\ Len(events) <= MaxEvents
          /\ sem \in {"null", "empty", "given", "freed"}
          /\ driver \in {"none", "started", "stopped"}
          /\ bus \in BOOLEAN /\ shutdown \in BOOLEAN
          /\ handles \subseteq {"got_ip", "disconnect"}
          /\ server \in BOOLEAN /\ clients \in BOOLEAN /\ address \in BOOLEAN

(* The server is started only after the gateway had an address, whoever tears   *)
(* the network down while app_main waits for one.                             *)
ServedAfterAddress == server => address

(* The event loop never waits for the semaphore that only its own handler of    *)
(* IP_EVENT_ETH_GOT_IP gives, although disconnect_handler calls                *)
(* example_connect: that the bus is still initialised aborts it before.       *)
LoopNeverWaitsForItself == up => pc["loop"] # "waiting"

(* Whoever has stopped the driver, and however the others interfere with him,   *)
(* the gateway reboots: it is never left running without its network.         *)
TornDownMeansReboot == (bus /\ driver # "started") ~> ~up
=============================================================================
