----------------------------- MODULE MdnsSearch -----------------------------
(***************************************************************************)
(* The queries of the mDNS component (mdns.c): a caller starts a search,   *)
(* the timer repeats its question and ends it when its time is over, the   *)
(* mdns task keeps the list of searches and collects what other hosts      *)
(* answer, and the caller takes the result and frees the search.           *)
(*                                                                         *)
(* The caller, the timer and the task share the search and the action      *)
(* queue.  The timer's callback and the execution of an action hold the    *)
(* service lock from end to end, so each is one step here.                 *)
(*                                                                         *)
(* A search is a block of memory: a freed one may be handed out again at   *)
(* once, with actions about its predecessor still in the queue.            *)
(***************************************************************************)
EXTENDS Integers, FiniteSets, Sequences

CONSTANTS
    Searches,     \* the blocks of memory a search may occupy
    Blocking,     \* those a caller of mdns_query uses; others are asynchronous
    Questions,    \* what searches ask for
    AddressOnly,  \* the questions for an address: every such search is served
    Hosts,        \* the hosts that answer
    MaxResults,   \* the results a search wants, 0 for all of them
    QueueSize,    \* MDNS_ACTION_QUEUE_LEN
    WholeOnly     \* every answer is authoritative and can be read to its end

ASSUME SearchAssumption ==
    /\ Blocking \subseteq Searches
    /\ AddressOnly \subseteq Questions
    /\ MaxResults \in [Searches -> Nat]
    /\ QueueSize \in Nat \ {0}
    /\ WholeOnly \in BOOLEAN

VARIABLES
    state,    \* [Searches -> "free", "init", "running" or "off"]
    question, \* [Searches -> what the search asks for]
    results,  \* [Searches -> the hosts whose answers the search holds]
    due,      \* [Searches -> more than a second since the question was sent]
    expired,  \* [Searches -> the time of the search is over]
    active,   \* the searches of _mdns_server->search_once
    queue,    \* the action queue
    done,     \* [Searches -> done_semaphore has been given]
    caller    \* [Searches -> "idle", "waiting" or "served"]

vars == <<state, question, results, due, expired, active, queue, done, caller>>

Answer(q, h, whole) == [type |-> "rx", question |-> q, host |-> h, whole |-> whole]

Act(type, s) == [type |-> type, search |-> s]

SearchActions == {Act(t, s) : t \in {"add", "send", "end"}, s \in Searches}

Answers == {Answer(q, h, w) : q \in Questions, h \in Hosts, w \in BOOLEAN}

TypeOK ==
    /\ state \in [Searches -> {"free", "init", "running", "off"}]
    /\ question \in [Searches -> Questions]
    /\ results \in [Searches -> SUBSET Hosts]
    /\ due \in [Searches -> BOOLEAN]
    /\ expired \in [Searches -> BOOLEAN]
    /\ active \in SUBSET Searches
    /\ queue \in Seq(SearchActions \cup Answers)
    /\ done \in [Searches -> BOOLEAN]
    /\ caller \in [Searches -> {"idle", "waiting", "served"}]

Init ==
    /\ state = [s \in Searches |-> "free"]
    /\ question \in [Searches -> Questions]
    /\ results = [s \in Searches |-> {}]
    /\ due = [s \in Searches |-> FALSE]
    /\ expired = [s \in Searches |-> FALSE]
    /\ active = {}
    /\ queue = <<>>
    /\ done = [s \in Searches |-> FALSE]
    /\ caller = [s \in Searches |-> "idle"]

HasRoom == Len(queue) < QueueSize

-----------------------------------------------------------------------------
(* The caller *)

\* The search is allocated and posted; with a full queue it is freed again
\* and the caller gets an error, which leaves everything as it was.
Query(s, asked) ==
    /\ state[s] = "free"
    /\ HasRoom
    /\ state' = [state EXCEPT ![s] = "init"]
    /\ question' = [question EXCEPT ![s] = asked]
    /\ results' = [results EXCEPT ![s] = {}]
    /\ due' = [due EXCEPT ![s] = FALSE]
    /\ expired' = [expired EXCEPT ![s] = FALSE]
    /\ done' = [done EXCEPT ![s] = FALSE]
    /\ caller' = [caller EXCEPT ![s] = "waiting"]
    /\ queue' = Append(queue, Act("add", s))
    /\ UNCHANGED active

Free(s) ==
    /\ state' = [state EXCEPT ![s] = "free"]
    /\ caller' = [caller EXCEPT ![s] = "idle"]

\* mdns_query: the semaphore is taken, the result handed on, the search freed.
QueryReturns(s) ==
    /\ s \in Blocking
    /\ caller[s] = "waiting"
    /\ done[s]
    /\ Free(s)
    /\ done' = [done EXCEPT ![s] = FALSE]
    /\ UNCHANGED <<question, results, due, expired, active, queue>>

\* mdns_query_async_get_results says that the search is over ...
AsyncGetResults(s) ==
    /\ s \notin Blocking
    /\ caller[s] = "waiting"
    /\ done[s]
    /\ done' = [done EXCEPT ![s] = FALSE]
    /\ caller' = [caller EXCEPT ![s] = "served"]
    /\ UNCHANGED <<state, question, results, due, expired, active, queue>>

\* ... and mdns_query_async_delete then frees it, if its state says so too.
AsyncDelete(s) ==
    /\ caller[s] = "served"
    /\ state[s] = "off"
    /\ Free(s)
    /\ UNCHANGED <<question, results, due, expired, active, queue, done>>

-----------------------------------------------------------------------------
(* The timer *)

\* More than a second has passed since the question was sent.
SecondPasses(s) ==
    /\ state[s] = "running"
    /\ ~due[s]
    /\ due' = [due EXCEPT ![s] = TRUE]
    /\ UNCHANGED <<state, question, results, expired, active, queue, done, caller>>

\* The search has lasted longer than its timeout.
TimeIsUp(s) ==
    /\ state[s] \in {"init", "running"}
    /\ ~expired[s]
    /\ expired' = [expired EXCEPT ![s] = TRUE]
    /\ UNCHANGED <<state, question, results, due, active, queue, done, caller>>

\* _mdns_search_run at one search of the list.  The lock keeps the mdns task
\* out while it visits them, but callers and the network post between visits,
\* and no visit looks at another search: one step for each.
Visit(s) == s \in active /\ state[s] # "off"

SearchTimeoutEarly(s) ==
    /\ Visit(s)
    /\ expired[s] \/ due[s]
    /\ HasRoom
    /\ state' = [state EXCEPT ![s] = "off"]
    /\ queue' = Append(queue, Act("end", s))
    /\ UNCHANGED <<question, results, due, expired, active, done, caller>>

SearchTimeout(s) ==
    /\ Visit(s)
    /\ expired[s]
    /\ HasRoom
    /\ state' = [state EXCEPT ![s] = "off"]
    /\ queue' = Append(queue, Act("end", s))
    /\ UNCHANGED <<question, results, due, expired, active, done, caller>>

SearchTimeoutRefusedOff(s) ==
    /\ Visit(s)
    /\ expired[s]
    /\ ~HasRoom
    /\ state' = [state EXCEPT ![s] = "off"]
    /\ UNCHANGED <<question, results, due, expired, active, queue, done, caller>>

\* Its end cannot be posted: the search goes on until the next visit.
SearchTimeoutRefused(s) ==
    /\ Visit(s)
    /\ expired[s]
    /\ ~HasRoom
    /\ state' = [state EXCEPT ![s] = "running"]
    /\ UNCHANGED <<question, results, due, expired, active, queue, done, caller>>

SearchRepeat(s) ==
    /\ Visit(s)
    /\ ~expired[s]
    /\ state[s] = "init" \/ due[s]
    /\ HasRoom
    /\ state' = [state EXCEPT ![s] = "running"]
    /\ due' = [due EXCEPT ![s] = FALSE]
    /\ queue' = Append(queue, Act("send", s))
    /\ UNCHANGED <<question, results, expired, active, done, caller>>

\* The question is due again right away when it could not be posted.
SearchRepeatRefused(s) ==
    /\ Visit(s)
    /\ ~expired[s]
    /\ state[s] = "init" \/ due[s]
    /\ ~HasRoom
    /\ state' = [state EXCEPT ![s] = "running"]
    /\ due' = [due EXCEPT ![s] = TRUE]
    /\ UNCHANGED <<question, results, expired, active, queue, done, caller>>

-----------------------------------------------------------------------------
(* The mdns task *)

Take(type) ==
    /\ queue # <<>>
    /\ Head(queue).type = type
    /\ queue' = Tail(queue)

\* The search at the head of the queue.
Subject == Head(queue).search

SearchAdd ==
    /\ Take("add")
    /\ active' = active \cup {Subject}
    /\ UNCHANGED <<state, question, results, due, expired, done, caller>>

\* The question goes out if the search is still in the list; a packet on the
\* network is no part of the state.
SearchSend ==
    /\ Take("send")
    /\ UNCHANGED <<state, question, results, due, expired, active, done, caller>>

FinishKeepsActive(S) ==
    /\ active' = active
    /\ state' = [s \in Searches |-> IF s \in S THEN "off" ELSE state[s]]
    /\ done' = [s \in Searches |-> done[s] \/ s \in S]

\* The searches of set S leave the list and their callers are told.
Finish(S) ==
    /\ active' = active \ S
    /\ state' = [s \in Searches |-> IF s \in S THEN "off" ELSE state[s]]
    /\ done' = [s \in Searches |-> done[s] \/ s \in S]

SearchEnd ==
    /\ Take("end")
    /\ Finish({Subject})
    /\ UNCHANGED <<question, results, due, expired, caller>>

Full(s, found) == MaxResults[s] # 0 /\ Cardinality(found[s]) >= MaxResults[s]

AskingEnded(q) == {s \in active : question[s] = q}

Asking(q) == {s \in active : state[s] # "off" /\ question[s] = q}

\* An answer goes to the first search of the list that asked, whose place the
\* model leaves open, or to every one that asked for that address.
FindFrom(q) ==
    IF q \in AddressOnly \/ Asking(q) = {} THEN {Asking(q)}
    ELSE {{s} : s \in Asking(q)}

\* A host that is known already adds nothing, nor does one beyond the limit.
ResultAdd(S, h) ==
    [s \in Searches |-> IF s \in S /\ ~Full(s, results)
                        THEN results[s] \cup {h} ELSE results[s]]

\* Only a packet that was authoritative and well formed to its end lets the
\* parser look for searches that have all they wanted.
ParsePacket ==
    /\ Take("rx")
    /\ \E S \in FindFrom(Head(queue).question) :
         /\ results' = ResultAdd(S, Head(queue).host)
         /\ IF Head(queue).whole
            THEN Finish({s \in active : Full(s, results')})
            ELSE UNCHANGED <<active, state, done>>
    /\ UNCHANGED <<question, due, expired, caller>>

-----------------------------------------------------------------------------
(* The network: a packet that finds the queue full is dropped *)

Receive(a) ==
    /\ HasRoom
    /\ WholeOnly => a.whole
    /\ queue' = Append(queue, a)
    /\ UNCHANGED <<state, question, results, due, expired, active, done, caller>>

-----------------------------------------------------------------------------

Next ==
    \/ \E s \in Searches :
         \/ \E asked \in Questions : Query(s, asked)
         \/ QueryReturns(s) \/ AsyncGetResults(s) \/ AsyncDelete(s)
         \/ SecondPasses(s) \/ TimeIsUp(s)
         \/ SearchTimeout(s) \/ SearchTimeoutRefused(s)
         \/ SearchRepeat(s) \/ SearchRepeatRefused(s)
    \/ SearchAdd
    \/ SearchSend
    \/ SearchEnd
    \/ ParsePacket
    \/ \E a \in Answers : Receive(a)

TaskRuns == SearchAdd \/ SearchSend \/ SearchEnd \/ ParsePacket

\* The task runs whenever an action waits for it, time passes, and the timer
\* fires every 100 ms: it finds room in the queue again and again, because
\* packets do not arrive faster than the task parses them for ever.
Fairness ==
    /\ WF_vars(TaskRuns)
    /\ \A s \in Searches : WF_vars(TimeIsUp(s)) /\ SF_vars(SearchTimeout(s))

Spec == Init /\ [][Next]_vars

FairSpec == Spec /\ Fairness

-----------------------------------------------------------------------------
(* Properties *)

Pending(type, s) == \E i \in DOMAIN queue : queue[i] = Act(type, s)

(***************************************************************************)
(* Once its caller may free a search (_mdns_search_finish gave the         *)
(* semaphore, or it is freed already), neither the list nor an action that *)
(* would write to it leads to it any more: mdns_query frees the search as  *)
(* soon as it wakes, while the task and the timer go on.  A question that  *)
(* is still to be sent may name it: _mdns_search_send only compares.       *)
(***************************************************************************)
FinishedIsLetGo ==
    \A s \in Searches :
        state[s] = "free" \/ done[s] \/ caller[s] = "served" =>
            /\ s \notin active
            /\ ~Pending("add", s)
            /\ ~Pending("end", s)

(***************************************************************************)
(* ACTION_SEARCH_END finishes its search without looking whether it is in  *)
(* the list, so it must find it there: the answers parsed between the      *)
(* timer's post and its execution must not have finished the search first. *)
(***************************************************************************)
EndFindsItsSearch ==
    \A i \in DOMAIN queue : queue[i].type = "end" =>
        /\ queue[i].search \in active
        /\ \A j \in DOMAIN queue : queue[j] = queue[i] => j = i

(***************************************************************************)
(* A caller is told that its search is over when the search has all the    *)
(* results it wanted or its time is over, never for the sake of another    *)
(* search, an earlier owner of its memory among them.                      *)
(***************************************************************************)
OverForAReason ==
    [][\A s \in Searches : ~done[s] /\ done'[s] => expired[s] \/ Full(s, results')]_vars

(***************************************************************************)
(* Every query ends: mdns_query waits for its semaphore without a timeout, *)
(* so a search that is never finished blocks its caller for good.          *)
(***************************************************************************)
QueriesEnd == \A s \in Searches : caller[s] = "waiting" ~> done[s]
=============================================================================
