-------------------------- MODULE KeepAliveProofs --------------------------
(***************************************************************************)
(* Theorems about the keep-alive engine, for every number of clients, every *)
(* queue size and every setting of the periods.                            *)
(***************************************************************************)
EXTENDS KeepAlive, TLAPS, SequenceTheorems, FiniteSetTheorems, WellFoundedInduction

USE EngineAssumption

-----------------------------------------------------------------------------
(* The operators the engine is built from.                                 *)

Table == [Slots -> Entry \cup {NoClient}]

\* A set of naturals with an element has a least one, and Min returns it.
LEMMA MinOfNaturals ==
    ASSUME NEW S, S \subseteq Nat, S # {}
    PROVE  /\ Min(S) \in S
           /\ \A x \in S : Min(S) <= x
<1>1. PICK x \in S : \A y \in S : <<y, x>> \notin OpToRel(<, Nat)
  BY NatLessThanWellFounded, WFMin, Zenon
<1>2. \A y \in S : x <= y
  <2>1. TAKE y \in S
  <2>2. ~(y < x)
    BY <1>1 DEF OpToRel
  <2> QED  BY <2>2
<1> QED  BY <1>2 DEF Min

\* So has a bounded one a greatest, and Max returns it.
LEMMA MaxOfBounded ==
    ASSUME NEW S, S \subseteq Nat, S # {}, NEW n \in Nat, \A x \in S : x <= n
    PROVE  /\ Max(S) \in S
           /\ \A x \in S : x <= Max(S)
<1> DEFINE mirror == {n - x : x \in S}
<1>1. PICK m \in mirror : \A y \in mirror : m <= y
  <2>1. \A x \in S : n - x \in Nat
    OBVIOUS
  <2>2. mirror \subseteq Nat
    BY <2>1
  <2>3. mirror # {}
    OBVIOUS
  <2> HIDE DEF mirror
  <2> QED  BY <2>2, <2>3, MinOfNaturals
<1>2. PICK x \in S : m = n - x
  BY <1>1
<1>3. \A y \in S : y <= x
  <2>1. TAKE y \in S
  <2>2. m <= n - y
    BY <1>1
  <2> QED  BY <2>2, <1>2
<1>4. \E z \in S : \A y \in S : z >= y
  BY <1>3
<1>5. Max(S) \in S /\ \A y \in S : Max(S) >= y
  BY <1>4 DEF Max
<1> QED  BY <1>5

\* A non-empty set of slots has a last one, and Max returns it.
LEMMA MaxOfSlots ==
    ASSUME NEW S, S \subseteq Slots, S # {}
    PROVE  /\ Max(S) \in S
           /\ \A x \in S : x <= Max(S)
<1>1. S \subseteq Nat /\ \A x \in S : x <= MaxClients
  BY DEF Slots
<1> QED  BY <1>1, MaxOfBounded

\* The delay of get_max_delay lies between 0 and the maximal delay.
LEMMA GetMaxDelayRange ==
    ASSUME NEW table \in Table
    PROVE  GetMaxDelay(table) \in 0..MaxDelay
<1> DEFINE overdue == {i \in Active(table) : Remaining(table, i) < 0}
           after == IF overdue = {} THEN Active(table)
                    ELSE {i \in Active(table) : i > Max(overdue)}
           base == IF overdue = {} THEN MaxDelay ELSE MinDelay
           asked == {base} \cup {Remaining(table, i) : i \in after}
<1>1. \A i \in Active(table) : Remaining(table, i) \in Int
  BY DEF Active, Remaining, Table, Entry, Ages
<1>2. \A i \in after : i \in Active(table) /\ Remaining(table, i) >= 0
  <2>1. CASE overdue = {}
    BY <2>1, <1>1
  <2>2. CASE overdue # {}
    <3>1. overdue \subseteq Slots
      BY DEF Active
    <3>2. Max(overdue) \in Slots /\ \A x \in overdue : x <= Max(overdue)
      <4> HIDE DEF overdue
      <4> QED  BY <2>2, <3>1, MaxOfSlots
    <3>3. \A i \in after : i \in Active(table) /\ i \notin overdue
      BY <2>2, <3>2 DEF Active, Slots
    <3> QED  BY <3>3, <1>1
  <2> QED  BY <2>1, <2>2
<1>3. base \in 0..MaxDelay
  OBVIOUS
<1>4. asked \subseteq Nat /\ base \in asked
  <2>1. \A i \in after : Remaining(table, i) \in Nat
    BY <1>1, <1>2
  <2> HIDE DEF after, base
  <2> QED  BY <2>1, <1>3
<1>5. Min(asked) \in Nat /\ Min(asked) <= base
  <2> HIDE DEF asked, base
  <2> QED  BY <1>4, MinOfNaturals
<1>6. GetMaxDelay(table) = Min(asked)
  BY DEF GetMaxDelay
<1> HIDE DEF asked, base
<1> QED  BY <1>3, <1>5, <1>6

\* remove_client clears one entry of its descriptor, if there is one, and
\* leaves the entries of every other descriptor where they are.
LEMMA RemoveFirstProperties ==
    ASSUME NEW table \in Table, NEW fd \in Fds
    PROVE  /\ RemoveFirst(table, fd) \in Table
           /\ \A i \in Slots : RemoveFirst(table, fd)[i] \in {table[i], NoClient}
           /\ \A i \in Slots : i \notin SlotsOf(table, fd) => RemoveFirst(table, fd)[i] = table[i]
           /\ (\A i, j \in SlotsOf(table, fd) : i = j) => SlotsOf(RemoveFirst(table, fd), fd) = {}
<1>1. CASE SlotsOf(table, fd) = {}
  BY <1>1 DEF RemoveFirst
<1>2. CASE SlotsOf(table, fd) # {}
  <2> DEFINE m == Min(SlotsOf(table, fd))
  <2>1. m \in SlotsOf(table, fd) /\ m \in Slots
    BY <1>2, MinOfNaturals DEF SlotsOf, Active, Slots
  <2>2. RemoveFirst(table, fd) = [table EXCEPT ![m] = NoClient]
    BY <1>2 DEF RemoveFirst
  <2> HIDE DEF m
  <2> QED  BY <2>1, <2>2 DEF Table, SlotsOf, Active
<1> QED  BY <1>1, <1>2

\* add_new_client fills one free slot with the new client, seen just now.
LEMMA AddFirstProperties ==
    ASSUME NEW table \in Table, NEW fd \in Fds
    PROVE  /\ AddFirst(table, fd) \in Table
           /\ \/ AddFirst(table, fd) = table
              \/ \E m \in Slots \ Active(table) :
                    AddFirst(table, fd) =
                        [table EXCEPT ![m] = [fd |-> fd, age |-> 0]]
<1>1. CASE Active(table) = Slots
  BY <1>1 DEF AddFirst
<1>2. CASE Active(table) # Slots
  <2> DEFINE m == Min(Slots \ Active(table))
  <2>1. m \in Slots \ Active(table)
    <3>1. Slots \ Active(table) # {}
      BY <1>2 DEF Active
    <3>2. Slots \ Active(table) \subseteq Nat
      BY DEF Slots
    <3> QED  BY <3>1, <3>2, MinOfNaturals
  <2>2. AddFirst(table, fd) = [table EXCEPT ![m] = [fd |-> fd, age |-> 0]]
    BY <1>2 DEF AddFirst
  <2>3. [fd |-> fd, age |-> 0] \in Entry
    BY DEF Entry, Ages
  <2> HIDE DEF m
  <2> QED  BY <2>1, <2>2, <2>3 DEF Table
<1> QED  BY <1>1, <1>2

\* update_client sets the timestamp of the first entry of its descriptor.
LEMMA UpdateFirstProperties ==
    ASSUME NEW table \in Table, NEW fd \in Fds, NEW age \in Ages
    PROVE  /\ UpdateFirst(table, fd, age) \in Table
           /\ \/ /\ UpdateFirst(table, fd, age) = table
                 /\ SlotsOf(table, fd) = {}
              \/ \E m \in SlotsOf(table, fd) :
                    UpdateFirst(table, fd, age) =
                        [table EXCEPT ![m] = [fd |-> fd, age |-> age]]
<1>1. CASE SlotsOf(table, fd) = {}
  BY <1>1 DEF UpdateFirst
<1>2. CASE SlotsOf(table, fd) # {}
  <2> DEFINE m == Min(SlotsOf(table, fd))
  <2>1. m \in SlotsOf(table, fd) /\ m \in Slots
    BY <1>2, MinOfNaturals DEF SlotsOf, Active, Slots
  <2>2. UpdateFirst(table, fd, age) =
            [table EXCEPT ![m] = [fd |-> fd, age |-> age]]
    BY <1>2 DEF UpdateFirst
  <2>3. [fd |-> fd, age |-> age] \in Entry
    BY DEF Entry
  <2> HIDE DEF m
  <2> QED  BY <2>1, <2>2, <2>3 DEF Table
<1> QED  BY <1>1, <1>2

-----------------------------------------------------------------------------
(* Type correctness.                                                       *)

\* What taking the head off the queue leaves.
LEMMA QueueHead ==
    ASSUME TypeOK, q # <<>>
    PROVE  /\ Head(q) \in Message /\ Head(q) = q[1]
           /\ Tail(q) \in Seq(Message) /\ Len(Tail(q)) = Len(q) - 1
           /\ \A k \in 1..Len(Tail(q)) : Tail(q)[k] = q[k + 1]
           /\ Len(q) \in Nat \ {0}
  BY HeadTailProperties, EmptySeq, LenProperties DEF TypeOK

\* Receiving a message leaves a well-typed state when the new table is one.
LEMMA ReceiveType ==
    ASSUME TypeOK, NEW type, NEW table \in Table, Receive(type, table)
    PROVE  TypeOK'
<1>1. Tail(q) \in Seq(Message) /\ Len(Tail(q)) <= QueueSize
  BY QueueHead DEF Receive, TypeOK
<1>2. GetMaxDelay(table) \in 0..MaxDelay
  BY GetMaxDelayRange
<1> QED  BY <1>1, <1>2 DEF Receive, TypeOK, Table, httpdVars

\* So does one step of the scan.
LEMMA NextSlotType ==
    ASSUME TypeOK, NEW table \in Table, scan \in Slots, NextSlot(table),
           closes' \subseteq Fds, UNCHANGED <<q, httpdVars>>
    PROVE  TypeOK'
<1>1. GetMaxDelay(table) \in 0..MaxDelay
  BY GetMaxDelayRange
<1> QED  BY <1>1 DEF NextSlot, TypeOK, Table, httpdVars, Slots

\* The type invariant is inductive.
LEMMA TypeStep == TypeOK /\ [Next]_vars => TypeOK'
<1> SUFFICES ASSUME TypeOK, [Next]_vars PROVE TypeOK'
  OBVIOUS
<1> USE DEF TypeOK
<1>0. clients \in Table
  BY DEF Table
<1>1. ASSUME NEW fd \in Fds, OpenClient(fd) PROVE TypeOK'
  <2>1. Add(fd) \in Message
    BY DEF Add, Message, Ages
  <2>2. q' \in Seq(Message) /\ Len(q') <= QueueSize
    BY <1>1, <2>1, AppendProperties, LenProperties DEF OpenClient, QueueHasRoom
  <2> QED  BY <1>1, <2>2 DEF OpenClient, engineVars, SessionState, Ages
<1>2. ASSUME NEW fd \in Fds, RefuseClient(fd) PROVE TypeOK'
  BY <1>2 DEF RefuseClient, engineVars, SessionState
<1>3. ASSUME NEW fd \in Fds, Pong(fd) PROVE TypeOK'
  <2>1. Update(fd) \in Message
    BY DEF Update, Message, Ages
  <2>2. q' \in Seq(Message) /\ Len(q') <= QueueSize
    BY <1>3, <2>1, AppendProperties, LenProperties DEF Pong, QueueHasRoom
  <2> QED  BY <1>3, <2>2 DEF Pong, engineVars, Ages
<1>4. ASSUME NEW fd \in Fds, PongDropped(fd) PROVE TypeOK'
  BY <1>4 DEF PongDropped, engineVars, SessionState, Ages
<1>5. ASSUME NEW fd \in Fds, PeerCloses(fd) PROVE TypeOK'
  BY <1>5 DEF PeerCloses, engineVars, SessionState
<1>6. ASSUME NEW fd \in Fds, TriggeredClose(fd) PROVE TypeOK'
  BY <1>6 DEF TriggeredClose, engineVars, SessionState
<1>7. ASSUME NEW fd \in Fds, CloseFd(fd) PROVE TypeOK'
  <2>1. Remove(fd) \in Message
    BY DEF Remove, Message, Ages
  <2>2. q' \in Seq(Message) /\ Len(q') <= QueueSize
    <3>1. CASE q' = Append(q, Remove(fd)) /\ QueueHasRoom
      BY <3>1, <2>1, AppendProperties, LenProperties DEF QueueHasRoom
    <3>2. CASE UNCHANGED q
      BY <3>2
    <3> QED  BY <1>7, <3>1, <3>2 DEF CloseFd
  <2> QED  BY <1>7, <2>2 DEF CloseFd, engineVars, SessionState, Ages
<1>8. CASE AddNewClient
  <2>1. AddFirst(clients, Head(q).fd) \in Table
    BY <1>8, <1>0, QueueHead, AddFirstProperties DEF AddNewClient, Receive, Message
  <2> QED  BY <1>8, <2>1, ReceiveType DEF AddNewClient
<1>9. CASE RemoveClient
  <2>1. RemoveFirst(clients, Head(q).fd) \in Table
    BY <1>9, <1>0, QueueHead, RemoveFirstProperties DEF RemoveClient, Receive, Message
  <2> QED  BY <1>9, <2>1, ReceiveType DEF RemoveClient
<1>10. CASE UpdateClient
  <2>1. UpdateFirst(clients, Head(q).fd, Head(q).age) \in Table
    BY <1>10, <1>0, QueueHead, UpdateFirstProperties DEF UpdateClient, Receive, Message
  <2> QED  BY <1>10, <2>1, ReceiveType DEF UpdateClient
<1>11. CASE Timeout
  BY <1>11 DEF Timeout, httpdVars
<1>12. CASE SkipSlot
  BY <1>12, <1>0, NextSlotType DEF SkipSlot
<1>13. CASE PingSlot
  BY <1>13, <1>0, NextSlotType DEF PingSlot
<1>14. CASE ExpireSlot
  <2>1. clients[scan].fd \in Fds
    BY <1>14 DEF ExpireSlot, Entry
  <2>2. RemoveFirst(clients, clients[scan].fd) \in Table
    BY <1>0, <2>1, RemoveFirstProperties
  <2>3. closes' \subseteq Fds
    BY <1>14, <2>1 DEF ExpireSlot
  <2> QED  BY <1>14, <2>2, <2>3, NextSlotType DEF ExpireSlot
<1>15. CASE Tick
  <2>1. \A age \in Ages : Older(age) \in Ages
    BY DEF Ages, Older
  <2>2. clients' \in [Slots -> Entry \cup {NoClient}]
    BY <1>15, <2>1 DEF Tick, Entry
  <2>3. q' \in Seq(Message) /\ Len(q') = Len(q)
    <3>1. q \in [1..Len(q) -> Message] /\ DOMAIN q = 1..Len(q) /\ Len(q) \in Nat
      BY LenProperties
    <3>2. q' \in [1..Len(q) -> Message]
      BY <1>15, <2>1, <3>1 DEF Tick, Message
    <3> QED  BY <3>1, <3>2, SeqDef, LenProperties
  <2>4. quiet' \in [Fds -> Ages]
    BY <1>15, <2>1 DEF Tick
  <2>5. late' \in 0..MaxLate /\ wait' \in 0..MaxDelay
    BY <1>15 DEF Tick
  <2> QED  BY <1>15, <2>2, <2>3, <2>4, <2>5 DEF Tick
<1>16. CASE UNCHANGED vars
  BY <1>16 DEF vars
<1> QED
  BY <1>1, <1>2, <1>3, <1>4, <1>5, <1>6, <1>7, <1>8, <1>9, <1>10, <1>11, <1>12,
     <1>13, <1>14, <1>15, <1>16 DEF Next, Httpd, Engine

LEMMA TypeInit == Init => TypeOK
  BY EmptySeq DEF Init, TypeOK, SessionState, Ages

\* Every reachable state is well-typed; in particular the delay handed to
\* xQueueReceive never falls below 0 and the scan never leaves the table.
THEOREM TypeCorrect == Spec => []TypeOK
<1>1. Init => TypeOK
  BY TypeInit
<1>2. TypeOK /\ [Next]_vars => TypeOK'
  BY TypeStep
<1> QED  BY <1>1, <1>2, PTL DEF Spec

-----------------------------------------------------------------------------
(* At most one entry per client.                                           *)

\* The positions of messages in the queue.
LEMMA AboutRange ==
    ASSUME TypeOK, NEW fd, NEW types
    PROVE  About(fd, types) \subseteq 1..Len(q) /\ Len(q) \in Nat
  BY LenProperties DEF About, TypeOK

\* A message put into the queue takes the position after the last.
LEMMA AboutAppend ==
    ASSUME TypeOK, NEW m \in Message, q' = Append(q, m), NEW fd, NEW types
    PROVE  About(fd, types)' =
             About(fd, types) \cup
               {k \in {Len(q) + 1} : m.fd = fd /\ m.type \in types}
<1>1. /\ Len(q) \in Nat /\ DOMAIN q = 1..Len(q) /\ q' \in Seq(Message)
      /\ Len(q') = Len(q) + 1
      /\ \A k \in 1..Len(q) : q'[k] = q[k]
      /\ q'[Len(q) + 1] = m
  BY AppendProperties, LenProperties DEF TypeOK
<1>2. DOMAIN q' = 1..(Len(q) + 1)
  BY <1>1, LenProperties
<1>3. ASSUME NEW k
      PROVE  k \in About(fd, types)' <=>
               k \in About(fd, types) \cup
                 {n \in {Len(q) + 1} : m.fd = fd /\ m.type \in types}
  <2>1. CASE k \in 1..Len(q)
    BY <1>1, <1>2, <2>1 DEF About
  <2>2. CASE k = Len(q) + 1
    BY <1>1, <1>2, <2>2 DEF About
  <2>3. CASE k \notin 1..(Len(q) + 1)
    BY <1>1, <1>2, <2>3 DEF About
  <2> QED  BY <1>1, <2>1, <2>2, <2>3
<1> QED  BY <1>3

\* When the head is taken off the queue, every other message moves up by one.
LEMMA AboutTail ==
    ASSUME TypeOK, q # <<>>, q' = Tail(q), NEW fd, NEW types
    PROVE  About(fd, types)' = {k \in 1..(Len(q) - 1) : k + 1 \in About(fd, types)}
<1>1. /\ q' \in Seq(Message) /\ Len(q') = Len(q) - 1 /\ Len(q) \in Nat \ {0}
      /\ \A k \in 1..Len(q') : q'[k] = q[k + 1]
  BY QueueHead
<1>2. DOMAIN q' = 1..(Len(q) - 1) /\ DOMAIN q = 1..Len(q)
  BY <1>1, LenProperties DEF TypeOK
<1> QED  BY <1>1, <1>2 DEF About

\* AlternationInv for one descriptor.
InOrder(fd) ==
    /\ \A i, j \in SlotsOf(clients, fd) : i = j
    /\ Alternates(fd)

\* A step that moves no registration and no removal, adds no entry and frees no
\* descriptor keeps the order.
LEMMA OrderKept ==
    ASSUME NEW fd, InOrder(fd),
           Adds(fd)' = Adds(fd), Removes(fd)' = Removes(fd),
           SlotsOf(clients, fd)' \subseteq SlotsOf(clients, fd),
           sess'[fd] \in {"free", "refused"} => sess[fd] \in {"free", "refused"}
    PROVE  InOrder(fd)'
<1>1. Watching(fd)' => Watching(fd)
  BY DEF Watching
<1>2. \A i, j \in SlotsOf(clients, fd)' : i = j
  BY DEF InOrder
<1>3. Alternates(fd)'
  BY <1>1 DEF InOrder, Alternates
<1> QED  BY <1>2, <1>3 DEF InOrder

\* A descriptor nobody holds may be registered.
LEMMA OrderAfterAdd ==
    ASSUME TypeOK, NEW fd \in Fds, InOrder(fd), sess[fd] = "free",
           q' = Append(q, Add(fd)), clients' = clients, sess'[fd] = "open"
    PROVE  InOrder(fd)'
<1> DEFINE last == Len(q) + 1
<1>0. Add(fd) \in Message /\ Add(fd).fd = fd /\ Add(fd).type = "ADD"
  BY DEF Add, Message, Ages
<1>1. Adds(fd)' = Adds(fd) \cup {last} /\ Removes(fd)' = Removes(fd)
  <2>1. About(fd, {"ADD"})' = About(fd, {"ADD"}) \cup
          {k \in {last} : Add(fd).fd = fd /\ Add(fd).type \in {"ADD"}}
    BY <1>0, AboutAppend
  <2>2. About(fd, {"REMOVE"})' = About(fd, {"REMOVE"}) \cup
          {k \in {last} : Add(fd).fd = fd /\ Add(fd).type \in {"REMOVE"}}
    BY <1>0, AboutAppend
  <2> QED  BY <1>0, <2>1, <2>2 DEF Adds, Removes
<1>2. Adds(fd) \subseteq 1..Len(q) /\ Removes(fd) \subseteq 1..Len(q) /\ Len(q) \in Nat
  BY AboutRange DEF Adds, Removes
<1>3. SlotsOf(clients, fd)' = SlotsOf(clients, fd) /\ (Watching(fd)' <=> Watching(fd))
  BY DEF SlotsOf, Active, Watching
<1>4. \A k \in Adds(fd)' : Watching(fd)' => \E r \in Removes(fd)' : r < k
  <2>1. Watching(fd) => \E r \in Removes(fd) : r < last
    BY <1>2 DEF InOrder, Alternates
  <2> QED  BY <1>1, <1>3, <2>1 DEF InOrder, Alternates
<1>5. \A k, l \in Adds(fd)' : k < l => \E r \in Removes(fd)' : k < r /\ r < l
  <2>1. \A k \in Adds(fd) : \E r \in Removes(fd) : k < r /\ r < last
    BY <1>2 DEF InOrder, Alternates
  <2>2. \A l \in Adds(fd) : ~(last < l)
    BY <1>2
  <2> QED  BY <1>1, <1>2, <2>1, <2>2 DEF InOrder, Alternates
<1> QED  BY <1>3, <1>4, <1>5 DEF InOrder, Alternates

\* Any descriptor may be reported as gone.
LEMMA OrderAfterRemove ==
    ASSUME TypeOK, NEW fd \in Fds, InOrder(fd),
           q' = Append(q, Remove(fd)), clients' = clients
    PROVE  InOrder(fd)'
<1> DEFINE last == Len(q) + 1
<1>0. Remove(fd) \in Message /\ Remove(fd).fd = fd /\ Remove(fd).type = "REMOVE"
  BY DEF Remove, Message, Ages
<1>1. Adds(fd)' = Adds(fd) /\ Removes(fd)' = Removes(fd) \cup {last}
  <2>1. About(fd, {"ADD"})' = About(fd, {"ADD"}) \cup
          {k \in {last} : Remove(fd).fd = fd /\ Remove(fd).type \in {"ADD"}}
    BY <1>0, AboutAppend
  <2>2. About(fd, {"REMOVE"})' = About(fd, {"REMOVE"}) \cup
          {k \in {last} : Remove(fd).fd = fd /\ Remove(fd).type \in {"REMOVE"}}
    BY <1>0, AboutAppend
  <2> QED  BY <1>0, <2>1, <2>2 DEF Adds, Removes
<1>2. Adds(fd) \subseteq 1..Len(q) /\ Removes(fd) \subseteq 1..Len(q) /\ Len(q) \in Nat
  BY AboutRange DEF Adds, Removes
<1>3. SlotsOf(clients, fd)' = SlotsOf(clients, fd) /\ (Watching(fd)' <=> Watching(fd))
  BY DEF SlotsOf, Active, Watching
<1>4. \A k \in Adds(fd) : k < last
  BY <1>2
<1> QED  BY <1>1, <1>3, <1>4 DEF InOrder, Alternates

\* Whatever the head was, the rest of the queue still alternates; what is left
\* to show is how the new table goes with it.
LEMMA OrderAfterTail ==
    ASSUME TypeOK, NEW fd \in Fds, InOrder(fd), q # <<>>, q' = Tail(q), sess' = sess,
           \A i, j \in SlotsOf(clients, fd)' : i = j,
           Watching(fd)' =>
             /\ \A k \in Adds(fd) : 1 < k => \E r \in Removes(fd) : 1 < r /\ r < k
             /\ sess[fd] \in {"free", "refused"} => \E r \in Removes(fd) : 1 < r
    PROVE  InOrder(fd)'
<1>1. /\ Adds(fd)' = {k \in 1..(Len(q) - 1) : k + 1 \in Adds(fd)}
      /\ Removes(fd)' = {k \in 1..(Len(q) - 1) : k + 1 \in Removes(fd)}
  BY AboutTail DEF Adds, Removes
<1>2. Removes(fd) \subseteq 1..Len(q) /\ Len(q) \in Nat
  BY AboutRange DEF Removes
<1>3. \A r \in Removes(fd) : 1 < r => r - 1 \in Removes(fd)'
  BY <1>1, <1>2
<1>4. \A k \in Adds(fd)' : k \in Nat /\ k + 1 \in Adds(fd) /\ 1 < k + 1
  BY <1>1
<1>5. \A k \in Adds(fd)' : Watching(fd)' => \E r \in Removes(fd)' : r < k
  <2>1. TAKE k \in Adds(fd)'
  <2>2. HAVE Watching(fd)'
  <2>3. PICK r \in Removes(fd) : 1 < r /\ r < k + 1
    BY <1>4, <2>2
  <2>4. r - 1 \in Removes(fd)' /\ r - 1 < k
    BY <1>2, <1>3, <1>4, <2>3
  <2> QED  BY <2>4
<1>6. \A k, l \in Adds(fd)' : k < l => \E r \in Removes(fd)' : k < r /\ r < l
  <2>1. TAKE k, l \in Adds(fd)'
  <2>2. HAVE k < l
  <2>3. PICK r \in Removes(fd) : k + 1 < r /\ r < l + 1
    BY <1>4, <2>2 DEF InOrder, Alternates
  <2>4. r - 1 \in Removes(fd)'
    BY <1>2, <1>3, <1>4, <2>3
  <2> QED  BY <1>2, <1>4, <2>3, <2>4
<1>7. ASSUME sess[fd] \in {"free", "refused"}
      PROVE  /\ Watching(fd)' => Removes(fd)' # {}
             /\ \A k \in Adds(fd)' : \E r \in Removes(fd)' : k < r
  <2>1. Watching(fd)' => Removes(fd)' # {}
    BY <1>3, <1>7
  <2>2. ASSUME NEW k \in Adds(fd)'
        PROVE  \E r \in Removes(fd)' : k < r
    <3>1. PICK r \in Removes(fd) : k + 1 < r
      BY <1>4, <1>7 DEF InOrder, Alternates
    <3>2. r - 1 \in Removes(fd)' /\ k < r - 1
      BY <1>2, <1>3, <1>4, <3>1
    <3> QED  BY <3>2
  <2> QED  BY <2>1, <2>2
<1> QED  BY <1>5, <1>6, <1>7 DEF InOrder, Alternates

\* The engine takes a message of another descriptor, or a PONG, off the queue.
LEMMA OrderAfterOther ==
    ASSUME TypeOK, NEW fd \in Fds, InOrder(fd), q # <<>>, q' = Tail(q), sess' = sess,
           1 \notin Removes(fd), 1 \notin Adds(fd),
           SlotsOf(clients, fd)' \subseteq SlotsOf(clients, fd)
    PROVE  InOrder(fd)'
<1>1. \A r \in Removes(fd) : 1 < r
  BY AboutRange DEF Removes
<1>2. Watching(fd)' => Watching(fd)
  BY DEF Watching
<1>3. \A i, j \in SlotsOf(clients, fd)' : i = j
  BY DEF InOrder
<1>4. Watching(fd)' =>
        /\ \A k \in Adds(fd) : 1 < k => \E r \in Removes(fd) : 1 < r /\ r < k
        /\ sess[fd] \in {"free", "refused"} => \E r \in Removes(fd) : 1 < r
  BY <1>1, <1>2 DEF InOrder, Alternates
<1> QED  BY <1>3, <1>4, OrderAfterTail

\* The engine registers the descriptor: it had no entry before.
LEMMA OrderAfterAddTaken ==
    ASSUME TypeOK, NEW fd \in Fds, InOrder(fd), q # <<>>, q' = Tail(q), sess' = sess,
           1 \in Adds(fd), clients' = AddFirst(clients, fd)
    PROVE  InOrder(fd)'
<1>0. clients \in Table
  BY DEF TypeOK, Table
<1>1. ~Watching(fd)
  BY AboutRange DEF InOrder, Alternates, Removes
<1>2. \A i, j \in SlotsOf(clients, fd)' : i = j
  BY <1>0, <1>1, AddFirstProperties DEF SlotsOf, Active, Watching, Table
<1>3. \A k \in Adds(fd) : 1 < k => \E r \in Removes(fd) : 1 < r /\ r < k
  BY DEF InOrder, Alternates
<1>4. sess[fd] \in {"free", "refused"} => \E r \in Removes(fd) : 1 < r
  BY DEF InOrder, Alternates
<1> QED  BY <1>2, <1>3, <1>4, OrderAfterTail

\* The engine removes the descriptor: no entry of it is left.
LEMMA OrderAfterRemoveTaken ==
    ASSUME TypeOK, NEW fd \in Fds, InOrder(fd), q # <<>>, q' = Tail(q), sess' = sess,
           clients' = RemoveFirst(clients, fd)
    PROVE  InOrder(fd)'
<1>0. clients \in Table
  BY DEF TypeOK, Table
<1>1. SlotsOf(clients, fd)' = {}
  <2>1. SlotsOf(RemoveFirst(clients, fd), fd) = {}
    BY <1>0, RemoveFirstProperties DEF InOrder
  <2> QED  BY <2>1 DEF SlotsOf, Active
<1>2. ~Watching(fd)'
  BY <1>1 DEF Watching
<1> QED  BY <1>1, <1>2, OrderAfterTail

\* Adding, removing or updating one descriptor adds no entry for another.
LEMMA OthersKeepTheirSlots ==
    ASSUME TypeOK, NEW fd \in Fds, NEW other \in Fds, other # fd
    PROVE  /\ SlotsOf(AddFirst(clients, fd), other) = SlotsOf(clients, other)
           /\ SlotsOf(RemoveFirst(clients, fd), other) = SlotsOf(clients, other)
<1>0. clients \in Table
  BY DEF TypeOK, Table
<1>1. SlotsOf(AddFirst(clients, fd), other) = SlotsOf(clients, other)
  BY <1>0, AddFirstProperties DEF SlotsOf, Active, Table, Entry
<1>2. SlotsOf(RemoveFirst(clients, fd), other) = SlotsOf(clients, other)
  BY <1>0, RemoveFirstProperties DEF SlotsOf, Active
<1> QED  BY <1>1, <1>2

\* Updating a descriptor changes no entry's descriptor.
LEMMA UpdateKeepsSlots ==
    ASSUME TypeOK, NEW fd \in Fds, NEW age \in Ages, NEW other \in Fds
    PROVE  SlotsOf(UpdateFirst(clients, fd, age), other) = SlotsOf(clients, other)
<1>0. clients \in Table
  BY DEF TypeOK, Table
<1>1. CASE UpdateFirst(clients, fd, age) = clients
  BY <1>1
<1>2. ASSUME NEW m \in SlotsOf(clients, fd),
             UpdateFirst(clients, fd, age) =
               [clients EXCEPT ![m] = [fd |-> fd, age |-> age]]
      PROVE  SlotsOf(UpdateFirst(clients, fd, age), other) = SlotsOf(clients, other)
  <2> DEFINE new == [fd |-> fd, age |-> age]
  <2>1. new \in Entry /\ new # NoClient /\ new.fd = fd
    <3>1. new \in Entry /\ new.fd = fd
      BY DEF Entry
    <3>2. NoClient \notin Entry
      BY DEF Entry, Ages
    <3> QED  BY <3>1, <3>2
  <2>2. m \in Slots /\ clients[m] # NoClient /\ clients[m].fd = fd
    BY DEF SlotsOf, Active
  <2>3. \A i \in Slots : UpdateFirst(clients, fd, age)[i] = IF i = m THEN new ELSE clients[i]
    BY <1>0, <1>2, <2>2 DEF Table
  <2> HIDE DEF new
  <2> QED  BY <2>1, <2>2, <2>3 DEF SlotsOf, Active
<1> QED  BY <1>0, <1>1, <1>2, UpdateFirstProperties

\* A message about another descriptor, or a PONG, is no registration and no
\* removal of this one.
LEMMA AppendOther ==
    ASSUME TypeOK, NEW m \in Message, q' = Append(q, m), NEW fd,
           m.fd # fd \/ m.type = "UPDATE"
    PROVE  Adds(fd)' = Adds(fd) /\ Removes(fd)' = Removes(fd)
<1>1. About(fd, {"ADD"})' = About(fd, {"ADD"}) \cup
        {k \in {Len(q) + 1} : m.fd = fd /\ m.type \in {"ADD"}}
  BY AboutAppend
<1>2. About(fd, {"REMOVE"})' = About(fd, {"REMOVE"}) \cup
        {k \in {Len(q) + 1} : m.fd = fd /\ m.type \in {"REMOVE"}}
  BY AboutAppend
<1> QED  BY <1>1, <1>2 DEF Adds, Removes

\* When neither the queue nor the table changes, the order is kept.
LEMMA OrderFrame ==
    ASSUME NEW fd, InOrder(fd), UNCHANGED <<clients, q>>,
           sess'[fd] \in {"free", "refused"} => sess[fd] \in {"free", "refused"}
    PROVE  InOrder(fd)'
<1>1. /\ Adds(fd)' = Adds(fd) /\ Removes(fd)' = Removes(fd)
      /\ SlotsOf(clients, fd)' = SlotsOf(clients, fd)
  BY DEF Adds, Removes, About, SlotsOf, Active
<1> QED  BY <1>1, OrderKept

\* The order is kept by every step of the gateway.
LEMMA AlternationStep ==
    TypeOK /\ AlternationInv /\ [Next]_vars => AlternationInv'
<1> SUFFICES ASSUME TypeOK, AlternationInv, [Next]_vars,
                    NEW fd \in Fds, fd \notin leaked'
             PROVE  InOrder(fd)'
  BY DEF AlternationInv, InOrder
<1>0. fd \notin leaked => InOrder(fd)
  BY DEF AlternationInv, InOrder
<1>a. leaked \subseteq leaked'
  BY DEF Next, Httpd, Engine, Tick, OpenClient, RefuseClient, Pong, PongDropped,
         PeerCloses, TriggeredClose, CloseFd, AddNewClient, RemoveClient, UpdateClient,
         Receive, Timeout, SkipSlot, PingSlot, ExpireSlot, httpdVars, vars
<1>b. InOrder(fd)
  BY <1>0, <1>a
<1>c. sess \in [Fds -> SessionState] /\ clients \in Table
  BY DEF TypeOK, Table
<1>1. ASSUME NEW f \in Fds, OpenClient(f) PROVE InOrder(fd)'
  <2>1. CASE f = fd
    BY <1>1, <1>b, <1>c, <2>1, OrderAfterAdd DEF OpenClient, engineVars
  <2>2. CASE f # fd
    <3>1. Add(f) \in Message /\ Add(f).fd = f
      BY DEF Add, Message, Ages
    <3>2. Adds(fd)' = Adds(fd) /\ Removes(fd)' = Removes(fd)
      BY <1>1, <2>2, <3>1, AppendOther DEF OpenClient
    <3>3. SlotsOf(clients, fd)' = SlotsOf(clients, fd)
      BY <1>1 DEF OpenClient, engineVars, SlotsOf, Active
    <3>4. sess'[fd] = sess[fd]
      BY <1>1, <1>c, <2>2 DEF OpenClient
    <3> QED  BY <1>b, <3>2, <3>3, <3>4, OrderKept
  <2> QED  BY <2>1, <2>2
<1>2. ASSUME NEW f \in Fds, RefuseClient(f) PROVE InOrder(fd)'
  BY <1>2, <1>b, <1>c, OrderFrame DEF RefuseClient, engineVars
<1>3. ASSUME NEW f \in Fds, Pong(f) PROVE InOrder(fd)'
  <2>1. Update(f) \in Message /\ Update(f).type = "UPDATE"
    BY DEF Update, Message, Ages
  <2>2. Adds(fd)' = Adds(fd) /\ Removes(fd)' = Removes(fd)
    BY <1>3, <2>1, AppendOther DEF Pong
  <2>3. SlotsOf(clients, fd)' = SlotsOf(clients, fd) /\ sess' = sess
    BY <1>3 DEF Pong, engineVars, SlotsOf, Active
  <2> QED  BY <1>b, <2>2, <2>3, OrderKept
<1>4. ASSUME NEW f \in Fds, PongDropped(f) PROVE InOrder(fd)'
  BY <1>4, <1>b, <1>c, OrderFrame DEF PongDropped, engineVars
<1>5. ASSUME NEW f \in Fds, PeerCloses(f) PROVE InOrder(fd)'
  BY <1>5, <1>b, <1>c, OrderFrame DEF PeerCloses, engineVars
<1>6. ASSUME NEW f \in Fds, TriggeredClose(f) PROVE InOrder(fd)'
  BY <1>6, <1>b, <1>c, OrderFrame DEF TriggeredClose, engineVars
<1>7. ASSUME NEW f \in Fds, CloseFd(f) PROVE InOrder(fd)'
  <2>0. /\ Remove(f) \in Message /\ Remove(f).fd = f
        /\ SlotsOf(clients, fd)' = SlotsOf(clients, fd) /\ clients' = clients
    BY <1>7 DEF CloseFd, Remove, Message, Ages, engineVars, SlotsOf, Active
  <2>1. CASE f = fd /\ q' = Append(q, Remove(f))
    BY <1>b, <2>0, <2>1, OrderAfterRemove
  <2>2. CASE f = fd /\ UNCHANGED q /\ sess[f] = "refused"
    BY <1>b, <2>0, <2>2, OrderFrame
  <2>3. CASE f # fd /\ q' = Append(q, Remove(f))
    <3>1. Adds(fd)' = Adds(fd) /\ Removes(fd)' = Removes(fd)
      BY <2>0, <2>3, AppendOther
    <3>2. sess'[fd] = sess[fd]
      BY <1>7, <1>c, <2>3 DEF CloseFd
    <3> QED  BY <1>b, <2>0, <3>1, <3>2, OrderKept
  <2>4. CASE f # fd /\ UNCHANGED q
    BY <1>7, <1>b, <1>c, <2>0, <2>4, OrderFrame DEF CloseFd
  <2>5. (UNCHANGED q /\ f = fd) => (sess[f] = "refused" \/ q' = Append(q, Remove(f)))
    BY <1>7 DEF CloseFd
  <2> QED  BY <1>7, <2>1, <2>2, <2>3, <2>4, <2>5 DEF CloseFd
<1>d. ASSUME NEW type, NEW table, Receive(type, table)
      PROVE  /\ q # <<>> /\ q' = Tail(q) /\ clients' = table /\ sess' = sess
             /\ Head(q) \in Message /\ Head(q).fd \in Fds /\ Head(q).age \in Ages
             /\ 1 \in Adds(fd) <=> Head(q).fd = fd /\ type = "ADD"
             /\ 1 \in Removes(fd) <=> Head(q).fd = fd /\ type = "REMOVE"
             /\ SlotsOf(clients, fd)' = SlotsOf(table, fd)
  <2>1. q # <<>> /\ Head(q).type = type
    BY <1>d DEF Receive
  <2>2. Head(q) = q[1] /\ Head(q) \in Message /\ 1 \in DOMAIN q
    BY <2>1, QueueHead, LenProperties DEF TypeOK
  <2> QED  BY <1>d, <2>1, <2>2 DEF Receive, httpdVars, Message, Adds, Removes, About,
              SlotsOf, Active
<1>8. CASE AddNewClient
  <2> DEFINE f == Head(q).fd
  <2>1. Receive("ADD", AddFirst(clients, f))
    BY <1>8 DEF AddNewClient
  <2>2. CASE f = fd
    BY <1>b, <1>d, <2>1, <2>2, OrderAfterAddTaken
  <2>3. CASE f # fd
    <3>1. f \in Fds
      BY <1>d, <2>1
    <3>2. SlotsOf(clients, fd)' \subseteq SlotsOf(clients, fd)
      BY <1>d, <2>1, <2>3, <3>1, OthersKeepTheirSlots
    <3> QED  BY <1>b, <1>d, <2>1, <2>3, <3>2, OrderAfterOther
  <2> QED  BY <2>2, <2>3
<1>9. CASE RemoveClient
  <2> DEFINE f == Head(q).fd
  <2>1. Receive("REMOVE", RemoveFirst(clients, f))
    BY <1>9 DEF RemoveClient
  <2>2. CASE f = fd
    BY <1>b, <1>d, <2>1, <2>2, OrderAfterRemoveTaken
  <2>3. CASE f # fd
    <3>1. f \in Fds
      BY <1>d, <2>1
    <3>2. SlotsOf(clients, fd)' \subseteq SlotsOf(clients, fd)
      BY <1>d, <2>1, <2>3, <3>1, OthersKeepTheirSlots
    <3> QED  BY <1>b, <1>d, <2>1, <2>3, <3>2, OrderAfterOther
  <2> QED  BY <2>2, <2>3
<1>10. CASE UpdateClient
  <2> DEFINE f == Head(q).fd
             age == Head(q).age
  <2>1. Receive("UPDATE", UpdateFirst(clients, f, age))
    BY <1>10 DEF UpdateClient
  <2>2. f \in Fds /\ age \in Ages
    BY <1>d, <2>1
  <2>3. SlotsOf(clients, fd)' = SlotsOf(clients, fd)
    BY <1>d, <2>1, <2>2, UpdateKeepsSlots
  <2> QED  BY <1>b, <1>d, <2>1, <2>3, OrderAfterOther
<1>11. CASE Timeout
  BY <1>11, <1>b, OrderFrame DEF Timeout, httpdVars
<1>12. CASE SkipSlot
  BY <1>12, <1>b, OrderFrame DEF SkipSlot, NextSlot, httpdVars
<1>e. ASSUME UNCHANGED <<q, sess>>, SlotsOf(clients, fd)' \subseteq SlotsOf(clients, fd)
      PROVE  InOrder(fd)'
  <2>1. Adds(fd)' = Adds(fd) /\ Removes(fd)' = Removes(fd)
    BY <1>e DEF Adds, Removes, About
  <2> QED  BY <1>b, <1>e, <2>1, OrderKept
<1>13. CASE PingSlot
  BY <1>13, <1>b, OrderFrame DEF PingSlot, NextSlot, httpdVars
<1>14. CASE ExpireSlot
  <2> DEFINE f == clients[scan].fd
  <2>1. clients' = RemoveFirst(clients, f) /\ UNCHANGED <<q, sess>>
    BY <1>14 DEF ExpireSlot, NextSlot, httpdVars
  <2>2. f \in Fds
    BY <1>14, <1>c DEF ExpireSlot, Table, Entry
  <2>3. SlotsOf(clients, fd)' \subseteq SlotsOf(clients, fd)
    BY <1>c, <2>1, <2>2, RemoveFirstProperties DEF SlotsOf, Active
  <2> QED  BY <1>e, <2>1, <2>3
<1>15. CASE Tick
  <2>1. Adds(fd)' = Adds(fd) /\ Removes(fd)' = Removes(fd)
    <3>1. DOMAIN q' = DOMAIN q
      BY <1>15 DEF Tick
    <3>2. \A k \in DOMAIN q : q[k] \in Message
      BY LenProperties DEF TypeOK
    <3>3. \A k \in DOMAIN q : q'[k].fd = q[k].fd /\ q'[k].type = q[k].type
      BY <1>15, <3>2 DEF Tick, Message
    <3> QED  BY <3>1, <3>3 DEF Adds, Removes, About
  <2>2. SlotsOf(clients, fd)' \subseteq SlotsOf(clients, fd)
    <3>1. \A i \in Slots : clients'[i] # NoClient =>
            clients[i] # NoClient /\ clients'[i].fd = clients[i].fd
      BY <1>15, <1>c DEF Tick, Table, Entry
    <3> QED  BY <3>1 DEF SlotsOf, Active
  <2> QED  BY <1>15, <1>b, <2>1, <2>2, OrderKept DEF Tick
<1>16. CASE UNCHANGED vars
  BY <1>16, <1>b, OrderFrame DEF vars
<1> QED
  BY <1>1, <1>2, <1>3, <1>4, <1>5, <1>6, <1>7, <1>8, <1>9, <1>10, <1>11, <1>12,
     <1>13, <1>14, <1>15, <1>16 DEF Next, Httpd, Engine

LEMMA AlternationInit == Init => AlternationInv
<1> SUFFICES ASSUME Init, NEW fd \in Fds PROVE InOrder(fd)
  BY DEF AlternationInv, InOrder
<1>1. SlotsOf(clients, fd) = {} /\ Adds(fd) = {}
  BY DEF Init, SlotsOf, Active, Adds, About
<1> QED  BY <1>1 DEF InOrder, Alternates, Watching

\* Registrations and removals of a descriptor alternate from the table to the
\* end of the queue, for every size of the table and of the queue.
THEOREM Alternation == Spec => []AlternationInv
<1>1. Init => TypeOK /\ AlternationInv
  BY TypeInit, AlternationInit
<1>2. (TypeOK /\ AlternationInv) /\ [Next]_vars => (TypeOK /\ AlternationInv)'
  BY TypeStep, AlternationStep
<1> QED  BY <1>1, <1>2, PTL DEF Spec

\* As long as no removal of a descriptor was dropped, the engine's table holds
\* one entry for it at most: the searches that stop at the first match find
\* the only one.
THEOREM OneEntry == Spec => []OneEntryPerClient
<1>1. AlternationInv => OneEntryPerClient
  BY DEF AlternationInv, OneEntryPerClient
<1> QED  BY <1>1, Alternation, PTL

-----------------------------------------------------------------------------
(* The engine has room.                                                    *)

\* The registrations and removals of a descriptor do not coincide.
LEMMA AddsAreNoRemoves ==
    ASSUME TypeOK, NEW fd
    PROVE  Adds(fd) \cap Removes(fd) = {}
  BY DEF Adds, Removes, About

\* A new message changes nothing for those before it.
LEMMA HoldsAppend ==
    ASSUME TypeOK, NEW m \in Message, q' = Append(q, m), clients' = clients,
           NEW fd, NEW k \in 1..(Len(q) + 1)
    PROVE  Holds(fd, k)' <=> Holds(fd, k)
<1>1. /\ About(fd, {"ADD"})' = About(fd, {"ADD"}) \cup
           {n \in {Len(q) + 1} : m.fd = fd /\ m.type \in {"ADD"}}
      /\ About(fd, {"REMOVE"})' = About(fd, {"REMOVE"}) \cup
           {n \in {Len(q) + 1} : m.fd = fd /\ m.type \in {"REMOVE"}}
  BY AboutAppend
<1>2. Adds(fd) \subseteq 1..Len(q) /\ Removes(fd) \subseteq 1..Len(q) /\ Len(q) \in Nat
  BY AboutRange DEF Adds, Removes
<1>3. /\ Adds(fd) \subseteq Adds(fd)' /\ Adds(fd)' \subseteq Adds(fd) \cup {Len(q) + 1}
      /\ Removes(fd) \subseteq Removes(fd)' /\ Removes(fd)' \subseteq Removes(fd) \cup {Len(q) + 1}
  BY <1>1 DEF Adds, Removes
<1>4. Watching(fd)' <=> Watching(fd)
  BY DEF Watching, SlotsOf, Active
<1> QED  BY <1>2, <1>3, <1>4 DEF Holds

\* The engine's table after the head of the queue: what the head registers is
\* there, what it removes is not, all else is as before.
Obeyed(fd) ==
    Watching(fd)' <=> (1 \in Adds(fd) \/ (Watching(fd) /\ 1 \notin Removes(fd)))

\* Working off the head brings the table to where the next message finds it.
LEMMA HoldsTail ==
    ASSUME TypeOK, q # <<>>, q' = Tail(q), NEW fd, NEW k \in 1..Len(q),
           Watching(fd)' => (1 \in Adds(fd) \/ (Watching(fd) /\ 1 \notin Removes(fd)))
    PROVE  Holds(fd, k)' => Holds(fd, k + 1)
<1>1. /\ Adds(fd)' = {n \in 1..(Len(q) - 1) : n + 1 \in Adds(fd)}
      /\ Removes(fd)' = {n \in 1..(Len(q) - 1) : n + 1 \in Removes(fd)}
  BY AboutTail DEF Adds, Removes
<1>2. Adds(fd) \subseteq 1..Len(q) /\ Removes(fd) \subseteq 1..Len(q) /\ Len(q) \in Nat
  BY AboutRange DEF Adds, Removes
<1>3. \A r \in Removes(fd) : r = 1 \/ r - 1 \in Removes(fd)'
  BY <1>1, <1>2
<1>4. CASE Watching(fd)' /\ \A r \in Removes(fd)' : r >= k
  <2>1. \A r \in Removes(fd) : r = 1 \/ r >= k + 1
    BY <1>2, <1>3, <1>4
  <2>2. CASE 1 \in Adds(fd)
    BY <1>2, <2>1, <2>2, AddsAreNoRemoves DEF Holds
  <2>3. CASE Watching(fd) /\ 1 \notin Removes(fd)
    BY <2>1, <2>3 DEF Holds
  <2> QED  BY <1>4, <2>2, <2>3
<1>5. ASSUME NEW a \in Adds(fd)', a < k, \A r \in Removes(fd)' : r < k => r < a
      PROVE  Holds(fd, k + 1)
  <2>1. a \in Nat \ {0} /\ a + 1 \in Adds(fd) /\ a + 1 < k + 1
    BY <1>1, <1>2, <1>5
  <2>2. ASSUME NEW r \in Removes(fd), r < k + 1 PROVE r < a + 1
    BY <1>2, <1>3, <1>5, <2>1, <2>2
  <2> QED  BY <2>1, <2>2 DEF Holds
<1> QED  BY <1>4, <1>5 DEF Holds

\* A bound on the entries ahead of a message holds for any smaller set of them.
LEMMA AheadShrinks ==
    ASSUME NEW S, IsFiniteSet(S), Cardinality(S) < MaxClients, NEW T, T \subseteq S
    PROVE  IsFiniteSet(T) /\ Cardinality(T) < MaxClients
<1>1. IsFiniteSet(T) /\ Cardinality(T) <= Cardinality(S)
  BY FS_Subset
<1> QED  BY <1>1, FS_CardinalityType

\* The descriptor is in the table once the whole queue has been worked off.
InTable(fd) ==
    \/ Watching(fd) /\ Removes(fd) = {}
    \/ \E k \in Adds(fd) : \A r \in Removes(fd) : r < k

\* The end of the queue is one of the positions Holds speaks about.
LEMMA InTableHolds ==
    ASSUME TypeOK, NEW fd
    PROVE  InTable(fd) <=> Holds(fd, Len(q) + 1)
  BY AboutRange DEF InTable, Holds, Adds, Removes

\* What the table will hold belongs to sessions that exist.
LEMMA InTableIsOpen ==
    ASSUME TypeOK, NEW fd \in Fds, InOrder(fd), InTable(fd)
    PROVE  fd \in Opened
<1>1. Adds(fd) \subseteq 1..Len(q) /\ Removes(fd) \subseteq 1..Len(q) /\ Len(q) \in Nat
  BY AboutRange DEF Adds, Removes
<1>2. sess[fd] \notin {"free", "refused"}
  BY <1>1 DEF InOrder, Alternates, InTable
<1> QED  BY <1>2 DEF TypeOK, SessionState, Opened

\* A registration at the head finds a free slot.
LEMMA HeadFindsSlot == TypeOK /\ AlternationInv /\ RoomInv => AddFindsSlot
<1> SUFFICES ASSUME TypeOK, AlternationInv, RoomInv,
                    leaked = {}, q # <<>>, Head(q).type = "ADD", Active(clients) = Slots
             PROVE  FALSE
  BY DEF AddFindsSlot
<1> DEFINE f == Head(q).fd
           holder == [i \in Slots |-> clients[i].fd]
<1>1. f \in Fds /\ 1 \in Adds(f)
  <2>1. Head(q) \in Message /\ Head(q) = q[1] /\ 1 \in DOMAIN q
    BY QueueHead, LenProperties DEF TypeOK
  <2> QED  BY <2>1 DEF Message, Adds, About
<1>2. IsFiniteSet(Ahead(1)) /\ Cardinality(Ahead(1)) < MaxClients
  BY <1>1 DEF RoomInv
<1>3. \A i \in Slots : clients[i].fd \in Fds /\ i \in SlotsOf(clients, clients[i].fd)
  BY DEF TypeOK, Active, Entry, SlotsOf
<1>4. \A i \in Slots : clients[i].fd \in Ahead(1)
  <2>1. \A i \in Slots : \A r \in Removes(clients[i].fd) : r >= 1
    BY AboutRange DEF Removes
  <2> QED  BY <1>3, <2>1 DEF Ahead, Holds, Watching
<1>5. holder \in Injection(Slots, Ahead(1))
  <2>1. holder \in [Slots -> Ahead(1)]
    BY <1>4
  <2>2. \A i, j \in Slots : holder[i] = holder[j] => i = j
    BY <1>3 DEF AlternationInv
  <2> HIDE DEF holder
  <2> QED  BY <2>1, <2>2 DEF Injection, IsInjective
<1>6. Cardinality(Slots) <= Cardinality(Ahead(1))
  <2> HIDE DEF holder
  <2> QED  BY <1>2, <1>5, FS_Injection
<1>7. Cardinality(Slots) = MaxClients
  BY FS_Interval DEF Slots
<1> QED  BY <1>2, <1>6, <1>7, FS_CardinalityType

\* What a message does to the table, whatever its type.
LEMMA HeadIsObeyed ==
    ASSUME TypeOK, AlternationInv, RoomInv, leaked = {}, NEW fd \in Fds,
           AddNewClient \/ RemoveClient \/ UpdateClient
    PROVE  /\ q # <<>> /\ q' = Tail(q) /\ sess' = sess
           /\ Obeyed(fd)
<1>0. clients \in Table /\ q # <<>>
  BY DEF TypeOK, Table, AddNewClient, RemoveClient, UpdateClient, Receive
<1>a. ASSUME NEW type, NEW table, Receive(type, table)
      PROVE  /\ q # <<>> /\ q' = Tail(q) /\ clients' = table /\ sess' = sess
             /\ Head(q).type = type /\ Head(q).fd \in Fds /\ Head(q).age \in Ages
             /\ 1 \in Adds(fd) <=> Head(q).fd = fd /\ type = "ADD"
             /\ 1 \in Removes(fd) <=> Head(q).fd = fd /\ type = "REMOVE"
             /\ SlotsOf(clients, fd)' = SlotsOf(table, fd)
  <2>1. q # <<>> /\ Head(q).type = type
    BY <1>a DEF Receive
  <2>2. Head(q) = q[1] /\ Head(q) \in Message /\ 1 \in DOMAIN q
    BY <2>1, QueueHead, LenProperties DEF TypeOK
  <2> QED  BY <1>a, <2>1, <2>2 DEF Receive, httpdVars, Message, Adds, Removes, About,
              SlotsOf, Active
<1> DEFINE f == Head(q).fd
<1>1. CASE AddNewClient
  <2>1. Receive("ADD", AddFirst(clients, f))
    BY <1>1 DEF AddNewClient
  <2>2. CASE f = fd
    <3>1. Active(clients) # Slots
      BY <1>0, <1>a, <2>1, HeadFindsSlot DEF AddFindsSlot
    <3>2. SlotsOf(AddFirst(clients, fd), fd) # {}
      <4> DEFINE m == Min(Slots \ Active(clients))
      <4>1. m \in Slots
        BY <3>1, MinOfNaturals DEF Slots, Active
      <4>2. AddFirst(clients, fd) = [clients EXCEPT ![m] = [fd |-> fd, age |-> 0]]
        BY <3>1 DEF AddFirst
      <4>3. [fd |-> fd, age |-> 0] # NoClient
        BY DEF Ages
      <4> HIDE DEF m
      <4>4. m \in SlotsOf(AddFirst(clients, fd), fd)
        BY <1>0, <4>1, <4>2, <4>3 DEF Table, SlotsOf, Active
      <4> QED  BY <4>4
    <3> QED  BY <1>a, <2>1, <2>2, <3>2 DEF Obeyed, Watching
  <2>3. CASE f # fd
    BY <1>a, <2>1, <2>3, OthersKeepTheirSlots DEF Obeyed, Watching
  <2> QED  BY <1>a, <2>1, <2>2, <2>3
<1>2. CASE RemoveClient
  <2>1. Receive("REMOVE", RemoveFirst(clients, f))
    BY <1>2 DEF RemoveClient
  <2>2. CASE f = fd
    <3>1. SlotsOf(RemoveFirst(clients, fd), fd) = {}
      BY <1>0, RemoveFirstProperties DEF AlternationInv
    <3> QED  BY <1>a, <2>1, <2>2, <3>1 DEF Obeyed, Watching
  <2>3. CASE f # fd
    BY <1>a, <2>1, <2>3, OthersKeepTheirSlots DEF Obeyed, Watching
  <2> QED  BY <1>a, <2>1, <2>2, <2>3
<1>3. CASE UpdateClient
  <2>1. Receive("UPDATE", UpdateFirst(clients, f, Head(q).age))
    BY <1>3 DEF UpdateClient
  <2>2. SlotsOf(clients, fd)' = SlotsOf(clients, fd)
    BY <1>a, <2>1, UpdateKeepsSlots
  <2> QED  BY <1>a, <2>1, <2>2 DEF Obeyed, Watching
<1> QED  BY <1>1, <1>2, <1>3

\* A PONG, a refused connection, a session about to end, the scan while it only
\* skips and pings, and time change neither what is registered nor who is open.
Uneventful ==
    /\ leaked' = leaked /\ Opened' = Opened
    /\ \A fd \in Fds : /\ Adds(fd)' = Adds(fd) /\ Removes(fd)' = Removes(fd)
                       /\ SlotsOf(clients, fd)' = SlotsOf(clients, fd)
                       /\ sess'[fd] = "open" => sess[fd] = "open"
                       /\ sess'[fd] = "open" /\ fd \in closes => fd \in closes'

Taken == AddNewClient \/ RemoveClient \/ UpdateClient

\* All other steps accept or end a session, take a message or expire an entry.
LEMMA KindsOfSteps ==
    ASSUME TypeOK, [Next]_vars
    PROVE  \/ \E f \in Fds : OpenClient(f) \/ CloseFd(f)
           \/ Taken \/ ExpireSlot
           \/ Uneventful
<1> DEFINE SameSlots == \A fd \in Fds : SlotsOf(clients, fd)' = SlotsOf(clients, fd)
           SameNews == \A fd \in Fds : Adds(fd)' = Adds(fd) /\ Removes(fd)' = Removes(fd)
           SameClients == Opened' = Opened /\ \A fd \in Fds : sess'[fd] = "open" => sess[fd] = "open"
           SameCloses == \A fd \in Fds : sess'[fd] = "open" /\ fd \in closes => fd \in closes'
<1>a. clients' = clients => SameSlots
  BY DEF SlotsOf, Active
<1>b. q' = q => SameNews
  BY DEF Adds, Removes, About
<1>c. sess' = sess => SameClients
  BY DEF Opened
<1>d. closes' = closes => SameCloses
  OBVIOUS
<1>e. ASSUME leaked' = leaked, SameSlots, SameNews, SameClients, SameCloses PROVE Uneventful
  BY <1>e DEF Uneventful
<1> USE DEF engineVars, httpdVars, SessionState
<1>1. ASSUME NEW f \in Fds, RefuseClient(f) PROVE Uneventful
  <2>1. SameClients
    BY <1>1 DEF RefuseClient, TypeOK, Opened
  <2> HIDE DEF SameSlots, SameNews, SameClients, SameCloses
  <2> QED  BY <1>1, <1>a, <1>b, <1>d, <1>e, <2>1 DEF RefuseClient
<1>2. ASSUME NEW f \in Fds, Pong(f) PROVE Uneventful
  <2>1. Update(f) \in Message /\ Update(f).type = "UPDATE"
    BY DEF Update, Message, Ages
  <2>2. SameNews
    BY <1>2, <2>1, AppendOther DEF Pong
  <2> HIDE DEF SameSlots, SameNews, SameClients, SameCloses
  <2> QED  BY <1>2, <1>a, <1>c, <1>d, <1>e, <2>2 DEF Pong
<1>3. ASSUME NEW f \in Fds, PongDropped(f) \/ PeerCloses(f) PROVE Uneventful
  <2>1. SameClients
    BY <1>3 DEF PongDropped, PeerCloses, TypeOK, Opened
  <2> HIDE DEF SameSlots, SameNews, SameClients, SameCloses
  <2> QED  BY <1>3, <1>a, <1>b, <1>d, <1>e, <2>1 DEF PongDropped, PeerCloses
<1>4. ASSUME NEW f \in Fds, TriggeredClose(f) PROVE Uneventful
  <2>0. sess' = [sess EXCEPT ![f] = IF sess[f] = "open" THEN "closing" ELSE sess[f]]
    BY <1>4 DEF TriggeredClose
  <2>1. SameClients
    <3>1. CASE sess[f] = "open"
      BY <2>0, <3>1 DEF TypeOK, Opened
    <3>2. CASE sess[f] # "open"
      BY <2>0, <3>2 DEF TypeOK, Opened
    <3> QED  BY <3>1, <3>2
  <2>2. SameCloses
    BY <1>4, <2>0 DEF TriggeredClose, TypeOK
  <2> HIDE DEF SameSlots, SameNews, SameClients, SameCloses
  <2> QED  BY <1>4, <1>a, <1>b, <1>e, <2>1, <2>2 DEF TriggeredClose
<1>5. CASE Timeout \/ SkipSlot \/ PingSlot
  <2> HIDE DEF SameSlots, SameNews, SameClients, SameCloses
  <2> QED  BY <1>5, <1>a, <1>b, <1>c, <1>d, <1>e DEF Timeout, SkipSlot, PingSlot, NextSlot
<1>6. CASE Tick
  <2>1. SameNews
    <3>1. DOMAIN q' = DOMAIN q
      BY <1>6 DEF Tick
    <3>2. \A k \in DOMAIN q : q[k] \in Message
      BY LenProperties DEF TypeOK
    <3>3. \A k \in DOMAIN q : q'[k].fd = q[k].fd /\ q'[k].type = q[k].type
      BY <1>6, <3>2 DEF Tick, Message
    <3> QED  BY <3>1, <3>3 DEF Adds, Removes, About
  <2>2. SameSlots
    <3>1. \A i \in Slots : /\ clients'[i] = NoClient <=> clients[i] = NoClient
                           /\ clients[i] # NoClient => clients'[i].fd = clients[i].fd
      <4> SUFFICES ASSUME NEW i \in Slots
                   PROVE  /\ clients'[i] = NoClient <=> clients[i] = NoClient
                          /\ clients[i] # NoClient => clients'[i].fd = clients[i].fd
        OBVIOUS
      <4>1. CASE clients[i] = NoClient
        BY <1>6, <4>1 DEF Tick
      <4>2. CASE clients[i] \in Entry
        <5>1. clients'[i] = [clients[i] EXCEPT !.age = Older(clients[i].age)]
          BY <1>6, <4>2 DEF Tick, Entry, Ages
        <5>2. clients'[i] \in Entry /\ clients'[i].fd = clients[i].fd
          BY <4>2, <5>1 DEF Entry, Ages, Older
        <5> QED  BY <4>2, <5>2 DEF Entry, Ages
      <4> QED  BY <4>1, <4>2 DEF TypeOK
    <3> QED  BY <3>1 DEF SlotsOf, Active
  <2> HIDE DEF SameSlots, SameNews, SameClients, SameCloses
  <2> QED  BY <1>6, <1>c, <1>d, <1>e, <2>1, <2>2 DEF Tick
<1>7. CASE UNCHANGED vars
  <2> HIDE DEF SameSlots, SameNews, SameClients, SameCloses
  <2> QED  BY <1>7, <1>a, <1>b, <1>c, <1>d, <1>e DEF vars
<1> QED
  BY <1>1, <1>2, <1>3, <1>4, <1>5, <1>6, <1>7 DEF Next, Httpd, Engine, Taken

\* A removal that is lost stays lost.
LEMMA LeakedStays == [Next]_vars => leaked \subseteq leaked'
  BY DEF Next, Httpd, Engine, Tick, OpenClient, RefuseClient, Pong, PongDropped,
         PeerCloses, TriggeredClose, CloseFd, AddNewClient, RemoveClient, UpdateClient,
         Receive, Timeout, SkipSlot, PingSlot, ExpireSlot, httpdVars, vars

\* Expiry takes entries of one descriptor away, and moves no message.
LEMMA ExpiryEffect ==
    ASSUME TypeOK, ExpireSlot
    PROVE  /\ clients[scan].fd \in Fds
           /\ clients' = RemoveFirst(clients, clients[scan].fd)
           /\ q' = q /\ sess' = sess /\ leaked' = leaked /\ Opened' = Opened
           /\ \A fd \in Fds : /\ Adds(fd)' = Adds(fd) /\ Removes(fd)' = Removes(fd)
                              /\ Watching(fd)' => Watching(fd)
                              /\ fd # clients[scan].fd => SlotsOf(clients, fd)' = SlotsOf(clients, fd)
<1> DEFINE f == clients[scan].fd
<1>0. clients \in Table
  BY DEF TypeOK, Table
<1>1. f \in Fds
  BY <1>0 DEF ExpireSlot, Table, Entry
<1>2. /\ clients' = RemoveFirst(clients, f)
      /\ q' = q /\ sess' = sess /\ leaked' = leaked
  BY DEF ExpireSlot, NextSlot, httpdVars
<1>3. \A fd \in Fds : SlotsOf(clients, fd)' = SlotsOf(RemoveFirst(clients, f), fd)
  BY <1>2 DEF SlotsOf, Active
<1>4. \A fd \in Fds : fd # f => SlotsOf(clients, fd)' = SlotsOf(clients, fd)
  BY <1>1, <1>3, OthersKeepTheirSlots
<1>5. \A fd \in Fds : SlotsOf(clients, fd)' \subseteq SlotsOf(clients, fd)
  BY <1>0, <1>1, <1>2, RemoveFirstProperties DEF SlotsOf, Active
<1> QED  BY <1>1, <1>2, <1>4, <1>5 DEF Adds, Removes, About, Watching, Opened

\* Accepting, ending and nothing else changes who is open.
LEMMA OpenedAfterOpen ==
    ASSUME TypeOK, NEW f \in Fds, OpenClient(f)
    PROVE  f \notin Opened /\ Opened' = Opened \cup {f}
  BY DEF TypeOK, OpenClient, Opened

LEMMA OpenedAfterClose ==
    ASSUME TypeOK, NEW f \in Fds, CloseFd(f)
    PROVE  Opened' = Opened \ {f} /\ (f \in Opened <=> sess[f] = "closing")
  BY DEF TypeOK, CloseFd, Opened

\* The room for registrations is kept.
LEMMA RoomStep ==
    TypeOK /\ AlternationInv /\ RoomInv /\ [Next]_vars => RoomInv'
<1> SUFFICES ASSUME TypeOK, AlternationInv, RoomInv, [Next]_vars PROVE RoomInv'
  OBVIOUS
<1>0. \A fd \in Fds : Adds(fd) \subseteq 1..Len(q) /\ Len(q) \in Nat
  BY AboutRange DEF Adds
<1>1. ASSUME NEW f \in Fds, OpenClient(f) PROVE RoomInv'
  <2>1. IsFiniteSet(Opened')
    BY <1>1, OpenedAfterOpen, FS_AddElement DEF RoomInv
  <2>2. ASSUME leaked = {}, NEW fd \in Fds, NEW k \in Adds(fd)'
        PROVE  IsFiniteSet(Ahead(k)') /\ Cardinality(Ahead(k)') < MaxClients
    <3>1. Add(f) \in Message /\ q' = Append(q, Add(f)) /\ clients' = clients
      BY <1>1 DEF OpenClient, engineVars, Add, Message, Ages
    <3>2. k \in Adds(fd) \cup {Len(q) + 1}
      BY <2>2, <3>1, AboutAppend DEF Adds
    <3>3. k \in 1..(Len(q) + 1)
      BY <1>0, <3>2
    <3>4. Ahead(k)' = Ahead(k)
      BY <3>1, <3>3, HoldsAppend DEF Ahead
    <3>5. CASE k \in Adds(fd)
      BY <2>2, <3>4, <3>5 DEF RoomInv
    <3>6. CASE k = Len(q) + 1
      <4>1. Ahead(k) \subseteq Opened
        BY <2>2, <3>6, InTableHolds, InTableIsOpen DEF Ahead, AlternationInv, InOrder
      <4>2. IsFiniteSet(Opened) /\ Cardinality(Opened) < MaxClients
        BY <1>1 DEF OpenClient, SessionAvailable, RoomInv
      <4> QED  BY <3>4, <4>1, <4>2, AheadShrinks
    <3> QED  BY <3>2, <3>5, <3>6
  <2>3. leaked' = leaked
    BY <1>1 DEF OpenClient
  <2> QED  BY <2>1, <2>2, <2>3 DEF RoomInv
<1>2. ASSUME NEW f \in Fds, CloseFd(f) PROVE RoomInv'
  <2>1. IsFiniteSet(Opened')
    BY <1>2, OpenedAfterClose, FS_RemoveElement DEF RoomInv
  <2>2. ASSUME leaked = {}, NEW fd \in Fds, NEW k \in Adds(fd)'
        PROVE  IsFiniteSet(Ahead(k)') /\ Cardinality(Ahead(k)') < MaxClients
    <3>0. clients' = clients /\ (q' = q \/ q' = Append(q, Remove(f)))
      BY <1>2 DEF CloseFd, engineVars
    <3>1. CASE q' = q
      <4>1. k \in Adds(fd) /\ Ahead(k)' = Ahead(k)
        BY <2>2, <3>0, <3>1 DEF Ahead, Holds, Adds, Removes, About, Watching, SlotsOf, Active
      <4> QED  BY <2>2, <4>1 DEF RoomInv
    <3>2. CASE q' = Append(q, Remove(f))
      <4>1. Remove(f) \in Message /\ Remove(f).type = "REMOVE"
        BY DEF Remove, Message, Ages
      <4>2. k \in Adds(fd)
        BY <2>2, <3>2, <4>1, AboutAppend DEF Adds
      <4>3. k \in 1..(Len(q) + 1)
        BY <1>0, <4>2
      <4>4. Ahead(k)' = Ahead(k)
        BY <3>0, <3>2, <4>1, <4>3, HoldsAppend DEF Ahead
      <4> QED  BY <2>2, <4>2, <4>4 DEF RoomInv
    <3> QED  BY <3>0, <3>1, <3>2
  <2> QED  BY <2>1, <2>2, LeakedStays DEF RoomInv
<1>3. CASE Taken
  <2>0. leaked' = leaked /\ sess' = sess
    BY <1>3 DEF Taken, AddNewClient, RemoveClient, UpdateClient, Receive, httpdVars
  <2>1. ASSUME leaked = {}, NEW fd \in Fds, NEW k \in Adds(fd)'
        PROVE  IsFiniteSet(Ahead(k)') /\ Cardinality(Ahead(k)') < MaxClients
    <3>1. \A x \in Fds : q # <<>> /\ q' = Tail(q) /\ Obeyed(x)
      BY <1>3, <2>1, HeadIsObeyed DEF Taken
    <3>2. k \in 1..(Len(q) - 1) /\ k + 1 \in Adds(fd)
      BY <2>1, <3>1, AboutTail DEF Adds
    <3>3. Ahead(k)' \subseteq Ahead(k + 1)
      BY <1>0, <3>1, <3>2, HoldsTail DEF Ahead, Obeyed
    <3>4. IsFiniteSet(Ahead(k + 1)) /\ Cardinality(Ahead(k + 1)) < MaxClients
      BY <2>1, <3>2 DEF RoomInv
    <3> QED  BY <3>3, <3>4, AheadShrinks
  <2> QED  BY <2>0, <2>1 DEF RoomInv, Opened
<1>4. CASE ExpireSlot
  <2>1. ASSUME leaked = {}, NEW fd \in Fds, NEW k \in Adds(fd)'
        PROVE  IsFiniteSet(Ahead(k)') /\ Cardinality(Ahead(k)') < MaxClients
    <3>1. k \in Adds(fd) /\ Ahead(k)' \subseteq Ahead(k)
      BY <1>4, <2>1, ExpiryEffect DEF Ahead, Holds
    <3>2. IsFiniteSet(Ahead(k)) /\ Cardinality(Ahead(k)) < MaxClients
      BY <2>1, <3>1 DEF RoomInv
    <3> QED  BY <3>1, <3>2, AheadShrinks
  <2> QED  BY <1>4, <2>1, ExpiryEffect DEF RoomInv
<1>5. CASE Uneventful
  <2>1. \A k : Ahead(k)' = Ahead(k)
    BY <1>5 DEF Uneventful, Ahead, Holds, Watching
  <2> QED  BY <1>5, <2>1 DEF Uneventful, RoomInv
<1> QED  BY <1>1, <1>2, <1>3, <1>4, <1>5, KindsOfSteps

LEMMA RoomInit == Init => RoomInv
<1> SUFFICES ASSUME Init PROVE RoomInv
  OBVIOUS
<1>1. Opened = {}
  BY DEF Init, Opened
<1>2. \A fd \in Fds : Adds(fd) = {}
  BY DEF Init, Adds, About
<1> QED  BY <1>1, <1>2, FS_EmptySet DEF RoomInv

\* For every size of table and queue: a registration never waits behind more
\* entries than leave it a slot.
THEOREM RoomIsKept == Spec => []RoomInv
<1>1. Init => TypeOK /\ AlternationInv /\ RoomInv
  BY TypeInit, AlternationInit, RoomInit
<1>2. (TypeOK /\ AlternationInv /\ RoomInv) /\ [Next]_vars => (TypeOK /\ AlternationInv /\ RoomInv)'
  BY TypeStep, AlternationStep, RoomStep
<1> QED  BY <1>1, <1>2, PTL DEF Spec

\* As long as no removal was dropped, add_new_client finds a slot.
THEOREM AddSucceeds == Spec => []AddFindsSlot
  BY TypeCorrect, Alternation, RoomIsKept, HeadFindsSlot, PTL

-----------------------------------------------------------------------------
(* Every open session is watched.                                          *)

\* Working off the head leaves what the queue is about to make of the table.
LEMMA InTableTail ==
    ASSUME TypeOK, NEW fd, q # <<>>, q' = Tail(q), Obeyed(fd)
    PROVE  InTable(fd)' <=> InTable(fd)
<1>1. /\ Adds(fd)' = {n \in 1..(Len(q) - 1) : n + 1 \in Adds(fd)}
      /\ Removes(fd)' = {n \in 1..(Len(q) - 1) : n + 1 \in Removes(fd)}
  BY AboutTail DEF Adds, Removes
<1>2. Adds(fd) \subseteq 1..Len(q) /\ Removes(fd) \subseteq 1..Len(q) /\ Len(q) \in Nat
  BY AboutRange DEF Adds, Removes
<1>3. /\ \A r \in Removes(fd) : r = 1 \/ r - 1 \in Removes(fd)'
      /\ \A a \in Adds(fd) : a = 1 \/ a - 1 \in Adds(fd)'
  BY <1>1, <1>2
<1>4. ASSUME InTable(fd)' PROVE InTable(fd)
  <2>1. CASE Watching(fd)' /\ Removes(fd)' = {}
    <3>1. \A r \in Removes(fd) : r = 1
      BY <1>3, <2>1
    <3>2. CASE 1 \in Adds(fd)
      BY <3>1, <3>2, AddsAreNoRemoves DEF InTable
    <3>3. CASE Watching(fd) /\ 1 \notin Removes(fd)
      BY <3>1, <3>3 DEF InTable
    <3> QED  BY <2>1, <3>2, <3>3 DEF Obeyed
  <2>2. ASSUME NEW a \in Adds(fd)', \A r \in Removes(fd)' : r < a PROVE InTable(fd)
    <3>1. a \in Nat \ {0} /\ a + 1 \in Adds(fd)
      BY <1>1, <2>2
    <3>2. \A r \in Removes(fd) : r < a + 1
      BY <1>2, <1>3, <2>2, <3>1
    <3> QED  BY <3>1, <3>2 DEF InTable
  <2> QED  BY <1>4, <2>1, <2>2 DEF InTable
<1>5. ASSUME InTable(fd) PROVE InTable(fd)'
  <2>1. CASE Watching(fd) /\ Removes(fd) = {}
    BY <1>1, <2>1 DEF InTable, Obeyed
  <2>2. ASSUME NEW a \in Adds(fd), \A r \in Removes(fd) : r < a PROVE InTable(fd)'
    <3>1. CASE a = 1
      <4>1. Removes(fd) = {}
        BY <1>2, <2>2, <3>1
      <4> QED  BY <1>1, <3>1, <4>1 DEF InTable, Obeyed
    <3>2. CASE a # 1
      <4>1. a - 1 \in Adds(fd)'
        BY <1>3, <3>2
      <4>2. \A r \in Removes(fd)' : r < a - 1
        BY <1>1, <1>2, <2>2
      <4> QED  BY <4>1, <4>2 DEF InTable
    <3> QED  BY <3>1, <3>2
  <2> QED  BY <1>5, <2>1, <2>2 DEF InTable
<1> QED  BY <1>4, <1>5

\* A new session is on its way into the table.
LEMMA InTableAfterOpen ==
    ASSUME TypeOK, NEW f \in Fds, OpenClient(f), NEW fd \in Fds
    PROVE  InTable(fd)' <=> (fd = f \/ InTable(fd))
<1>0. Add(f) \in Message /\ Add(f).fd = f /\ Add(f).type = "ADD"
  BY DEF Add, Message, Ages
<1>1. q' = Append(q, Add(f)) /\ (Watching(fd)' <=> Watching(fd))
  BY DEF OpenClient, engineVars, Watching, SlotsOf, Active
<1>2. CASE fd = f
  <2>1. Len(q) + 1 \in Adds(fd)' /\ Removes(fd)' = Removes(fd)
    <3>1. About(fd, {"ADD"})' = About(fd, {"ADD"}) \cup
            {k \in {Len(q) + 1} : Add(f).fd = fd /\ Add(f).type \in {"ADD"}}
      BY <1>0, <1>1, AboutAppend
    <3>2. About(fd, {"REMOVE"})' = About(fd, {"REMOVE"}) \cup
            {k \in {Len(q) + 1} : Add(f).fd = fd /\ Add(f).type \in {"REMOVE"}}
      BY <1>0, <1>1, AboutAppend
    <3> QED  BY <1>0, <1>2, <3>1, <3>2 DEF Adds, Removes
  <2>2. \A r \in Removes(fd) : r < Len(q) + 1
    BY AboutRange DEF Removes
  <2> QED  BY <1>2, <2>1, <2>2 DEF InTable
<1>3. CASE fd # f
  <2>1. Adds(fd)' = Adds(fd) /\ Removes(fd)' = Removes(fd)
    BY <1>0, <1>1, <1>3, AppendOther
  <2> QED  BY <1>1, <1>3, <2>1 DEF InTable
<1> QED  BY <1>2, <1>3

\* A session that ended is on its way out, and others are not concerned.
LEMMA InTableAfterClose ==
    ASSUME TypeOK, NEW f \in Fds, CloseFd(f), NEW fd \in Fds
    PROVE  IF q' = q THEN InTable(fd)' <=> InTable(fd)
           ELSE InTable(fd)' <=> (fd # f /\ InTable(fd))
<1>0. Remove(f) \in Message /\ Remove(f).fd = f /\ Remove(f).type = "REMOVE"
  BY DEF Remove, Message, Ages
<1>1. (q' = q \/ q' = Append(q, Remove(f))) /\ (Watching(fd)' <=> Watching(fd))
  BY DEF CloseFd, engineVars, Watching, SlotsOf, Active
<1>2. CASE q' = q
  BY <1>1, <1>2 DEF InTable, Adds, Removes, About
<1>3. CASE q' = Append(q, Remove(f)) /\ q' # q
  <2>1. CASE fd = f
    <3>1. Adds(fd)' = Adds(fd) /\ Len(q) + 1 \in Removes(fd)'
      <4>1. About(fd, {"ADD"})' = About(fd, {"ADD"}) \cup
              {k \in {Len(q) + 1} : Remove(f).fd = fd /\ Remove(f).type \in {"ADD"}}
        BY <1>0, <1>3, AboutAppend
      <4>2. About(fd, {"REMOVE"})' = About(fd, {"REMOVE"}) \cup
              {k \in {Len(q) + 1} : Remove(f).fd = fd /\ Remove(f).type \in {"REMOVE"}}
        BY <1>0, <1>3, AboutAppend
      <4> QED  BY <1>0, <2>1, <4>1, <4>2 DEF Adds, Removes
    <3>2. \A k \in Adds(fd) : ~(Len(q) + 1 < k)
      BY AboutRange DEF Adds
    <3> QED  BY <1>3, <2>1, <3>1, <3>2 DEF InTable
  <2>2. CASE fd # f
    <3>1. Adds(fd)' = Adds(fd) /\ Removes(fd)' = Removes(fd)
      BY <1>0, <1>3, <2>2, AppendOther
    <3> QED  BY <1>1, <1>3, <2>2, <3>1 DEF InTable
  <2> QED  BY <2>1, <2>2
<1> QED  BY <1>1, <1>2, <1>3

LEMMA WatchedInit == Init => OpenSessionWatched
  BY DEF Init, OpenSessionWatched

LEMMA WatchedStep ==
    TypeOK /\ AlternationInv /\ RoomInv /\ OpenSessionWatched /\ [Next]_vars
        => OpenSessionWatched'
<1> SUFFICES ASSUME TypeOK, AlternationInv, RoomInv, OpenSessionWatched, [Next]_vars,
                    leaked' = {}, NEW fd \in Fds, sess'[fd] = "open"
             PROVE  fd \in closes' \/ InTable(fd)'
  BY DEF OpenSessionWatched, InTable, Watching
<1>0. leaked = {}
  BY LeakedStays
<1>1. sess[fd] = "open" => fd \in closes \/ InTable(fd)
  BY <1>0 DEF OpenSessionWatched, InTable, Watching
<1>2. ASSUME NEW f \in Fds, OpenClient(f) PROVE fd \in closes' \/ InTable(fd)'
  BY <1>1, <1>2, InTableAfterOpen DEF OpenClient, TypeOK
<1>3. ASSUME NEW f \in Fds, CloseFd(f) PROVE fd \in closes' \/ InTable(fd)'
  <2>1. fd # f /\ sess[fd] = "open" /\ closes' = closes
    BY <1>3 DEF CloseFd, TypeOK
  <2> QED  BY <1>1, <1>3, <2>1, InTableAfterClose
<1>4. CASE Taken
  <2>1. closes' = closes
    BY <1>4 DEF Taken, AddNewClient, RemoveClient, UpdateClient, Receive
  <2>2. q # <<>> /\ q' = Tail(q) /\ sess' = sess /\ Obeyed(fd)
    BY <1>0, <1>4, HeadIsObeyed DEF Taken
  <2> QED  BY <1>1, <2>1, <2>2, InTableTail
<1>5. CASE ExpireSlot
  <2>1. CASE fd = clients[scan].fd
    BY <1>5, <2>1, ExpiryEffect DEF ExpireSlot
  <2>2. CASE fd # clients[scan].fd
    <3>1. InTable(fd) => InTable(fd)'
      BY <1>5, <2>2, ExpiryEffect DEF InTable, Watching
    <3>2. closes \subseteq closes' /\ sess' = sess
      BY <1>5 DEF ExpireSlot, httpdVars
    <3> QED  BY <1>1, <3>1, <3>2
  <2> QED  BY <2>1, <2>2
<1>6. CASE Uneventful
  BY <1>1, <1>6 DEF Uneventful, InTable, Watching
<1> QED  BY <1>2, <1>3, <1>4, <1>5, <1>6, KindsOfSteps

\* As long as no removal was dropped, no open session escapes the engine, for
\* every size of table and queue.
THEOREM NobodyEscapes == Spec => []OpenSessionWatched
<1>1. Init => OpenSessionWatched
  BY WatchedInit
<1>2. TypeOK /\ AlternationInv /\ RoomInv /\ OpenSessionWatched /\ [Next]_vars => OpenSessionWatched'
  BY WatchedStep
<1> QED  BY <1>1, <1>2, TypeCorrect, Alternation, RoomIsKept, PTL DEF Spec

-----------------------------------------------------------------------------
(* Refinement of the atomic set of watched clients.                        *)

\* The last news of a descriptor says what the whole queue does with it.
LEMMA PendingIsInTable ==
    ASSUME TypeOK, NEW fd \in Fds
    PROVE  Pending(fd) <=> InTable(fd)
<1> DEFINE news == Adds(fd) \cup Removes(fd)
<1>1. /\ news \subseteq Nat /\ Len(q) \in Nat /\ \A x \in news : x <= Len(q)
      /\ Adds(fd) \subseteq Nat /\ Removes(fd) \subseteq Nat
  BY AboutRange DEF Adds, Removes
<1>2. \A k \in news : q[k].type = "ADD" <=> k \in Adds(fd)
  BY DEF Adds, Removes, About
<1>3. CASE news = {}
  BY <1>3 DEF Pending, InTable, Watching
<1>4. CASE news # {}
  <2> DEFINE last == Max(news)
  <2>1. last \in news /\ \A x \in news : x <= last
    <3> HIDE DEF news
    <3> QED  BY <1>1, <1>4, MaxOfBounded
  <2>2. Pending(fd) <=> last \in Adds(fd)
    BY <1>2, <1>4, <2>1 DEF Pending
  <2> HIDE DEF last
  <2>3. last \in Adds(fd) => InTable(fd)
    <3>1. ASSUME last \in Adds(fd), NEW r \in Removes(fd) PROVE r < last
      <4>1. r # last
        BY <3>1, AddsAreNoRemoves
      <4> QED  BY <1>1, <2>1, <3>1, <4>1
    <3> QED  BY <3>1 DEF InTable
  <2>4. InTable(fd) => last \in Adds(fd)
    <3>1. CASE Removes(fd) = {}
      BY <2>1, <3>1
    <3>2. ASSUME NEW k \in Adds(fd), \A r \in Removes(fd) : r < k PROVE last \in Adds(fd)
      <4>1. k <= last /\ \A r \in Removes(fd) : ~(k <= r)
        BY <1>1, <2>1, <3>2
      <4> QED  BY <2>1, <4>1
    <3> QED  BY <3>1, <3>2 DEF InTable
  <2> QED  BY <2>2, <2>3, <2>4
<1> QED  BY <1>3, <1>4

LEMMA PendingMeaning == TypeOK => \A fd \in Fds : Pending(fd) <=> InTable(fd)
  BY PendingIsInTable

\* The refinement mapping.
WatchedNow == IF leaked = {} THEN {fd \in Fds : Pending(fd)} ELSE {}

\* Every step of the gateway is a step of the atomic set, or none.
LEMMA RefinementStep ==
    TypeOK /\ TypeOK' /\ AlternationInv /\ RoomInv /\ [Next]_vars => [Watched!Next]_(Watched!vars)
<1> SUFFICES ASSUME TypeOK, TypeOK', AlternationInv, RoomInv, [Next]_vars
             PROVE  Watched!Next \/ UNCHANGED Watched!vars
  OBVIOUS
<1>a. (\A fd \in Fds : Pending(fd) <=> InTable(fd))'
  BY PendingMeaning, PTL
<1>b. WatchedNow' = IF leaked' = {} THEN {fd \in Fds : InTable(fd)'} ELSE {}
  BY <1>a DEF WatchedNow
<1>c. WatchedNow = IF leaked = {} THEN {fd \in Fds : InTable(fd)} ELSE {}
  BY PendingMeaning DEF WatchedNow
<1>d. leaked \subseteq leaked'
  BY LeakedStays
<1>e. ASSUME leaked = {}, NEW fd \in Fds, InTable(fd) PROVE fd \in Opened
  BY <1>e, InTableIsOpen DEF AlternationInv, InOrder
<1>f. ASSUME Opened' = Opened, leaked' = leaked,
             leaked = {} => \A fd \in Fds : InTable(fd)' <=> InTable(fd)
      PROVE  UNCHANGED Watched!vars
  <2>1. WatchedNow' = WatchedNow
    BY <1>b, <1>c, <1>f
  <2> QED  BY <1>f, <2>1 DEF Watched!vars, WatchedNow
<1>1. ASSUME NEW f \in Fds, OpenClient(f) PROVE Watched!Accept(f)
  <2>1. f \notin Opened /\ Opened' = Opened \cup {f}
    BY <1>1, OpenedAfterOpen
  <2>2. Cardinality(Opened) < MaxClients /\ leaked' = leaked
    BY <1>1 DEF OpenClient, SessionAvailable
  <2>3. \A fd \in Fds : InTable(fd)' <=> (fd = f \/ InTable(fd))
    BY <1>1, InTableAfterOpen
  <2>4. WatchedNow' = IF leaked # {} THEN {} ELSE WatchedNow \cup {f}
    BY <1>b, <1>c, <2>2, <2>3
  <2>5. Watched!Cardinality(Opened) = Cardinality(Opened)
    BY Zenon DEF Cardinality, Watched!Cardinality
  <2> QED  BY <2>1, <2>2, <2>4, <2>5 DEF Watched!Accept, WatchedNow
<1>2. ASSUME NEW f \in Fds, CloseFd(f)
      PROVE  Watched!Leave(f) \/ Watched!LoseRemoval(f) \/ UNCHANGED Watched!vars
  <2>1. Opened' = Opened \ {f} /\ (f \in Opened <=> sess[f] = "closing")
    BY <1>2, OpenedAfterClose
  <2>2. \A fd \in Fds : IF q' = q THEN InTable(fd)' <=> InTable(fd)
                        ELSE InTable(fd)' <=> (fd # f /\ InTable(fd))
    BY <1>2, InTableAfterClose
  <2>3. \/ leaked' = leaked /\ QueueHasRoom /\ q' # q
        \/ leaked' = leaked /\ q' = q /\ sess[f] # "closing"
        \/ leaked' = leaked \cup {f} /\ q' = q /\ sess[f] = "closing"
    <3>1. Append(q, Remove(f)) # q
      <4>1. Remove(f) \in Message
        BY DEF Remove, Message, Ages
      <4>2. Len(Append(q, Remove(f))) = Len(q) + 1 /\ Len(q) \in Nat
        BY <4>1, AppendProperties, LenProperties DEF TypeOK
      <4> QED  BY <4>2
    <3> QED  BY <1>2, <3>1 DEF CloseFd
  <2>4. CASE leaked' = leaked /\ q' # q
    <3>1. CASE f \in Opened
      <4>1. WatchedNow' = WatchedNow \ {f}
        BY <1>b, <1>c, <2>2, <2>4
      <4> QED  BY <2>1, <2>4, <3>1, <4>1 DEF Watched!Leave, WatchedNow
    <3>2. CASE f \notin Opened
      <4>1. leaked = {} => ~InTable(f)
        BY <1>e, <3>2
      <4> QED  BY <1>f, <2>1, <2>2, <2>4, <3>2, <4>1
    <3> QED  BY <3>1, <3>2
  <2>5. CASE leaked' = leaked /\ q' = q /\ sess[f] # "closing"
    BY <1>f, <2>1, <2>2, <2>5
  <2>6. CASE leaked' = leaked \cup {f} /\ q' = q /\ sess[f] = "closing"
    <3>1. WatchedNow' = {}
      BY <1>b, <2>6
    <3> QED  BY <2>1, <2>6, <3>1 DEF Watched!LoseRemoval, WatchedNow
  <2> QED  BY <2>3, <2>4, <2>5, <2>6
<1>3. CASE Taken
  <2>1. leaked' = leaked /\ Opened' = Opened
    BY <1>3 DEF Taken, AddNewClient, RemoveClient, UpdateClient, Receive, httpdVars, Opened
  <2>2. leaked = {} => \A fd \in Fds : InTable(fd)' <=> InTable(fd)
    BY <1>3, HeadIsObeyed, InTableTail DEF Taken
  <2> QED  BY <1>f, <2>1, <2>2
<1>4. CASE ExpireSlot
  <2>0. PICK f \in Fds : f = clients[scan].fd
    BY <1>4, ExpiryEffect
  <2>1. leaked' = leaked /\ Opened' = Opened
    BY <1>4, ExpiryEffect
  <2>2. \A fd \in Fds : fd # f => (InTable(fd)' <=> InTable(fd))
    BY <1>4, <2>0, ExpiryEffect DEF InTable, Watching
  <2>3. InTable(f)' => InTable(f)
    BY <1>4, ExpiryEffect DEF InTable
  <2>4. CASE InTable(f)' <=> InTable(f)
    BY <1>f, <2>1, <2>2, <2>4
  <2>5. CASE leaked = {} /\ InTable(f) /\ ~InTable(f)'
    <3>1. f \in WatchedNow /\ WatchedNow' = WatchedNow \ {f}
      BY <1>b, <1>c, <2>1, <2>2, <2>5
    <3>2. Watched!DeclareDead(f)
      BY <2>1, <3>1 DEF Watched!DeclareDead, WatchedNow
    <3> QED  BY <2>1, <3>2 DEF Watched!Next
  <2>6. CASE leaked # {}
    BY <1>f, <2>1, <2>6
  <2> QED  BY <2>3, <2>4, <2>5, <2>6
<1>5. CASE Uneventful
  BY <1>5, <1>f DEF Uneventful, InTable, Watching
<1> QED  BY <1>1, <1>2, <1>3, <1>4, <1>5, KindsOfSteps DEF Watched!Next

LEMMA RefinementInit == Init => Watched!Init
<1> SUFFICES ASSUME Init PROVE Watched!Init
  OBVIOUS
<1>1. Opened = {} /\ leaked = {}
  BY DEF Init, Opened
<1>2. \A fd \in Fds : ~Pending(fd)
  BY DEF Init, Pending, Adds, Removes, About, SlotsOf, Active
<1> QED  BY <1>1, <1>2 DEF Watched!Init

\* Seen through its queue, the engine is the atomic set of watched clients that
\* main.c takes it for, until it loses a removal.
THEOREM EngineIsASet == Spec => WatchedSpec
<1>1. Init => Watched!Init
  BY RefinementInit
<1>2. TypeOK /\ TypeOK' /\ AlternationInv /\ RoomInv /\ [Next]_vars => [Watched!Next]_(Watched!vars)
  BY RefinementStep
<1> QED  BY <1>1, <1>2, TypeCorrect, Alternation, RoomIsKept, PTL DEF Spec, WatchedSpec, Watched!Spec

-----------------------------------------------------------------------------
(* The engine closes only silent sessions.                                 *)

\* FreshInv for one descriptor.
Updates(fd) == About(fd, {"UPDATE"})
Fresh(fd) ==
    sess[fd] = "open" =>
        /\ Mentions(fd) = {} => \A i \in SlotsOf(clients, fd) : clients[i].age <= quiet[fd]
        /\ \A k \in Updates(fd) :
              (\A j \in Mentions(fd) : j <= k) => q[k].age <= quiet[fd]

\* Nothing about the descriptor changes.
LEMMA FreshFrame ==
    ASSUME NEW fd \in Fds, Fresh(fd), q' = q, clients' = clients,
           sess'[fd] = "open" => sess[fd] = "open" /\ quiet'[fd] = quiet[fd]
    PROVE  Fresh(fd)'
<1>1. /\ Mentions(fd)' = Mentions(fd) /\ Updates(fd)' = Updates(fd)
      /\ SlotsOf(clients, fd)' = SlotsOf(clients, fd)
  BY DEF Mentions, Updates, About, SlotsOf, Active
<1> QED  BY <1>1 DEF Fresh

\* A message about another descriptor joins the queue.
LEMMA FreshAppendOther ==
    ASSUME TypeOK, NEW fd \in Fds, Fresh(fd), NEW m \in Message, m.fd # fd,
           q' = Append(q, m), clients' = clients,
           sess'[fd] = "open" => sess[fd] = "open" /\ quiet'[fd] = quiet[fd]
    PROVE  Fresh(fd)'
<1>1. About(fd, {"ADD", "REMOVE", "UPDATE"})' = About(fd, {"ADD", "REMOVE", "UPDATE"})
  <2>1. About(fd, {"ADD", "REMOVE", "UPDATE"})' = About(fd, {"ADD", "REMOVE", "UPDATE"}) \cup
          {k \in {Len(q) + 1} : m.fd = fd /\ m.type \in {"ADD", "REMOVE", "UPDATE"}}
    BY AboutAppend
  <2> QED  BY <2>1
<1>4. About(fd, {"UPDATE"})' = About(fd, {"UPDATE"})
  <2>1. About(fd, {"UPDATE"})' = About(fd, {"UPDATE"}) \cup
          {k \in {Len(q) + 1} : m.fd = fd /\ m.type \in {"UPDATE"}}
    BY AboutAppend
  <2> QED  BY <2>1
<1>2. \A k \in Updates(fd) : q'[k] = q[k]
  BY AboutRange, AppendProperties DEF Updates, TypeOK
<1>3. SlotsOf(clients, fd)' = SlotsOf(clients, fd)
  BY DEF SlotsOf, Active
<1> QED  BY <1>1, <1>2, <1>3, <1>4 DEF Fresh, Mentions, Updates

\* A message of the descriptor itself joins the queue: it is the last news.
LEMMA FreshAppend ==
    ASSUME TypeOK, NEW fd \in Fds, NEW m \in Message, m.fd = fd, m.age = 0,
           q' = Append(q, m), quiet'[fd] \in Ages
    PROVE  Fresh(fd)'
<1> DEFINE last == Len(q) + 1
<1>1. About(fd, {"ADD", "REMOVE", "UPDATE"})' = About(fd, {"ADD", "REMOVE", "UPDATE"}) \cup
        {k \in {last} : m.fd = fd /\ m.type \in {"ADD", "REMOVE", "UPDATE"}}
  BY AboutAppend
<1>2. About(fd, {"UPDATE"})' = About(fd, {"UPDATE"}) \cup
        {k \in {last} : m.fd = fd /\ m.type \in {"UPDATE"}}
  BY AboutAppend
<1>3. last \in Mentions(fd)'
  BY <1>1 DEF Mentions, Message
<1>4. Updates(fd) \subseteq 1..Len(q) /\ Len(q) \in Nat
  BY AboutRange DEF Updates
<1>5. q'[last] = m
  BY AppendProperties DEF TypeOK
<1>6. \A k \in Updates(fd)' : (\A j \in Mentions(fd)' : j <= k) => k = last
  BY <1>2, <1>3, <1>4 DEF Updates
<1> QED  BY <1>3, <1>5, <1>6 DEF Fresh, Ages

\* The head is taken: what is left to show is how the table looks when it was
\* the only news.
LEMMA FreshTail ==
    ASSUME TypeOK, NEW fd \in Fds, Fresh(fd), q # <<>>, q' = Tail(q), sess' = sess, quiet' = quiet,
           sess[fd] = "open" /\ Mentions(fd) \subseteq {1} =>
               \A i \in SlotsOf(clients, fd)' : clients'[i].age <= quiet[fd]
    PROVE  Fresh(fd)'
<1>1. /\ Mentions(fd)' = {k \in 1..(Len(q) - 1) : k + 1 \in Mentions(fd)}
      /\ Updates(fd)' = {k \in 1..(Len(q) - 1) : k + 1 \in Updates(fd)}
  BY AboutTail DEF Mentions, Updates
<1>2. Mentions(fd) \subseteq 1..Len(q) /\ Updates(fd) \subseteq 1..Len(q) /\ Len(q) \in Nat
  BY AboutRange DEF Mentions, Updates
<1>3. \A j \in Mentions(fd) : j = 1 \/ j - 1 \in Mentions(fd)'
  BY <1>1, <1>2
<1>4. Mentions(fd)' = {} => Mentions(fd) \subseteq {1}
  BY <1>3
<1>5. ASSUME sess[fd] = "open", NEW k \in Updates(fd)', \A j \in Mentions(fd)' : j <= k
      PROVE  q'[k].age <= quiet[fd]
  <2>1. k \in 1..(Len(q) - 1) /\ k + 1 \in Updates(fd)
    BY <1>1
  <2>2. \A j \in Mentions(fd) : j <= k + 1
    BY <1>2, <1>3, <1>5, <2>1
  <2>3. q'[k] = q[k + 1]
    BY <2>1, QueueHead
  <2> QED  BY <1>5, <2>1, <2>2, <2>3 DEF Fresh
<1> QED  BY <1>4, <1>5 DEF Fresh

LEMMA FreshStep ==
    TypeOK /\ TypeOK' /\ AlternationInv /\ FreshInv /\ [Next]_vars => FreshInv'
<1> SUFFICES ASSUME TypeOK, TypeOK', AlternationInv, FreshInv, [Next]_vars,
                    NEW fd \in Fds, fd \notin leaked'
             PROVE  Fresh(fd)'
  BY DEF FreshInv, Fresh, Updates
<1>0. Fresh(fd) /\ InOrder(fd)
  BY LeakedStays DEF FreshInv, Fresh, Updates, AlternationInv, InOrder
<1>a. clients \in Table /\ quiet' \in [Fds -> Ages] /\ quiet \in [Fds -> Ages] /\ sess \in [Fds -> SessionState]
  BY DEF TypeOK, Table
<1> USE DEF engineVars, httpdVars
<1>1. ASSUME NEW f \in Fds, OpenClient(f) PROVE Fresh(fd)'
  <2>1. Add(f) \in Message /\ Add(f).fd = f /\ Add(f).age = 0
    BY DEF Add, Message, Ages
  <2>2. CASE f = fd
    BY <1>1, <1>a, <2>1, <2>2, FreshAppend DEF OpenClient
  <2>3. CASE f # fd
    BY <1>0, <1>1, <1>a, <2>1, <2>3, FreshAppendOther DEF OpenClient
  <2> QED  BY <2>2, <2>3
<1>2. ASSUME NEW f \in Fds, RefuseClient(f) \/ PeerCloses(f) \/ TriggeredClose(f) PROVE Fresh(fd)'
  <2>1. q' = q /\ clients' = clients /\ quiet' = quiet
    BY <1>2 DEF RefuseClient, PeerCloses, TriggeredClose
  <2>2. sess'[fd] = "open" => sess[fd] = "open"
    BY <1>2, <1>a DEF RefuseClient, PeerCloses, TriggeredClose
  <2> QED  BY <1>0, <2>1, <2>2, FreshFrame
<1>3. ASSUME NEW f \in Fds, Pong(f) PROVE Fresh(fd)'
  <2>1. Update(f) \in Message /\ Update(f).fd = f /\ Update(f).age = 0
    BY DEF Update, Message, Ages
  <2>2. CASE f = fd
    BY <1>3, <1>a, <2>1, <2>2, FreshAppend DEF Pong
  <2>3. CASE f # fd
    BY <1>0, <1>3, <1>a, <2>1, <2>3, FreshAppendOther DEF Pong
  <2> QED  BY <2>2, <2>3
<1>4. ASSUME NEW f \in Fds, PongDropped(f) PROVE Fresh(fd)'
  <2>1. q' = q /\ clients' = clients
    BY <1>4 DEF PongDropped
  <2>2. sess'[fd] = "open" => sess[fd] = "open" /\ quiet'[fd] = quiet[fd]
    BY <1>4, <1>a DEF PongDropped
  <2> QED  BY <1>0, <2>1, <2>2, FreshFrame
<1>5. ASSUME NEW f \in Fds, CloseFd(f) PROVE Fresh(fd)'
  <2>1. Remove(f) \in Message /\ Remove(f).fd = f
    BY DEF Remove, Message, Ages
  <2>2. clients' = clients /\ (q' = q \/ q' = Append(q, Remove(f)))
    BY <1>5 DEF CloseFd
  <2>3. sess'[fd] = "open" => f # fd /\ sess[fd] = "open" /\ quiet'[fd] = quiet[fd]
    BY <1>5, <1>a DEF CloseFd
  <2>4. CASE f = fd
    BY <2>3, <2>4 DEF Fresh
  <2>5. CASE f # fd
    BY <1>0, <2>1, <2>2, <2>3, <2>5, FreshFrame, FreshAppendOther
  <2> QED  BY <2>4, <2>5
<1>b. ASSUME NEW type \in {"ADD", "REMOVE", "UPDATE"}, NEW table, Receive(type, table)
      PROVE  /\ q # <<>> /\ q' = Tail(q) /\ clients' = table /\ sess' = sess /\ quiet' = quiet
             /\ Head(q) = q[1] /\ Head(q).fd \in Fds /\ Head(q).age \in Ages
             /\ Head(q).fd = fd => 1 \in About(fd, {type}) /\ 1 \in Mentions(fd)
             /\ SlotsOf(clients, fd)' = SlotsOf(table, fd)
  <2>1. q # <<>> /\ Head(q).type = type
    BY <1>b DEF Receive
  <2>2. Head(q) = q[1] /\ Head(q) \in Message /\ 1 \in DOMAIN q
    BY <2>1, QueueHead, LenProperties DEF TypeOK
  <2> QED  BY <1>b, <2>1, <2>2 DEF Receive, Message, Mentions, About, SlotsOf, Active
<1>c. ASSUME Head(q).fd # fd, q # <<>>, Head(q) = q[1]
      PROVE  Mentions(fd) \subseteq {1} => Mentions(fd) = {}
  BY <1>c DEF Mentions, About
<1>6. CASE AddNewClient
  <2> DEFINE f == Head(q).fd
  <2>1. Receive("ADD", AddFirst(clients, f))
    BY <1>6 DEF AddNewClient
  <2>2. CASE f = fd
    <3>1. SlotsOf(clients, fd) = {}
      <4>1. 1 \in Adds(fd)
        BY <1>b, <2>1, <2>2 DEF Adds
      <4> QED  BY <1>0, <4>1, AboutRange DEF InOrder, Alternates, Watching, Removes
    <3>2. \A i \in SlotsOf(clients, fd)' : clients'[i].age = 0
      <4>1. CASE clients' = clients
        BY <3>1, <4>1 DEF SlotsOf, Active
      <4>2. ASSUME NEW m \in Slots \ Active(clients), clients' = [clients EXCEPT ![m] = [fd |-> fd, age |-> 0]]
            PROVE  \A i \in SlotsOf(clients, fd)' : clients'[i].age = 0
        BY <1>a, <3>1, <4>2 DEF SlotsOf, Active, Table
      <4> QED  BY <1>a, <1>b, <2>1, <2>2, <4>1, <4>2, AddFirstProperties
    <3> QED  BY <1>0, <1>a, <1>b, <2>1, <3>2, FreshTail DEF Ages
  <2>3. CASE f # fd
    <3>1. \A i \in SlotsOf(clients, fd)' : i \in SlotsOf(clients, fd) /\ clients'[i] = clients[i]
      BY <1>a, <1>b, <2>1, <2>3, AddFirstProperties DEF SlotsOf, Active, Table
    <3> QED  BY <1>0, <1>b, <1>c, <2>1, <2>3, <3>1, FreshTail DEF Fresh
  <2> QED  BY <2>2, <2>3
<1>7. CASE RemoveClient
  <2> DEFINE f == Head(q).fd
  <2>1. Receive("REMOVE", RemoveFirst(clients, f))
    BY <1>7 DEF RemoveClient
  <2>2. CASE f = fd
    <3>1. SlotsOf(clients, fd)' = {}
      BY <1>0, <1>a, <1>b, <2>1, <2>2, RemoveFirstProperties DEF InOrder
    <3> QED  BY <1>0, <1>b, <2>1, <3>1, FreshTail
  <2>3. CASE f # fd
    <3>1. \A i \in SlotsOf(clients, fd)' : i \in SlotsOf(clients, fd) /\ clients'[i] = clients[i]
      BY <1>a, <1>b, <2>1, <2>3, RemoveFirstProperties DEF SlotsOf, Active, Table
    <3> QED  BY <1>0, <1>b, <1>c, <2>1, <2>3, <3>1, FreshTail DEF Fresh
  <2> QED  BY <2>2, <2>3
<1>8. CASE UpdateClient
  <2> DEFINE f == Head(q).fd
             age == Head(q).age
  <2>1. Receive("UPDATE", UpdateFirst(clients, f, age))
    BY <1>8 DEF UpdateClient
  <2>2. CASE f = fd
    <3>1. 1 \in Updates(fd) /\ 1 \in Mentions(fd) /\ q[1].age = age
      BY <1>b, <2>1, <2>2 DEF Updates
    <3>2. \A i \in SlotsOf(clients, fd)' : clients'[i].age = age
      <4>1. CASE clients' = clients /\ SlotsOf(clients, fd) = {}
        BY <4>1 DEF SlotsOf, Active
      <4>2. ASSUME NEW m \in SlotsOf(clients, fd), clients' = [clients EXCEPT ![m] = [fd |-> fd, age |-> age]]
            PROVE  \A i \in SlotsOf(clients, fd)' : clients'[i].age = age
        <5>1. \A i \in Slots : i # m => clients'[i] = clients[i]
          BY <1>a, <4>2 DEF Table
        <5>2. \A i \in SlotsOf(clients, fd)' : i = m
          BY <1>0, <5>1 DEF InOrder, SlotsOf, Active
        <5>3. m \in Slots
          BY DEF SlotsOf, Active
        <5> QED  BY <1>a, <4>2, <5>2, <5>3 DEF Table
      <4> QED  BY <1>a, <1>b, <2>1, <2>2, <4>1, <4>2, UpdateFirstProperties
    <3>3. sess[fd] = "open" /\ Mentions(fd) \subseteq {1} => age <= quiet[fd]
      BY <1>0, <3>1 DEF Fresh
    <3> QED  BY <1>0, <1>b, <2>1, <3>2, <3>3, FreshTail
  <2>3. CASE f # fd
    <3>1. \A i \in SlotsOf(clients, fd)' : i \in SlotsOf(clients, fd) /\ clients'[i] = clients[i]
      <4>1. CASE clients' = clients
        BY <4>1 DEF SlotsOf, Active
      <4>2. ASSUME NEW m \in SlotsOf(clients, f), clients' = [clients EXCEPT ![m] = [fd |-> f, age |-> age]]
            PROVE  \A i \in SlotsOf(clients, fd)' : i \in SlotsOf(clients, fd) /\ clients'[i] = clients[i]
        <5>1. m \in Slots /\ \A i \in Slots : clients'[i] = IF i = m THEN [fd |-> f, age |-> age] ELSE clients[i]
          BY <1>a, <4>2 DEF Table, SlotsOf, Active
        <5> QED  BY <2>3, <5>1 DEF SlotsOf, Active
      <4> QED  BY <1>a, <1>b, <2>1, <4>1, <4>2, UpdateFirstProperties
    <3> QED  BY <1>0, <1>b, <1>c, <2>1, <2>3, <3>1, FreshTail DEF Fresh
  <2> QED  BY <2>2, <2>3
<1>9. CASE Timeout \/ SkipSlot \/ PingSlot
  <2>1. q' = q /\ clients' = clients /\ quiet' = quiet /\ sess' = sess
    BY <1>9 DEF Timeout, SkipSlot, PingSlot, NextSlot
  <2> QED  BY <1>0, <2>1, FreshFrame
<1>10. CASE ExpireSlot
  <2>1. \A i \in SlotsOf(clients, fd)' : i \in SlotsOf(clients, fd) /\ clients'[i] = clients[i]
    BY <1>10, <1>a, ExpiryEffect, RemoveFirstProperties DEF SlotsOf, Active
  <2>2. Mentions(fd)' = Mentions(fd) /\ Updates(fd)' = Updates(fd) /\ q' = q /\ sess' = sess /\ quiet' = quiet
    BY <1>10 DEF ExpireSlot, Mentions, Updates, About
  <2> QED  BY <1>0, <2>1, <2>2 DEF Fresh
<1>11. CASE Tick
  <2>0. \A k \in DOMAIN q : q[k] \in Message
    BY LenProperties DEF TypeOK
  <2>1. /\ DOMAIN q' = DOMAIN q /\ sess' = sess
        /\ \A k \in DOMAIN q : q'[k] = IF q[k].type = "UPDATE" THEN [q[k] EXCEPT !.age = Older(@)] ELSE q[k]
    BY <1>11 DEF Tick
  <2>2. \A k \in DOMAIN q : q'[k].fd = q[k].fd /\ q'[k].type = q[k].type
    BY <2>0, <2>1 DEF Message
  <2>3. Mentions(fd)' = Mentions(fd) /\ Updates(fd)' = Updates(fd)
    BY <2>1, <2>2 DEF Mentions, Updates, About
  <2>4. \A k \in Updates(fd) : q[k].age \in Ages /\ q'[k].age = Older(q[k].age)
    BY <2>0, <2>1 DEF Updates, About, Message
  <2>5. \A i \in SlotsOf(clients, fd)' :
            i \in SlotsOf(clients, fd) /\ clients[i].age \in Ages /\ clients'[i].age = Older(clients[i].age)
    BY <1>11, <1>a DEF Tick, Table, Entry, SlotsOf, Active
  <2>6. sess[fd] = "open" => quiet'[fd] = Older(quiet[fd])
    BY <1>11 DEF Tick, Opened
  <2>7. \A x, y \in Ages : x <= y => Older(x) <= Older(y)
    BY DEF Ages, Older
  <2> QED  BY <1>0, <1>a, <2>1, <2>3, <2>4, <2>5, <2>6, <2>7 DEF Fresh
<1>12. CASE UNCHANGED vars
  BY <1>0, <1>12, FreshFrame DEF vars
<1> QED
  BY <1>1, <1>2, <1>3, <1>4, <1>5, <1>6, <1>7, <1>8, <1>9, <1>10, <1>11, <1>12
     DEF Next, Httpd, Engine

\* Nothing in the table or in the queue makes an open session look more silent
\* than it is.
THEOREM NewsIsFresh == Spec => []FreshInv
<1>1. Init => FreshInv
  BY DEF Init, FreshInv
<1>2. TypeOK /\ TypeOK' /\ AlternationInv /\ FreshInv /\ [Next]_vars => FreshInv'
  BY FreshStep
<1> QED  BY <1>1, <1>2, TypeCorrect, Alternation, PTL DEF Spec

\* For every setting of the periods, the engine asks for the closing of an open
\* session only after NotAliveAfter of silence or with news of it on the way.
THEOREM OnlySilentAreClosed == Spec => ExpiryJustified
<1>1. TypeOK /\ FreshInv /\ [Next]_vars
        => [\A fd \in (closes' \ closes) \ leaked : JustifiedClose(fd)]_vars
  <2> SUFFICES ASSUME TypeOK, FreshInv, Next, NEW fd \in (closes' \ closes) \ leaked
               PROVE  JustifiedClose(fd)
    OBVIOUS
  <2>1. ExpireSlot
    BY DEF Next, Httpd, Engine, Tick, OpenClient, RefuseClient, Pong, PongDropped,
           PeerCloses, TriggeredClose, CloseFd, AddNewClient, RemoveClient, UpdateClient,
           Receive, Timeout, SkipSlot, PingSlot, httpdVars, engineVars
  <2>2. fd = clients[scan].fd /\ fd \in Fds /\ scan \in SlotsOf(clients, fd)
        /\ clients[scan].age = NotAliveAfter
    BY <2>1 DEF ExpireSlot, TypeOK, Entry, SlotsOf, Active
  <2>3. sess[fd] = "open" /\ Mentions(fd) = {} => NotAliveAfter <= quiet[fd]
    BY <2>2 DEF FreshInv
  <2> QED  BY <2>2, <2>3 DEF JustifiedClose, TypeOK, Ages
<1> QED  BY <1>1, TypeCorrect, NewsIsFresh, PTL DEF Spec, ExpiryJustified

=============================================================================
