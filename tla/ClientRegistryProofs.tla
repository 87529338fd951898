------------------------ MODULE ClientRegistryProofs ------------------------
(***************************************************************************)
(* Theorems about the client arrays, for every number of descriptors and   *)
(* entries and every choice of devices.                                    *)
(***************************************************************************)
EXTENDS ClientRegistry, TLAPS, FiniteSetTheorems, WellFoundedInduction

USE RegistryAssumption

-----------------------------------------------------------------------------
(* The clearing loops.                                                     *)

\* A set of naturals with an element has a least one.
LEMMA LeastNatural ==
    ASSUME NEW S, S \subseteq Nat, S # {}
    PROVE  \E x \in S : \A y \in S : x <= y
<1>1. PICK x \in S : \A y \in S : <<y, x>> \notin OpToRel(<, Nat)
  BY NatLessThanWellFounded, WFMin, Zenon
<1>2. \A y \in S : x <= y
  <2>1. TAKE y \in S
  <2>2. ~(y < x)
    BY <1>1 DEF OpToRel
  <2> QED  BY <2>2
<1> QED  BY <1>2

\* The ranks are numbers.
LEMMA Ranks ==
    /\ \A d \in DOMAIN CloseFnRank : CloseFnRank[d] \in Nat
    /\ \A d \in DOMAIN CloseFrameRank : CloseFrameRank[d] \in Nat
    /\ \A d \in DOMAIN WatchRank : WatchRank[d] \in Nat
  BY DEF CloseFnRank, CloseFrameRank, WatchRank

\* A loop that looks at some cells comes to one of them first.
LEMMA FirstCellIsOne ==
    ASSUME NEW cells, cells \subseteq Cells, cells # {},
           NEW rank, \A c \in cells : rank[c[1]] \in Nat
    PROVE  FirstCell(cells, rank) \in cells
<1>0. \A c \in cells : c[2] \in Nat
  BY DEF Cells, Indices
<1>1. PICK a \in cells : \A e \in cells : a[2] <= e[2]
  <2> DEFINE columns == {c[2] : c \in cells}
  <2>1. columns \subseteq Nat /\ columns # {}
    BY <1>0
  <2>2. PICK x \in columns : \A y \in columns : x <= y
    <3> HIDE DEF columns
    <3> QED  BY <2>1, LeastNatural
  <2> QED  BY <2>2
<1>2. PICK b \in cells : b[2] = a[2] /\ \A e \in cells : e[2] = a[2] => rank[b[1]] <= rank[e[1]]
  <2> DEFINE ranks == {rank[c[1]] : c \in {e \in cells : e[2] = a[2]}}
  <2>1. ranks \subseteq Nat /\ ranks # {}
    OBVIOUS
  <2>2. PICK x \in ranks : \A y \in ranks : x <= y
    <3> HIDE DEF ranks
    <3> QED  BY <2>1, LeastNatural
  <2> QED  BY <2>2
<1>3. \A e \in cells : b[2] < e[2] \/ (b[2] = e[2] /\ rank[b[1]] <= rank[e[1]])
  BY <1>0, <1>1, <1>2
<1> QED  BY <1>3 DEF FirstCell

Slot == [Devices -> [Indices -> Fds \cup {NoFd}]]

\* A clearing loop resets one of its cells, and no other cell.
LEMMA ClearFirstProperties ==
    ASSUME slot \in Slot, NEW cells, cells \subseteq Cells,
           NEW rank, \A c \in cells : rank[c[1]] \in Nat
    PROVE  /\ ClearFirst(cells, rank) \in Slot
           /\ \A d \in Devices, i \in Indices :
                 /\ ClearFirst(cells, rank)[d][i] \in {slot[d][i], NoFd}
                 /\ <<d, i>> \notin cells => ClearFirst(cells, rank)[d][i] = slot[d][i]
                 /\ (\A c, e \in cells : c = e) /\ <<d, i>> \in cells
                       => ClearFirst(cells, rank)[d][i] = NoFd
<1>1. CASE cells = {}
  BY <1>1 DEF ClearFirst
<1>2. CASE cells # {}
  <2> DEFINE f == FirstCell(cells, rank)
  <2>1. f \in cells
    BY <1>2, FirstCellIsOne
  <2>2. f = <<f[1], f[2]>> /\ f[1] \in Devices /\ f[2] \in Indices
    BY <2>1 DEF Cells
  <2>3. ClearFirst(cells, rank) = [slot EXCEPT ![f[1]][f[2]] = NoFd]
    BY <1>2 DEF ClearFirst
  <2> HIDE DEF f
  <2>4. ClearFirst(cells, rank) \in Slot
    BY <2>2, <2>3 DEF Slot
  <2>5. \A d \in Devices, i \in Indices :
           ClearFirst(cells, rank)[d][i] = IF d = f[1] /\ i = f[2] THEN NoFd ELSE slot[d][i]
    BY <2>2, <2>3 DEF Slot
  <2> QED  BY <2>1, <2>2, <2>4, <2>5
<1> QED  BY <1>1, <1>2

\* What CloseFd and CloseFrame do to the entries.
LEMMA ClearOf ==
    ASSUME slot \in Slot, NEW fd \in Fds, NEW cells, cells \subseteq CellsOf(fd),
           NEW rank, \A c \in cells : rank[c[1]] \in Nat,
           slot' = ClearFirst(cells, rank)
    PROVE  /\ slot' \in Slot
           /\ \A d \in Devices, i \in Indices :
                 /\ slot'[d][i] \in {slot[d][i], NoFd}
                 /\ slot[d][i] # fd => slot'[d][i] = slot[d][i]
                 /\ (\A c, e \in cells : c = e) /\ <<d, i>> \in cells => slot'[d][i] = NoFd
<1>1. cells \subseteq Cells
  BY DEF CellsOf
<1>2. \A d \in Devices, i \in Indices : slot[d][i] # fd => <<d, i>> \notin cells
  BY DEF CellsOf
<1> QED  BY <1>1, <1>2, ClearFirstProperties

\* CloseFd clears the cells of the session, CloseFrame those of some devices.
LEMMA CloseFdClears ==
    ASSUME slot \in Slot, NEW fd \in Fds, CloseFd(fd)
    PROVE  /\ slot' \in Slot
           /\ \A d \in Devices, i \in Indices :
                 /\ slot'[d][i] \in {slot[d][i], NoFd}
                 /\ slot[d][i] # fd => slot'[d][i] = slot[d][i]
                 /\ (\A c, e \in CellsOf(fd) : c = e) /\ <<d, i>> \in CellsOf(fd) => slot'[d][i] = NoFd
<1>1. \A c \in CellsOf(fd) : CloseFnRank[c[1]] \in Nat
  BY Ranks DEF CellsOf, Cells
<1> QED  BY <1>1, ClearOf DEF CloseFd

LEMMA CloseFrameClears ==
    ASSUME slot \in Slot, NEW fd \in Fds, CloseFrame(fd)
    PROVE  /\ slot' \in Slot
           /\ \A d \in Devices, i \in Indices :
                 /\ slot'[d][i] \in {slot[d][i], NoFd}
                 /\ slot[d][i] # fd => slot'[d][i] = slot[d][i]
<1>1. PICK cells, rank : /\ cells \subseteq CellsOf(fd)
                         /\ \A c \in cells : rank[c[1]] \in Nat
                         /\ slot' = ClearFirst(cells, rank)
  <2> DEFINE own == {c \in CellsOf(fd) : c[1] \in DOMAIN CloseFrameRank}
  <2>1. \A c \in own : CloseFrameRank[c[1]] \in Nat
    BY Ranks
  <2>2. own \subseteq CellsOf(fd) /\ slot' = ClearFirst(own, CloseFrameRank)
    BY DEF CloseFrame
  <2> HIDE DEF own
  <2> QED  BY <2>1, <2>2
<1> QED  BY <1>1, ClearOf

-----------------------------------------------------------------------------
(* The broadcasts.                                                           *)

Casts == [next : 0..(Size + 1), to : Fds \cup {NoFd}, audience : SUBSET Fds, heard : SUBSET Fds]

\* A broadcast that holds a descriptor is at an entry.
Reading == \A d \in Sources : cast[d].to # NoFd => cast[d].next \in Indices

\* Who is there when a broadcast starts.
Present(d) == {fd \in Fds : sess[fd] = "open" /\ \E i \in Indices : slot[d][i] = fd}

\* A broadcast starts before the first entry.
LEMMA StartEffect ==
    ASSUME TypeOK, NEW d \in Sources, StartBroadcast(d)
    PROVE  /\ cast' \in [Sources -> Casts]
           /\ \A e \in Sources \ {d} : cast'[e] = cast[e]
           /\ cast'[d].next = 1 /\ cast'[d].to = NoFd
           /\ cast'[d].audience = Present(d) /\ cast'[d].heard = {}
<1>1. cast \in [Sources -> Casts]
  BY DEF TypeOK, Casts
<1>2. cast' = [cast EXCEPT ![d].next = 1, ![d].audience = Present(d)]
  BY DEF StartBroadcast, Present
<1>3. Present(d) \in SUBSET Fds /\ cast[d].to = NoFd /\ cast[d].heard = {}
      /\ 1 \in 0..(Size + 1)
  BY DEF Present, StartBroadcast, Idle
<1> QED  BY <1>1, <1>2, <1>3 DEF Casts

\* What is read is the entry the broadcast is at; an empty one is passed over.
LEMMA ReadEffect ==
    ASSUME TypeOK, NEW d \in Sources, ReadEntry(d)
    PROVE  /\ cast' \in [Sources -> Casts]
           /\ \A e \in Sources \ {d} : cast'[e] = cast[e]
           /\ cast[d].next \in Indices
           /\ cast'[d].to = slot[d][cast[d].next]
           /\ cast'[d].next = IF slot[d][cast[d].next] = NoFd
                              THEN cast[d].next + 1 ELSE cast[d].next
           /\ cast'[d].audience = cast[d].audience
           /\ cast'[d].heard = cast[d].heard
<1> DEFINE fd == slot[d][cast[d].next]
           n == IF fd = NoFd THEN cast[d].next + 1 ELSE cast[d].next
<1>1. cast \in [Sources -> Casts]
  BY DEF TypeOK, Casts
<1>2. d \in Devices /\ cast[d].next \in Indices
  BY DEF ReadEntry
<1>3. fd \in Fds \cup {NoFd}
  BY <1>2 DEF TypeOK
<1>4. n \in 0..(Size + 1)
  BY <1>2 DEF Indices
<1>5. cast' = [cast EXCEPT ![d].to = fd, ![d].next = n]
  BY <1>1, <1>2 DEF ReadEntry
<1>6. /\ cast' \in [Sources -> Casts]
      /\ \A e \in Sources \ {d} : cast'[e] = cast[e]
      /\ cast'[d].to = fd /\ cast'[d].next = n
      /\ cast'[d].audience = cast[d].audience /\ cast'[d].heard = cast[d].heard
  <2> HIDE DEF fd, n
  <2> QED  BY <1>1, <1>3, <1>4, <1>5 DEF Casts
<1> QED  BY <1>2, <1>6

\* A frame reaches the session behind the descriptor, if there is one.
LEMMA SendEffect ==
    ASSUME TypeOK, Reading, NEW d \in Sources, SendFrame(d)
    PROVE  /\ cast' \in [Sources -> Casts]
           /\ \A e \in Sources \ {d} : cast'[e] = cast[e]
           /\ cast[d].to \in Fds /\ cast[d].next \in Indices
           /\ cast'[d].to = NoFd /\ cast'[d].next = cast[d].next + 1
           /\ cast'[d].audience = cast[d].audience
           /\ cast'[d].heard = IF sess[cast[d].to] = "free" THEN cast[d].heard
                               ELSE cast[d].heard \cup {cast[d].to}
<1> DEFINE h == IF sess[cast[d].to] = "free" THEN cast[d].heard
                ELSE cast[d].heard \cup {cast[d].to}
           n == cast[d].next + 1
<1>1. cast \in [Sources -> Casts]
  BY DEF TypeOK, Casts
<1>2. cast[d].to # NoFd /\ cast[d].next \in Indices
  BY DEF SendFrame, Reading
<1>3. cast[d].to \in Fds /\ cast[d].heard \in SUBSET Fds
  BY <1>1, <1>2 DEF Casts
<1>4. h \in SUBSET Fds /\ n \in 0..(Size + 1)
  BY <1>2, <1>3 DEF Indices
<1>5. cast' = [cast EXCEPT ![d].to = NoFd, ![d].next = n, ![d].heard = h]
  BY <1>1 DEF SendFrame
<1>6. /\ cast' \in [Sources -> Casts]
      /\ \A e \in Sources \ {d} : cast'[e] = cast[e]
      /\ cast'[d].to = NoFd /\ cast'[d].next = n
      /\ cast'[d].audience = cast[d].audience /\ cast'[d].heard = h
  <2> HIDE DEF h, n
  <2> QED  BY <1>1, <1>4, <1>5 DEF Casts
<1> QED  BY <1>2, <1>3, <1>6

\* What a broadcast did is forgotten when it ends.
LEMMA EndEffect ==
    ASSUME TypeOK, NEW d \in Sources, EndBroadcast(d)
    PROVE  /\ cast'[d] = Idle
           /\ \A e \in Sources \ {d} : cast'[e] = cast[e]
<1>1. cast \in [Sources -> Casts]
  BY DEF TypeOK, Casts
<1> QED  BY <1>1 DEF EndBroadcast

\* A step of one broadcast leaves the others as they are.
LEMMA OthersGoOn ==
    ASSUME TypeOK, Reading, NEW d \in Sources, NEW e \in Sources, e # d,
           StartBroadcast(e) \/ ReadEntry(e) \/ SendFrame(e) \/ EndBroadcast(e)
    PROVE  cast'[d] = cast[d]
<1>1. d \in Sources \ {e}
  OBVIOUS
<1>2. CASE StartBroadcast(e)
  BY <1>1, <1>2, StartEffect
<1>3. CASE ReadEntry(e)
  BY <1>1, <1>3, ReadEffect
<1>4. CASE SendFrame(e)
  BY <1>1, <1>4, SendEffect
<1>5. CASE EndBroadcast(e)
  BY <1>1, <1>5, EndEffect
<1> QED  BY <1>2, <1>3, <1>4, <1>5

\* The end of a session is the end of its part in the broadcasts.
LEMMA CloseFdEffect ==
    ASSUME TypeOK, NEW fd \in Fds, CloseFd(fd)
    PROVE  /\ cast' \in [Sources -> Casts]
           /\ \A d \in Sources :
                 /\ cast'[d].next = cast[d].next /\ cast'[d].to = cast[d].to
                 /\ cast'[d].audience = cast[d].audience \ {fd}
                 /\ cast'[d].heard = cast[d].heard \ {fd}
<1>1. cast \in [Sources -> Casts]
  BY DEF TypeOK, Casts
<1>2. cast' = [d \in Sources |->
                  [cast[d] EXCEPT !.audience = @ \ {fd}, !.heard = @ \ {fd}]]
  BY DEF CloseFd
<1>3. \A d \in Sources :
        /\ cast'[d].next = cast[d].next /\ cast'[d].to = cast[d].to
        /\ cast'[d].audience = cast[d].audience \ {fd}
        /\ cast'[d].heard = cast[d].heard \ {fd}
        /\ cast'[d] \in Casts
  BY <1>1, <1>2 DEF Casts
<1>4. cast' \in [Sources -> Casts]
  BY <1>2, <1>3
<1> QED  BY <1>3, <1>4

-----------------------------------------------------------------------------
(* Types.                                                                    *)

\* A request takes a free entry or finds none.
LEMMA RequestEffect ==
    ASSUME slot \in Slot, NEW fd \in Fds, NEW d \in Uris, RequestUri(fd, d)
    PROVE  \/ \E i \in Indices : slot[d][i] = NoFd /\ slot' = [slot EXCEPT ![d][i] = fd]
           \/ (\A i \in Indices : slot[d][i] # NoFd) /\ slot' = slot
  BY DEF RequestUri

LEMMA TypeInit == Init => TypeOK /\ Reading
<1> SUFFICES ASSUME Init PROVE TypeOK /\ Reading
  OBVIOUS
<1>1. Idle \in Casts /\ Idle.to = NoFd
  BY DEF Idle, Casts
<1>2. slot \in [Devices -> [Indices -> Fds \cup {NoFd}]]
  BY DEF Init
<1>3. cast \in [Sources -> Casts] /\ Reading
  BY <1>1 DEF Init, Reading
<1>4. wants \in [Fds -> SUBSET Uris] /\ sess \in [Fds -> {"free", "open", "closing"}]
  BY DEF Init
<1> QED  BY <1>2, <1>3, <1>4 DEF Init, TypeOK, Casts

\* Every step keeps the variables in their domains, and a broadcast that holds
\* a descriptor at its entry.
LEMMA TypeStep == TypeOK /\ Reading /\ [Next]_vars => TypeOK' /\ Reading'
<1> SUFFICES ASSUME TypeOK, Reading, [Next]_vars PROVE TypeOK' /\ Reading'
  OBVIOUS
<1>0. slot \in Slot /\ cast \in [Sources -> Casts]
  BY DEF TypeOK, Slot, Casts
<1>1. ASSUME NEW fd \in Fds, OpenSession(fd) PROVE TypeOK' /\ Reading'
  BY <1>1 DEF OpenSession, TypeOK, Reading
<1>2. ASSUME NEW fd \in Fds, NEW d \in Uris, RequestUri(fd, d) PROVE TypeOK' /\ Reading'
  <2>1. slot' \in Slot
    <3>1. CASE slot' = slot
      BY <1>0, <3>1
    <3>2. CASE \E i \in Indices : slot[d][i] = NoFd /\ slot' = [slot EXCEPT ![d][i] = fd]
      BY <1>0, <3>2 DEF Slot, Uris
    <3> QED  BY <1>0, <1>2, <3>1, <3>2, RequestEffect
  <2>2. wants' \in [Fds -> SUBSET Uris] /\ greedy' \subseteq Fds
    BY <1>2 DEF RequestUri, TypeOK
  <2> QED  BY <1>2, <2>1, <2>2 DEF RequestUri, Slot, TypeOK, Reading
<1>3. ASSUME NEW fd \in Fds, CloseFrame(fd) PROVE TypeOK' /\ Reading'
  <2>1. slot' \in Slot
    BY <1>0, <1>3, CloseFrameClears
  <2> QED  BY <1>3, <2>1 DEF CloseFrame, Slot, TypeOK, Reading
<1>4. ASSUME NEW fd \in Fds, DropSession(fd) PROVE TypeOK' /\ Reading'
  BY <1>4 DEF DropSession, TypeOK, Reading
<1>5. ASSUME NEW fd \in Fds, CloseFd(fd) PROVE TypeOK' /\ Reading'
  <2>1. slot' \in Slot
    BY <1>0, <1>5, CloseFdClears
  <2>2. cast' \in [Sources -> Casts] /\ Reading'
    BY <1>5, CloseFdEffect DEF Reading
  <2>3. sess' \in [Fds -> {"free", "open", "closing"}] /\ wants' \in [Fds -> SUBSET Uris]
    BY <1>5 DEF CloseFd, TypeOK
  <2> QED  BY <1>5, <2>1, <2>2, <2>3 DEF CloseFd, Slot, Casts, TypeOK
<1>6. ASSUME NEW d \in Sources, StartBroadcast(d) \/ ReadEntry(d) \/ SendFrame(d) \/ EndBroadcast(d)
      PROVE  TypeOK' /\ Reading'
  <2>1. cast' \in [Sources -> Casts] /\ Reading'
    <3>1. CASE StartBroadcast(d)
      BY <3>1, StartEffect DEF Reading
    <3>2. CASE ReadEntry(d)
      BY <3>2, ReadEffect DEF Reading
    <3>3. CASE SendFrame(d)
      BY <3>3, SendEffect DEF Reading
    <3>4. CASE EndBroadcast(d)
      BY <1>0, <3>4 DEF EndBroadcast, Idle, Casts, Reading
    <3> QED  BY <1>6, <3>1, <3>2, <3>3, <3>4
  <2>2. UNCHANGED <<slot, sess, wants, greedy, unseen, steady, rebooting>>
    BY <1>6 DEF StartBroadcast, ReadEntry, SendFrame, EndBroadcast
  <2> QED  BY <2>1, <2>2 DEF TypeOK, Casts
<1>7. CASE WatchdogWakes
  BY <1>7 DEF WatchdogWakes, Registered, TypeOK, Reading
<1>8. CASE WatchdogLooks
  BY <1>8 DEF WatchdogLooks, TypeOK, Reading
<1>9. CASE DailyRestart
  BY <1>9 DEF DailyRestart, TypeOK, Reading
<1>10. CASE Reboot
  <2>1. Init'
    BY <1>10 DEF Reboot, Init
  <2> QED  BY <2>1, TypeInit, PTL
<1>11. CASE UNCHANGED vars
  BY <1>11 DEF vars, TypeOK, Reading
<1> QED
  BY <1>1, <1>2, <1>3, <1>4, <1>5, <1>6, <1>7, <1>8, <1>9, <1>10, <1>11
     DEF Next, Httpd, Broadcast, Watchdog

\* Every variable stays in its domain: no step of httpd, of a device's task or of
\* the watchdog writes an entry, an index or a session state of another kind.
THEOREM RegistryTypes == Spec => []TypeOK
<1>1. Spec => [](TypeOK /\ Reading)
  BY TypeInit, TypeStep, PTL DEF Spec
<1> QED  BY <1>1, PTL

-----------------------------------------------------------------------------
(* Who is registered.                                                        *)

\* The steps that change neither the arrays nor the sessions.
LEMMA OtherSteps ==
    ASSUME Broadcast \/ Watchdog \/ DailyRestart \/ UNCHANGED vars
    PROVE  UNCHANGED <<slot, sess, wants, greedy>>
  BY DEF Broadcast, StartBroadcast, ReadEntry, SendFrame, EndBroadcast, Watchdog,
         WatchdogWakes, WatchdogLooks, DailyRestart, vars

\* Resetting entries gives no descriptor a cell it did not have.
LEMMA CellsShrink ==
    ASSUME TypeOK, \A d \in Devices, i \in Indices : slot'[d][i] \in {slot[d][i], NoFd},
           NEW f \in Fds
    PROVE  CellsOf(f)' \subseteq CellsOf(f)
  BY DEF CellsOf, Cells

\* The first two parts of EntriesInv, which are about the arrays.
LEMMA CellsStay ==
    ASSUME TypeOK, EntriesInv, greedy' = greedy,
           \A d \in Devices, i \in Indices : slot'[d][i] \in {slot[d][i], NoFd}
    PROVE  /\ \A f \in Fds \ greedy' : \A c, e \in CellsOf(f)' : c = e
           /\ \A d \in Devices, i \in Indices : slot'[d][i] \in Fds => d \in Uris
<1>1. \A f \in Fds : CellsOf(f)' \subseteq CellsOf(f)
  BY CellsShrink
<1>2. \A d \in Devices, i \in Indices : slot'[d][i] \in Fds => d \in Uris
  BY DEF EntriesInv
<1> QED  BY <1>1, <1>2 DEF EntriesInv

LEMMA EntriesInit == Init => EntriesInv
<1> SUFFICES ASSUME Init PROVE EntriesInv
  OBVIOUS
<1>1. \A f \in Fds : CellsOf(f) = {}
  BY DEF Init, CellsOf, Cells
<1>2. Holders = {}
  BY DEF Init, Holders
<1>3. IsFiniteSet(Holders) /\ Cardinality(Holders) <= MaxSessions
  BY <1>2, FS_EmptySet
<1> QED  BY <1>1, <1>3 DEF Init, EntriesInv

\* A second registration makes a session greedy, so every other session has one
\* cell at most; and httpd admits no session beyond its limit.
LEMMA EntriesStep == TypeOK /\ EntriesInv /\ [Next]_vars => EntriesInv'
<1> SUFFICES ASSUME TypeOK, EntriesInv, [Next]_vars PROVE EntriesInv'
  OBVIOUS
<1>0. slot \in Slot
  BY DEF Slot, TypeOK
<1>1. ASSUME NEW fd \in Fds, OpenSession(fd) PROVE EntriesInv'
  <2>1. Holders' = Holders \cup {fd} /\ fd \notin Holders
    BY <1>1 DEF OpenSession, Holders, TypeOK
  <2>2. Cardinality(Holders) < MaxSessions
    BY <1>1 DEF OpenSession, Holders
  <2>3. IsFiniteSet(Holders)' /\ Cardinality(Holders') = Cardinality(Holders) + 1
    BY <2>1, FS_AddElement DEF EntriesInv
  <2>4. Cardinality(Holders) \in Nat
    BY FS_CardinalityType DEF EntriesInv
  <2>5. Cardinality(Holders') <= MaxSessions
    BY <2>2, <2>3, <2>4
  <2>6. \A f \in Fds : sess'[f] = "free" => wants'[f] = {}
    BY <1>1 DEF OpenSession, EntriesInv, TypeOK
  <2>7. /\ \A f \in Fds \ greedy' : \A c, e \in CellsOf(f)' : c = e
        /\ \A d \in Devices, i \in Indices : slot'[d][i] \in Fds => d \in Uris
    BY <1>1, CellsStay DEF OpenSession
  <2> QED  BY <2>3, <2>5, <2>6, <2>7 DEF EntriesInv
<1>2. ASSUME NEW fd \in Fds, NEW d \in Uris, RequestUri(fd, d) PROVE EntriesInv'
  <2>0. d \in Devices
    BY DEF Uris
  <2>1. /\ \A f \in Fds \ greedy' : \A c, e \in CellsOf(f)' : c = e
        /\ \A a \in Devices, i \in Indices : slot'[a][i] \in Fds => a \in Uris
    <3>1. CASE slot' = slot
      <4>1. greedy \subseteq greedy'
        BY <1>2 DEF RequestUri
      <4>2. \A f \in Fds : CellsOf(f)' = CellsOf(f)
        BY <3>1 DEF CellsOf
      <4> QED  BY <3>1, <4>1, <4>2 DEF EntriesInv
    <3>2. ASSUME NEW i \in Indices, slot[d][i] = NoFd, slot' = [slot EXCEPT ![d][i] = fd]
          PROVE  /\ \A f \in Fds \ greedy' : \A c, e \in CellsOf(f)' : c = e
                 /\ \A a \in Devices, j \in Indices : slot'[a][j] \in Fds => a \in Uris
      <4>1. \A a \in Devices, j \in Indices :
               slot'[a][j] = IF a = d /\ j = i THEN fd ELSE slot[a][j]
        BY <1>0, <2>0, <3>2 DEF Slot
      <4>2. ASSUME NEW f \in Fds \ greedy', f # fd PROVE \A c, e \in CellsOf(f)' : c = e
        <5>1. f \notin greedy
          BY <1>2, <4>2 DEF RequestUri
        <5>2. CellsOf(f)' \subseteq CellsOf(f)
          BY <4>1, <4>2 DEF CellsOf, Cells
        <5> QED  BY <5>1, <5>2 DEF EntriesInv
      <4>3. ASSUME fd \notin greedy' PROVE \A c, e \in CellsOf(fd)' : c = e
        <5>1. CellsOf(fd) = {}
          BY <1>2, <4>3 DEF RequestUri
        <5>2. CellsOf(fd)' \subseteq {<<d, i>>}
          BY <4>1, <5>1 DEF CellsOf, Cells
        <5> QED  BY <5>2
      <4> QED  BY <4>1, <4>2, <4>3 DEF EntriesInv
    <3> QED  BY <1>0, <1>2, <3>1, <3>2, RequestEffect
  <2>2. \A f \in Fds : sess'[f] = "free" => wants'[f] = {}
    BY <1>2 DEF RequestUri, EntriesInv, TypeOK
  <2>3. Holders' = Holders
    BY <1>2 DEF RequestUri, Holders
  <2> QED  BY <2>1, <2>2, <2>3 DEF EntriesInv
<1>3. ASSUME NEW fd \in Fds, CloseFrame(fd) PROVE EntriesInv'
  <2>1. \A d \in Devices, i \in Indices : slot'[d][i] \in {slot[d][i], NoFd}
    BY <1>0, <1>3, CloseFrameClears
  <2>2. \A f \in Fds : sess'[f] = "free" => wants'[f] = {}
    BY <1>3 DEF CloseFrame, EntriesInv, TypeOK
  <2>3. Holders' = Holders
    BY <1>3 DEF CloseFrame, Holders, TypeOK
  <2>4. greedy' = greedy
    BY <1>3 DEF CloseFrame
  <2> QED  BY <2>1, <2>2, <2>3, <2>4, CellsStay DEF EntriesInv
<1>4. ASSUME NEW fd \in Fds, DropSession(fd) PROVE EntriesInv'
  <2>1. slot' = slot /\ greedy' = greedy
    BY <1>4 DEF DropSession
  <2>2. \A f \in Fds : sess'[f] = "free" => wants'[f] = {}
    BY <1>4 DEF DropSession, EntriesInv, TypeOK
  <2>3. Holders' = Holders
    BY <1>4 DEF DropSession, Holders, TypeOK
  <2> QED  BY <2>1, <2>2, <2>3, CellsStay DEF EntriesInv
<1>5. ASSUME NEW fd \in Fds, CloseFd(fd) PROVE EntriesInv'
  <2>1. \A d \in Devices, i \in Indices : slot'[d][i] \in {slot[d][i], NoFd}
    BY <1>0, <1>5, CloseFdClears
  <2>2. \A f \in Fds : sess'[f] = "free" => wants'[f] = {}
    BY <1>5 DEF CloseFd, EntriesInv, TypeOK
  <2>3. Holders' = Holders \ {fd} /\ greedy' = greedy
    BY <1>5 DEF CloseFd, Holders, TypeOK
  <2>4. IsFiniteSet(Holders)' /\ Cardinality(Holders') <= Cardinality(Holders)
    BY <2>3, FS_Subset DEF EntriesInv
  <2>5. Cardinality(Holders) \in Nat /\ Cardinality(Holders') \in Nat
    BY <2>4, FS_CardinalityType DEF EntriesInv
  <2>6. Cardinality(Holders') <= MaxSessions
    BY <2>4, <2>5 DEF EntriesInv
  <2> QED  BY <2>1, <2>2, <2>3, <2>4, <2>6, CellsStay DEF EntriesInv
<1>6. ASSUME UNCHANGED <<slot, sess, wants, greedy>> PROVE EntriesInv'
  BY <1>6 DEF EntriesInv, CellsOf, Holders
<1>7. CASE Reboot
  <2>1. Init'
    BY <1>7 DEF Reboot, Init
  <2> QED  BY <2>1, EntriesInit, PTL
<1>8. CASE Broadcast \/ Watchdog \/ DailyRestart \/ UNCHANGED vars
  <2>1. UNCHANGED <<slot, sess, wants, greedy>>
    BY <1>8, OtherSteps
  <2> QED  BY <1>6, <2>1
<1> QED
  BY <1>1, <1>2, <1>3, <1>4, <1>5, <1>7, <1>8 DEF Next, Httpd

-----------------------------------------------------------------------------
(* The arrays and the sessions.                                              *)

\* Only httpd's own handlers, which close a session first, take an entry away:
\* one whose session stays open stays where it is.
LEMMA EntryStays ==
    ASSUME TypeOK, [Next]_vars, ~Reboot,
           NEW d \in Devices, NEW i \in Indices, NEW f \in Fds, slot[d][i] = f, sess'[f] = "open"
    PROVE  slot'[d][i] = f
<1>0. slot \in Slot /\ f # NoFd
  BY DEF Slot, TypeOK
<1>1. ASSUME NEW fd \in Fds, OpenSession(fd) \/ DropSession(fd) PROVE slot'[d][i] = f
  BY <1>1 DEF OpenSession, DropSession
<1>2. ASSUME NEW fd \in Fds, NEW e \in Uris, RequestUri(fd, e) PROVE slot'[d][i] = f
  <2>1. CASE slot' = slot
    BY <2>1
  <2>2. ASSUME NEW j \in Indices, slot[e][j] = NoFd, slot' = [slot EXCEPT ![e][j] = fd]
        PROVE  slot'[d][i] = f
    BY <1>0, <2>2 DEF Slot, Uris
  <2> QED  BY <1>0, <1>2, <2>1, <2>2, RequestEffect
<1>3. ASSUME NEW fd \in Fds, CloseFrame(fd) PROVE slot'[d][i] = f
  <2>1. f # fd
    BY <1>3 DEF CloseFrame, TypeOK
  <2> QED  BY <1>0, <1>3, <2>1, CloseFrameClears
<1>4. ASSUME NEW fd \in Fds, CloseFd(fd) PROVE slot'[d][i] = f
  <2>1. f # fd
    BY <1>4 DEF CloseFd, TypeOK
  <2> QED  BY <1>0, <1>4, <2>1, CloseFdClears
<1>5. CASE Broadcast \/ Watchdog \/ DailyRestart \/ UNCHANGED vars
  BY <1>5, OtherSteps
<1> QED
  BY <1>1, <1>2, <1>3, <1>4, <1>5 DEF Next, Httpd

\* While no session registered twice, an array has room for one that has no
\* entry: every entry is of another session, and httpd admits fewer of these
\* than an array has entries.
LEMMA RoomForOne ==
    ASSUME TypeOK, EntriesInv, RegistrationsAgree, greedy = {},
           NEW fd \in Fds, sess[fd] = "open", CellsOf(fd) = {}, NEW d \in Devices
    PROVE  \E i \in Indices : slot[d][i] = NoFd
<1> SUFFICES ASSUME \A i \in Indices : slot[d][i] # NoFd PROVE FALSE
  OBVIOUS
<1> DEFINE others == Holders \ {fd}
<1>1. \A i \in Indices : slot[d][i] \in others
  <2>1. TAKE i \in Indices
  <2>2. slot[d][i] \in Fds
    BY DEF TypeOK
  <2>3. d \in wants[slot[d][i]]
    BY <2>2 DEF RegistrationsAgree
  <2>4. slot[d][i] \in Holders
    BY <2>2, <2>3 DEF EntriesInv, Holders
  <2>5. slot[d][i] # fd
    <3>1. <<d, i>> \notin CellsOf(fd) /\ <<d, i>> \in Cells
      BY DEF Cells
    <3> QED  BY <3>1 DEF CellsOf
  <2> QED  BY <2>4, <2>5
<1>2. slot[d] \in [Indices -> others]
  BY <1>1 DEF TypeOK
<1>3. fd \in Holders
  BY DEF Holders
<1>4. IsFiniteSet(others) /\ Cardinality(others) = Cardinality(Holders) - 1
  BY <1>3, FS_RemoveElement DEF EntriesInv
<1>5. IsFiniteSet(Indices) /\ Cardinality(Indices) = Size
  BY FS_Interval DEF Indices
<1>6. Cardinality(others) < Cardinality(Indices)
  <2>1. Cardinality(Holders) \in Nat
    BY FS_CardinalityType DEF EntriesInv
  <2> QED  BY <1>4, <1>5, <2>1 DEF EntriesInv
<1>7. PICK x, y \in Indices : x # y /\ slot[d][x] = slot[d][y]
  <2> HIDE DEF others
  <2> DEFINE S == Indices
             T == others
             g == slot[d]
  <2>1. IsFiniteSet(S) /\ IsFiniteSet(T) /\ Cardinality(T) < Cardinality(S) /\ g \in [S -> T]
    BY <1>2, <1>4, <1>5, <1>6
  <2> HIDE DEF S, T, g
  <2>2. \E x, y \in S : x # y /\ g[x] = g[y]
    BY <2>1, FS_PigeonHole
  <2> QED  BY <2>2 DEF S, g
<1>8. <<d, x>> \in CellsOf(slot[d][x]) /\ <<d, y>> \in CellsOf(slot[d][x])
  BY <1>7 DEF CellsOf, Cells
<1>9. slot[d][x] \in Fds \ greedy
  BY <1>1 DEF Holders
<1> QED  BY <1>7, <1>8, <1>9 DEF EntriesInv

LEMMA RegistrationsInit == Init => RegistrationsAgree
  BY DEF Init, RegistrationsAgree

\* CloseFd forgets what a descriptor asked for, and the only entry of one that
\* registered once; RequestUri finds room for such a session.
LEMMA RegistrationsStep ==
    TypeOK /\ EntriesInv /\ RegistrationsAgree /\ [Next]_vars => RegistrationsAgree'
<1> SUFFICES ASSUME TypeOK, EntriesInv, RegistrationsAgree, [Next]_vars
             PROVE  RegistrationsAgree'
  OBVIOUS
<1>0. slot \in Slot
  BY DEF Slot, TypeOK
<1>a. CASE Reboot
  <2>1. Init'
    BY <1>a DEF Reboot, Init
  <2> QED  BY <2>1, RegistrationsInit, PTL
<1>b. ASSUME ~Reboot PROVE RegistrationsAgree'
  <2>1. ASSUME NEW d \in Devices, NEW i \in Indices, slot'[d][i] \in Fds \ greedy'
        PROVE  d \in wants'[slot'[d][i]]
    <3>1. ASSUME NEW fd \in Fds, OpenSession(fd) \/ DropSession(fd) PROVE d \in wants'[slot'[d][i]]
      BY <2>1, <3>1 DEF OpenSession, DropSession, RegistrationsAgree
    <3>2. ASSUME NEW fd \in Fds, NEW e \in Uris, RequestUri(fd, e) PROVE d \in wants'[slot'[d][i]]
      <4>1. \A f \in Fds : wants[f] \subseteq wants'[f]
        BY <3>2 DEF RequestUri, TypeOK
      <4>2. e \in wants'[fd]
        BY <3>2 DEF RequestUri, TypeOK
      <4>3. greedy \subseteq greedy'
        BY <3>2 DEF RequestUri
      <4>4. CASE slot'[d][i] = slot[d][i]
        BY <2>1, <4>1, <4>3, <4>4 DEF RegistrationsAgree
      <4>5. CASE slot'[d][i] # slot[d][i]
        <5>1. PICK j \in Indices : slot' = [slot EXCEPT ![e][j] = fd]
          BY <1>0, <3>2, <4>5, RequestEffect
        <5>2. d = e /\ slot'[d][i] = fd
          BY <1>0, <4>5, <5>1 DEF Slot, Uris
        <5> QED  BY <4>2, <5>2
      <4> QED  BY <4>4, <4>5
    <3>3. ASSUME NEW fd \in Fds, CloseFrame(fd) PROVE d \in wants'[slot'[d][i]]
      <4>1. slot'[d][i] = slot[d][i]
        BY <1>0, <2>1, <3>3, CloseFrameClears
      <4> QED  BY <2>1, <3>3, <4>1 DEF CloseFrame, RegistrationsAgree
    <3>4. ASSUME NEW fd \in Fds, CloseFd(fd) PROVE d \in wants'[slot'[d][i]]
      <4>1. slot'[d][i] = slot[d][i] /\ greedy' = greedy
        BY <1>0, <2>1, <3>4, CloseFdClears DEF CloseFd
      <4>2. slot[d][i] # fd
        <5>1. SUFFICES ASSUME slot[d][i] = fd PROVE FALSE
          OBVIOUS
        <5>2. <<d, i>> \in CellsOf(fd) /\ fd \in Fds \ greedy
          BY <2>1, <4>1, <5>1 DEF CellsOf, Cells
        <5>3. slot'[d][i] = NoFd
          BY <1>0, <3>4, <5>2, CloseFdClears DEF EntriesInv
        <5> QED  BY <2>1, <5>3
      <4>3. wants'[slot[d][i]] = wants[slot[d][i]]
        BY <2>1, <3>4, <4>1, <4>2 DEF CloseFd, TypeOK
      <4> QED  BY <2>1, <4>1, <4>3 DEF RegistrationsAgree
    <3>5. CASE Broadcast \/ Watchdog \/ DailyRestart \/ UNCHANGED vars
      BY <2>1, <3>5, OtherSteps DEF RegistrationsAgree
    <3> QED  BY <1>b, <3>1, <3>2, <3>3, <3>4, <3>5 DEF Next, Httpd
  <2>2. ASSUME greedy' = {}, NEW f \in Fds, NEW d \in Devices, sess'[f] = "open", d \in wants'[f]
        PROVE  \E i \in Indices : slot'[d][i] = f
    <3>0. ASSUME d \in wants[f], sess[f] = "open", greedy = {}
          PROVE  \E i \in Indices : slot'[d][i] = f
      <4>1. PICK i \in Indices : slot[d][i] = f
        BY <3>0 DEF RegistrationsAgree
      <4> QED  BY <1>b, <2>2, <4>1, EntryStays
    <3>1. ASSUME NEW fd \in Fds, OpenSession(fd) PROVE \E i \in Indices : slot'[d][i] = f
      <4>1. wants[f] # {} /\ greedy = {}
        BY <2>2, <3>1 DEF OpenSession
      <4>2. sess[f] = "open"
        BY <2>2, <3>1, <4>1 DEF OpenSession, EntriesInv, TypeOK
      <4> QED  BY <2>2, <3>0, <3>1, <4>1, <4>2 DEF OpenSession
    <3>2. ASSUME NEW fd \in Fds, NEW e \in Uris, RequestUri(fd, e)
          PROVE  \E i \in Indices : slot'[d][i] = f
      <4>1. greedy = {} /\ CellsOf(fd) = {} /\ sess[f] = "open"
        BY <2>2, <3>2 DEF RequestUri
      <4>2. CASE d \in wants[f]
        BY <3>0, <4>1, <4>2
      <4>3. CASE d \notin wants[f]
        <5>1. f = fd /\ d = e
          BY <2>2, <3>2, <4>3 DEF RequestUri, TypeOK
        <5>2. PICK j \in Indices : slot' = [slot EXCEPT ![e][j] = fd]
          <6>1. ~ \A i \in Indices : slot[e][i] # NoFd
            BY <4>1, <5>1, RoomForOne
          <6> QED  BY <1>0, <3>2, <6>1, RequestEffect
        <5>3. slot'[d][j] = f
          BY <1>0, <5>1, <5>2 DEF Slot
        <5> QED  BY <5>3
      <4> QED  BY <4>2, <4>3
    <3>3. ASSUME NEW fd \in Fds, CloseFrame(fd) \/ DropSession(fd)
          PROVE  \E i \in Indices : slot'[d][i] = f
      BY <2>2, <3>0, <3>3 DEF CloseFrame, DropSession, TypeOK
    <3>4. ASSUME NEW fd \in Fds, CloseFd(fd) PROVE \E i \in Indices : slot'[d][i] = f
      BY <2>2, <3>0, <3>4 DEF CloseFd, TypeOK
    <3>5. CASE Broadcast \/ Watchdog \/ DailyRestart \/ UNCHANGED vars
      BY <2>2, <3>0, <3>5, OtherSteps
    <3> QED  BY <1>b, <3>1, <3>2, <3>3, <3>4, <3>5 DEF Next, Httpd
  <2> QED  BY <2>1, <2>2 DEF RegistrationsAgree
<1> QED  BY <1>a, <1>b

\* The arrays and the sessions agree: nobody inherits the registrations of a
\* session that is gone, and unless one registers twice, each that asked for a
\* device has its entry.
THEOREM SessionsAreRegistered == Spec => []RegistrationsAgree
<1>1. Spec => [](TypeOK /\ Reading /\ EntriesInv /\ RegistrationsAgree)
  BY TypeInit, TypeStep, EntriesInit, EntriesStep, RegistrationsInit, RegistrationsStep, PTL
     DEF Spec
<1> QED  BY <1>1, PTL

-----------------------------------------------------------------------------
(* The broadcasts.                                                           *)

\* The sessions that b has still to reach, when what it holds counts as reached.
Reaching(d, fd) ==
    LET b == cast[d]
        ahead == IF b.to = NoFd THEN b.next ELSE b.next + 1
    IN  \/ fd \in b.heard
        \/ fd = b.to
        \/ \E i \in Indices : i >= ahead /\ slot[d][i] = fd

\* CastInv, in words that its proof can use one by one.
LEMMA CastInvParts ==
    CastInv <=> /\ Reading
                /\ \A d \in Sources :
                      /\ cast[d].audience \subseteq Holders
                      /\ \A fd \in cast[d].audience : sess[fd] = "open" => Reaching(d, fd)
  BY DEF CastInv, Reading, Reaching

LEMMA CastInit == Init => CastInv
<1> SUFFICES ASSUME Init PROVE CastInv
  OBVIOUS
<1>1. \A d \in Sources : cast[d].to = NoFd /\ cast[d].audience = {}
  BY DEF Init, Idle
<1> QED  BY <1>1 DEF CastInv

\* A handler of httpd moves no entry of a session that stays open, so what a
\* broadcast has ahead of it stays ahead of it.
LEMMA ReachingStays ==
    ASSUME TypeOK, [Next]_vars, ~Reboot, NEW d \in Sources, NEW fd \in Fds,
           Reaching(d, fd), sess'[fd] = "open",
           cast'[d].next = cast[d].next, cast'[d].to = cast[d].to,
           fd \in cast[d].heard => fd \in cast'[d].heard
    PROVE  Reaching(d, fd)'
<1>1. \A i \in Indices : slot[d][i] = fd => slot'[d][i] = fd
  BY EntryStays
<1> QED  BY <1>1 DEF Reaching

\* A broadcast passes over empty entries, and holds what it read until it is sent.
LEMMA CastStep == TypeOK /\ CastInv /\ [Next]_vars => CastInv'
<1> SUFFICES ASSUME TypeOK, CastInv, [Next]_vars PROVE CastInv'
  OBVIOUS
<1>0. /\ Reading /\ Reading'
      /\ \A d \in Sources :
            /\ cast[d].audience \subseteq Holders
            /\ \A fd \in cast[d].audience : sess[fd] = "open" => Reaching(d, fd)
  BY CastInvParts, TypeStep
<1>a. CASE Reboot
  <2>1. Init'
    BY <1>a DEF Reboot, Init
  <2> QED  BY <2>1, CastInit, PTL
<1>b. ASSUME ~Reboot, NEW d \in Sources
      PROVE  /\ (cast[d].audience \subseteq Holders)'
             /\ \A fd \in cast'[d].audience : sess'[fd] = "open" => Reaching(d, fd)'
  <2>0. cast[d].audience \subseteq Fds /\ cast[d].to \in Fds \cup {NoFd}
    BY DEF TypeOK
  <2>1. ASSUME UNCHANGED cast, Holders \subseteq Holders',
               \A fd \in Holders : sess'[fd] = "open" => sess[fd] = "open"
        PROVE  /\ (cast[d].audience \subseteq Holders)'
               /\ \A fd \in cast'[d].audience : sess'[fd] = "open" => Reaching(d, fd)'
    BY <1>0, <1>b, <2>0, <2>1, ReachingStays
  <2>2. ASSUME NEW fd \in Fds, OpenSession(fd)
        PROVE  /\ (cast[d].audience \subseteq Holders)'
               /\ \A f \in cast'[d].audience : sess'[f] = "open" => Reaching(d, f)'
    BY <2>1, <2>2 DEF OpenSession, Holders, TypeOK
  <2>3. ASSUME NEW fd \in Fds, NEW e \in Uris, RequestUri(fd, e)
        PROVE  /\ (cast[d].audience \subseteq Holders)'
               /\ \A f \in cast'[d].audience : sess'[f] = "open" => Reaching(d, f)'
    BY <2>1, <2>3 DEF RequestUri, Holders, TypeOK
  <2>4. ASSUME NEW fd \in Fds, CloseFrame(fd) \/ DropSession(fd)
        PROVE  /\ (cast[d].audience \subseteq Holders)'
               /\ \A f \in cast'[d].audience : sess'[f] = "open" => Reaching(d, f)'
    BY <2>1, <2>4 DEF CloseFrame, DropSession, Holders, TypeOK
  <2>5. ASSUME NEW fd \in Fds, CloseFd(fd)
        PROVE  /\ (cast[d].audience \subseteq Holders)'
               /\ \A f \in cast'[d].audience : sess'[f] = "open" => Reaching(d, f)'
    <3>1. /\ cast'[d].next = cast[d].next /\ cast'[d].to = cast[d].to
          /\ cast'[d].audience = cast[d].audience \ {fd}
          /\ cast'[d].heard = cast[d].heard \ {fd}
      BY <2>5, CloseFdEffect
    <3>2. \A f \in Fds \ {fd} : sess'[f] = sess[f]
      BY <2>5 DEF CloseFd, TypeOK
    <3>3. (cast[d].audience \subseteq Holders)'
      BY <1>0, <3>1, <3>2 DEF Holders
    <3>4. ASSUME NEW f \in cast'[d].audience, sess'[f] = "open" PROVE Reaching(d, f)'
      <4>1. f \in Fds \ {fd} /\ f \in cast[d].audience
        BY <2>0, <3>1
      <4>2. Reaching(d, f)
        BY <1>0, <3>2, <3>4, <4>1
      <4> QED  BY <1>b, <3>1, <3>4, <4>1, <4>2, ReachingStays
    <3> QED  BY <3>3, <3>4
  <2>6. ASSUME NEW e \in Sources,
               StartBroadcast(e) \/ ReadEntry(e) \/ SendFrame(e) \/ EndBroadcast(e), e # d
        PROVE  /\ (cast[d].audience \subseteq Holders)'
               /\ \A f \in cast'[d].audience : sess'[f] = "open" => Reaching(d, f)'
    <3>1. cast'[d] = cast[d]
      BY <1>0, <2>6, OthersGoOn
    <3>2. slot' = slot /\ sess' = sess
      BY <2>6 DEF StartBroadcast, ReadEntry, SendFrame, EndBroadcast
    <3> QED  BY <1>0, <3>1, <3>2 DEF Reaching, Holders
  <2>7. CASE StartBroadcast(d)
    <3>1. cast'[d].next = 1 /\ cast'[d].to = NoFd /\ cast'[d].audience = Present(d)
      BY <2>7, StartEffect
    <3>2. slot' = slot /\ sess' = sess
      BY <2>7 DEF StartBroadcast
    <3>3. Present(d) \subseteq Holders
      BY DEF Present, Holders
    <3>4. \A f \in Present(d) : \E i \in Indices : i >= 1 /\ slot[d][i] = f
      BY DEF Present, Indices
    <3> QED  BY <3>1, <3>2, <3>3, <3>4 DEF Reaching, Holders
  <2>8. CASE ReadEntry(d)
    <3>1. /\ cast[d].next \in Indices
          /\ cast'[d].to = slot[d][cast[d].next]
          /\ cast'[d].next = IF slot[d][cast[d].next] = NoFd
                             THEN cast[d].next + 1 ELSE cast[d].next
          /\ cast'[d].audience = cast[d].audience
          /\ cast'[d].heard = cast[d].heard
      BY <2>8, ReadEffect
    <3>2. slot' = slot /\ sess' = sess /\ cast[d].to = NoFd
      BY <2>8 DEF ReadEntry
    <3>3. (cast[d].audience \subseteq Holders)'
      BY <1>0, <3>1, <3>2 DEF Holders
    <3>4. ASSUME NEW f \in cast'[d].audience, sess'[f] = "open" PROVE Reaching(d, f)'
      <4>1. Reaching(d, f) /\ f # NoFd
        BY <1>0, <2>0, <3>1, <3>2, <3>4
      <4>2. CASE f \in cast[d].heard
        BY <3>1, <4>2 DEF Reaching
      <4>3. ASSUME NEW i \in Indices, i >= cast[d].next, slot[d][i] = f PROVE Reaching(d, f)'
        <5>1. CASE i = cast[d].next
          BY <3>1, <4>3, <5>1 DEF Reaching
        <5>2. CASE i # cast[d].next
          <6>1. i >= cast[d].next + 1
            BY <3>1, <4>3, <5>2 DEF Indices
          <6>2. slot'[d][i] = f
            BY <3>2, <4>3
          <6>3. (IF cast[d].to = NoFd THEN cast[d].next ELSE cast[d].next + 1)' = cast[d].next + 1
            BY <3>1
          <6> QED  BY <6>1, <6>2, <6>3 DEF Reaching
        <5> QED  BY <5>1, <5>2
      <4> QED  BY <3>2, <4>1, <4>2, <4>3 DEF Reaching
    <3> QED  BY <3>3, <3>4
  <2>9. CASE SendFrame(d)
    <3>1. /\ cast[d].to \in Fds /\ cast[d].next \in Indices
          /\ cast'[d].to = NoFd /\ cast'[d].next = cast[d].next + 1
          /\ cast'[d].audience = cast[d].audience
          /\ cast'[d].heard = IF sess[cast[d].to] = "free" THEN cast[d].heard
                              ELSE cast[d].heard \cup {cast[d].to}
      BY <1>0, <2>9, SendEffect
    <3>2. slot' = slot /\ sess' = sess
      BY <2>9 DEF SendFrame
    <3>3. (cast[d].audience \subseteq Holders)'
      BY <1>0, <3>1, <3>2 DEF Holders
    <3>4. ASSUME NEW f \in cast'[d].audience, sess'[f] = "open" PROVE Reaching(d, f)'
      <4>1. Reaching(d, f) /\ sess[f] = "open"
        BY <1>0, <3>1, <3>2, <3>4
      <4>2. CASE f \in cast[d].heard \/ f = cast[d].to
        BY <3>1, <4>1, <4>2 DEF Reaching
      <4>3. CASE \E i \in Indices : i >= cast[d].next + 1 /\ slot[d][i] = f
        BY <3>1, <3>2, <4>3 DEF Reaching
      <4>4. cast[d].to # NoFd
        BY <2>9 DEF SendFrame
      <4> QED  BY <4>1, <4>2, <4>3, <4>4 DEF Reaching
    <3> QED  BY <3>3, <3>4
  <2>10. CASE EndBroadcast(d)
    <3>1. cast'[d].audience = {}
      BY <2>10 DEF EndBroadcast, Idle, TypeOK
    <3> QED  BY <3>1
  <2>11. CASE Watchdog \/ DailyRestart \/ UNCHANGED vars
    <3>1. cast' = cast
      BY <2>11 DEF Watchdog, WatchdogWakes, WatchdogLooks, DailyRestart, vars
    <3>2. sess' = sess
      BY <2>11, OtherSteps
    <3> QED  BY <2>1, <3>1, <3>2 DEF Holders
  <2> QED
    BY <1>b, <2>2, <2>3, <2>4, <2>5, <2>6, <2>7, <2>8, <2>9, <2>10, <2>11
       DEF Next, Httpd, Broadcast
<1>c. ASSUME ~Reboot PROVE CastInv'
  <2>1. \A d \in Sources :
           /\ (cast[d].audience \subseteq Holders)'
           /\ \A fd \in cast'[d].audience : sess'[fd] = "open" => Reaching(d, fd)'
    BY <1>b, <1>c
  <2> QED  BY <1>0, <2>1 DEF CastInv, Reading, Reaching
<1> QED  BY <1>a, <1>c

\* A broadcast that has passed the last entry has reached all it had to reach.
LEMMA PassedAll == TypeOK /\ CastInv => AudienceServed
<1> SUFFICES ASSUME TypeOK, CastInv, NEW d \in Sources, cast[d].next > Size,
                    NEW fd \in cast[d].audience, sess[fd] = "open"
             PROVE  fd \in cast[d].heard
  BY DEF AudienceServed
<1>1. cast[d].next \in Nat /\ fd \in Fds
  BY DEF TypeOK
<1>2. cast[d].to = NoFd
  BY <1>1 DEF CastInv, Indices
<1>3. \A i \in Indices : ~(i >= cast[d].next)
  BY <1>1 DEF Indices
<1>4. fd # cast[d].to
  BY <1>1, <1>2
<1> QED  BY <1>2, <1>3, <1>4 DEF CastInv

\* A broadcast reaches every session that is registered from its start to its
\* end: entries are taken and cleared under the walk, but none of these moves.
THEOREM BroadcastsServe == Spec => []AudienceServed
<1>1. Spec => [](TypeOK /\ Reading /\ CastInv)
  BY TypeInit, TypeStep, CastInit, CastStep, PTL DEF Spec
<1> QED  BY <1>1, PassedAll, PTL

\* What PassedInv says of a session a broadcast is for.
Passed(d, fd) ==
    /\ fd \in cast[d].heard => \E i \in Indices : i < cast[d].next /\ slot[d][i] = fd
    /\ fd = cast[d].to => slot[d][cast[d].next] = fd

LEMMA PassedInvParts ==
    PassedInv <=> \A d \in Sources : \A fd \in cast[d].audience :
                     sess[fd] = "open" => Passed(d, fd)
  BY DEF PassedInv, Passed

LEMMA PassedInit == Init => PassedInv
<1> SUFFICES ASSUME Init PROVE PassedInv
  OBVIOUS
<1>1. \A d \in Sources : cast[d].audience = {}
  BY DEF Init, Idle
<1> QED  BY <1>1 DEF PassedInv

\* No entry of a session that stays open is moved, so what was behind a broadcast
\* stays behind it.
LEMMA PassedStays ==
    ASSUME TypeOK, Reading, [Next]_vars, ~Reboot, NEW d \in Sources, NEW fd \in Fds,
           Passed(d, fd), sess'[fd] = "open",
           cast'[d].next = cast[d].next, cast'[d].to = cast[d].to,
           fd \in cast'[d].heard => fd \in cast[d].heard
    PROVE  Passed(d, fd)'
<1>1. \A i \in Indices : slot[d][i] = fd => slot'[d][i] = fd
  BY EntryStays
<1>2. fd = cast[d].to => cast[d].next \in Indices
  BY RegistryAssumption DEF Reading
<1> QED  BY <1>1, <1>2 DEF Passed

\* What is read is the entry the broadcast is at, and it is behind it when it is sent.
LEMMA PassedStep == TypeOK /\ CastInv /\ PassedInv /\ [Next]_vars => PassedInv'
<1> SUFFICES ASSUME TypeOK, CastInv, PassedInv, [Next]_vars PROVE PassedInv'
  OBVIOUS
<1>0. /\ Reading
      /\ \A d \in Sources :
            /\ cast[d].audience \subseteq Holders /\ cast[d].audience \subseteq Fds
            /\ \A fd \in cast[d].audience : sess[fd] = "open" => Passed(d, fd)
  BY CastInvParts, PassedInvParts DEF Holders
<1>a. CASE Reboot
  <2>1. Init'
    BY <1>a DEF Reboot, Init
  <2> QED  BY <2>1, PassedInit, PTL
<1>b. ASSUME ~Reboot, NEW d \in Sources, NEW f \in cast'[d].audience, sess'[f] = "open"
      PROVE  Passed(d, f)'
  <2>1. ASSUME UNCHANGED cast, \A fd \in Holders : sess'[fd] = "open" => sess[fd] = "open"
        PROVE  Passed(d, f)'
    BY <1>0, <1>b, <2>1, PassedStays
  <2>2. ASSUME NEW fd \in Fds, OpenSession(fd) PROVE Passed(d, f)'
    BY <2>1, <2>2 DEF OpenSession, Holders, TypeOK
  <2>3. ASSUME NEW fd \in Fds, NEW e \in Uris, RequestUri(fd, e) PROVE Passed(d, f)'
    BY <2>1, <2>3 DEF RequestUri
  <2>4. ASSUME NEW fd \in Fds, CloseFrame(fd) \/ DropSession(fd) PROVE Passed(d, f)'
    BY <2>1, <2>4 DEF CloseFrame, DropSession, Holders, TypeOK
  <2>5. ASSUME NEW fd \in Fds, CloseFd(fd) PROVE Passed(d, f)'
    <3>1. /\ cast'[d].next = cast[d].next /\ cast'[d].to = cast[d].to
          /\ cast'[d].audience = cast[d].audience \ {fd}
          /\ cast'[d].heard = cast[d].heard \ {fd}
      BY <2>5, CloseFdEffect
    <3>2. f \in cast[d].audience /\ f \in Fds \ {fd}
      BY <1>0, <1>b, <3>1
    <3>3. sess[f] = "open"
      BY <1>b, <2>5, <3>2 DEF CloseFd, TypeOK
    <3> QED  BY <1>0, <1>b, <3>1, <3>2, <3>3, PassedStays
  <2>6. ASSUME NEW e \in Sources,
               StartBroadcast(e) \/ ReadEntry(e) \/ SendFrame(e) \/ EndBroadcast(e), e # d
        PROVE  Passed(d, f)'
    <3>1. cast'[d] = cast[d]
      BY <1>0, <2>6, OthersGoOn
    <3>2. slot' = slot /\ sess' = sess
      BY <2>6 DEF StartBroadcast, ReadEntry, SendFrame, EndBroadcast
    <3> QED  BY <1>0, <1>b, <3>1, <3>2 DEF Passed
  <2>7. CASE StartBroadcast(d)
    <3>1. cast'[d].to = NoFd /\ cast'[d].audience = Present(d) /\ cast'[d].heard = {}
      BY <2>7, StartEffect
    <3>2. f \in Fds
      BY <1>b, <3>1 DEF Present
    <3> QED  BY <3>1, <3>2, RegistryAssumption DEF Passed
  <2>8. CASE ReadEntry(d)
    <3>1. /\ cast[d].next \in Indices
          /\ cast'[d].to = slot[d][cast[d].next]
          /\ cast'[d].next = IF slot[d][cast[d].next] = NoFd
                             THEN cast[d].next + 1 ELSE cast[d].next
          /\ cast'[d].audience = cast[d].audience
          /\ cast'[d].heard = cast[d].heard
      BY <2>8, ReadEffect
    <3>2. slot' = slot /\ sess' = sess
      BY <2>8 DEF ReadEntry
    <3>3. Passed(d, f) /\ f \in Fds
      BY <1>0, <1>b, <3>1, <3>2
    <3>4. f \in cast'[d].heard => \E i \in Indices : i < cast'[d].next /\ slot'[d][i] = f
      BY <3>1, <3>2, <3>3 DEF Passed, Indices
    <3>5. f = cast'[d].to => slot'[d][cast'[d].next] = f
      BY <3>1, <3>2, <3>3, RegistryAssumption
    <3> QED  BY <3>4, <3>5 DEF Passed
  <2>9. CASE SendFrame(d)
    <3>1. /\ cast[d].to \in Fds /\ cast[d].next \in Indices
          /\ cast'[d].to = NoFd /\ cast'[d].next = cast[d].next + 1
          /\ cast'[d].audience = cast[d].audience
          /\ cast'[d].heard = IF sess[cast[d].to] = "free" THEN cast[d].heard
                              ELSE cast[d].heard \cup {cast[d].to}
      BY <1>0, <2>9, SendEffect
    <3>2. slot' = slot /\ sess' = sess
      BY <2>9 DEF SendFrame
    <3>3. Passed(d, f) /\ f \in Fds
      BY <1>0, <1>b, <3>1, <3>2
    <3>4. f \in cast'[d].heard => \E i \in Indices : i < cast'[d].next /\ slot'[d][i] = f
      BY <3>1, <3>2, <3>3 DEF Passed, Indices
    <3> QED  BY <3>1, <3>3, <3>4, RegistryAssumption DEF Passed
  <2>10. CASE EndBroadcast(d)
    <3>1. cast'[d].audience = {}
      BY <2>10 DEF EndBroadcast, Idle, TypeOK
    <3> QED  BY <1>b, <3>1
  <2>11. CASE Watchdog \/ DailyRestart \/ UNCHANGED vars
    <3>1. cast' = cast
      BY <2>11 DEF Watchdog, WatchdogWakes, WatchdogLooks, DailyRestart, vars
    <3>2. sess' = sess
      BY <2>11, OtherSteps
    <3> QED  BY <2>1, <3>1, <3>2
  <2> QED
    BY <1>b, <2>2, <2>3, <2>4, <2>5, <2>6, <2>7, <2>8, <2>9, <2>10, <2>11
       DEF Next, Httpd, Broadcast
<1>c. ASSUME ~Reboot PROVE PassedInv'
  <2>1. \A d \in Sources : \A f \in cast'[d].audience : sess'[f] = "open" => Passed(d, f)'
    BY <1>b, <1>c
  <2> QED  BY <2>1 DEF PassedInv, Passed
<1> QED  BY <1>a, <1>c

\* A session with one entry is not behind a broadcast and before it.
LEMMA NotTwice == TypeOK /\ EntriesInv /\ CastInv /\ PassedInv => ServedOnce
<1> SUFFICES ASSUME TypeOK, EntriesInv, CastInv, PassedInv,
                    NEW d \in Sources, NEW fd \in cast[d].audience \ greedy,
                    sess[fd] = "open", cast[d].to = fd, fd \in cast[d].heard
             PROVE  FALSE
  BY DEF ServedOnce
<1>1. d \in Devices /\ fd \in Fds /\ cast[d].next \in Indices
  BY RegistryAssumption, CastInvParts DEF TypeOK, Reading
<1>2. slot[d][cast[d].next] = fd
  BY DEF PassedInv
<1>3. PICK i \in Indices : i < cast[d].next /\ slot[d][i] = fd
  BY DEF PassedInv
<1>4. <<d, i>> \in CellsOf(fd) /\ <<d, cast[d].next>> \in CellsOf(fd)
  BY <1>1, <1>2, <1>3 DEF CellsOf, Cells
<1>5. <<d, i>> = <<d, cast[d].next>>
  BY <1>1, <1>4 DEF EntriesInv
<1> QED  BY <1>1, <1>3, <1>5 DEF Indices

\* No session is sent the same event twice, as long as it did not register twice:
\* what is cleared and taken under the walk are entries of others.
THEOREM NobodyIsServedTwice == Spec => []ServedOnce
<1>1. Spec => [](TypeOK /\ Reading /\ EntriesInv /\ CastInv /\ PassedInv)
  BY TypeInit, TypeStep, EntriesInit, EntriesStep, CastInit, CastStep, PassedInit, PassedStep,
     PTL DEF Spec
<1> QED  BY <1>1, NotTwice, PTL

-----------------------------------------------------------------------------
(* The watchdog.                                                             *)

\* The cell the watchdog looks at is one of those it has still to look at.
LEMMA LooksAtOne ==
    ASSUME TypeOK, unseen # {}
    PROVE  FirstCell(unseen, WatchRank) \in unseen
<1>1. unseen \subseteq Cells /\ \A c \in unseen : WatchRank[c[1]] \in Nat
  BY Ranks DEF TypeOK, WatchedCells, Cells
<1> QED  BY <1>1, FirstCellIsOne

\* Every entry of a session is one the watchdog looks at when it wakes: the array
\* it leaves out has none.
LEMMA AllAreWatched ==
    ASSUME TypeOK, EntriesInv, NEW fd \in Fds, NEW c \in CellsOf(fd)
    PROVE  c \in WatchedCells /\ slot[c[1]][c[2]] = fd
<1>1. c \in Cells /\ slot[c[1]][c[2]] = fd
  BY DEF CellsOf
<1>2. c[1] \in Devices /\ c[2] \in Indices /\ c = <<c[1], c[2]>>
  BY <1>1 DEF Cells
<1>3. c[1] \in Uris
  BY <1>1, <1>2 DEF EntriesInv
<1>4. c[1] \in DOMAIN WatchRank
  BY <1>2, <1>3 DEF Uris, WatchRank, CloseFnRank
<1> QED  BY <1>1, <1>2, <1>4 DEF WatchedCells

LEMMA SteadyInit == Init => SteadyInv
  BY DEF Init, SteadyInv

\* A cell that was looked at was empty, or the walk has ended.
LEMMA SteadyStep == TypeOK /\ EntriesInv /\ SteadyInv /\ [Next]_vars => SteadyInv'
<1> SUFFICES ASSUME TypeOK, EntriesInv, SteadyInv, [Next]_vars PROVE SteadyInv'
  OBVIOUS
<1>a. CASE Reboot
  <2>1. Init'
    BY <1>a DEF Reboot, Init
  <2> QED  BY <2>1, SteadyInit, PTL
<1>0. ASSUME ~Reboot, unseen' = unseen, steady' \subseteq steady, steady' \subseteq Holders',
             \A f \in steady' : sess'[f] = "open" => sess[f] = "open"
      PROVE  SteadyInv'
  <2>1. ASSUME unseen # {}, NEW f \in steady', sess'[f] = "open"
        PROVE  \E c \in unseen : slot'[c[1]][c[2]] = f
    <3>1. PICK c \in unseen : slot[c[1]][c[2]] = f
      BY <1>0, <2>1 DEF SteadyInv
    <3>2. c[1] \in Devices /\ c[2] \in Indices /\ f \in Fds
      BY <1>0 DEF TypeOK, WatchedCells
    <3>3. slot'[c[1]][c[2]] = f
      BY <1>0, <2>1, <3>1, <3>2, EntryStays
    <3> QED  BY <3>3
  <2> QED  BY <1>0, <2>1 DEF SteadyInv
<1>b. ASSUME ~Reboot PROVE SteadyInv'
  <2>0. steady \subseteq Fds /\ steady \subseteq Holders
    BY DEF TypeOK, SteadyInv
  <2>1. ASSUME NEW fd \in Fds, OpenSession(fd) PROVE SteadyInv'
    BY <1>0, <1>b, <2>0, <2>1 DEF OpenSession, Holders, TypeOK
  <2>2. ASSUME NEW fd \in Fds, NEW e \in Uris, RequestUri(fd, e) PROVE SteadyInv'
    BY <1>0, <1>b, <2>0, <2>2 DEF RequestUri, Holders
  <2>3. ASSUME NEW fd \in Fds, CloseFrame(fd) \/ DropSession(fd) PROVE SteadyInv'
    BY <1>0, <1>b, <2>0, <2>3 DEF CloseFrame, DropSession, Holders, TypeOK
  <2>4. ASSUME NEW fd \in Fds, CloseFd(fd) PROVE SteadyInv'
    BY <1>0, <1>b, <2>0, <2>4 DEF CloseFd, Holders, TypeOK
  <2>5. CASE Broadcast \/ UNCHANGED vars
    <3>1. unseen' = unseen /\ steady' = steady
      BY <2>5 DEF Broadcast, StartBroadcast, ReadEntry, SendFrame, EndBroadcast, vars
    <3>2. sess' = sess
      BY <2>5, OtherSteps
    <3> QED  BY <1>0, <1>b, <2>0, <3>1, <3>2 DEF Holders
  <2>6. CASE WatchdogWakes
    <3>1. \A f \in Registered : \E c \in WatchedCells : slot[c[1]][c[2]] = f
      BY AllAreWatched DEF Registered
    <3> QED  BY <2>6, <3>1 DEF WatchdogWakes, SteadyInv, Holders, Registered
  <2>7. CASE WatchdogLooks
    <3> DEFINE c == FirstCell(unseen, WatchRank)
    <3>1. slot' = slot /\ sess' = sess /\ steady' = steady /\ unseen # {}
      BY <2>7 DEF WatchdogLooks
    <3>2. (steady \subseteq Holders)'
      BY <2>0, <3>1 DEF Holders
    <3>3. CASE slot[c[1]][c[2]] # NoFd
      BY <2>7, <3>2, <3>3 DEF WatchdogLooks, SteadyInv
    <3>4. CASE slot[c[1]][c[2]] = NoFd
      <4>1. unseen' = unseen \ {c}
        BY <2>7, <3>4 DEF WatchdogLooks
      <4>2. ASSUME NEW f \in steady, sess[f] = "open"
            PROVE  \E e \in unseen \ {c} : slot[e[1]][e[2]] = f
        <5>1. PICK e \in unseen : slot[e[1]][e[2]] = f
          BY <3>1, <4>2 DEF SteadyInv
        <5>2. f # NoFd
          BY <2>0
        <5>3. e # c
          BY <3>4, <5>1, <5>2
        <5> QED  BY <5>1, <5>3
      <4> HIDE DEF c
      <4> QED  BY <3>1, <3>2, <4>1, <4>2 DEF SteadyInv
    <3> QED  BY <3>3, <3>4
  <2>8. CASE DailyRestart
    BY <2>0, <2>8 DEF DailyRestart, SteadyInv, Holders
  <2> QED
    BY <1>b, <2>1, <2>2, <2>3, <2>4, <2>5, <2>6, <2>7, <2>8 DEF Next, Httpd, Watchdog
<1> QED  BY <1>a, <1>b

\* The restart begins at an empty cell that is the last: a session that was there
\* all along would have an entry among those not looked at.
LEMMA SparesSteady ==
    TypeOK /\ SteadyInv /\ [Next]_vars
        => [WatchdogLooks /\ rebooting' => \A fd \in steady : sess[fd] # "open"]_vars
<1> SUFFICES ASSUME TypeOK, SteadyInv, WatchdogLooks, rebooting',
                    NEW fd \in steady, sess[fd] = "open"
             PROVE  FALSE
  OBVIOUS
<1> DEFINE c == FirstCell(unseen, WatchRank)
<1>1. unseen = {c} /\ slot[c[1]][c[2]] = NoFd
  BY DEF WatchdogLooks
<1>2. PICK e \in unseen : slot[e[1]][e[2]] = fd
  BY <1>1 DEF SteadyInv
<1>3. e = c
  BY <1>1, <1>2
<1>4. fd # NoFd
  BY DEF TypeOK
<1> QED  BY <1>1, <1>2, <1>3, <1>4

\* The watchdog never restarts the gateway while a session that was registered
\* when it woke is still open.
THEOREM WatchdogIsPatient == Spec => WatchdogSparesSteadyClients
<1>1. Spec => [](TypeOK /\ Reading /\ EntriesInv /\ SteadyInv)
  BY TypeInit, TypeStep, EntriesInit, EntriesStep, SteadyInit, SteadyStep, PTL DEF Spec
<1> QED  BY <1>1, SparesSteady, PTL DEF Spec, WatchdogSparesSteadyClients

=============================================================================
