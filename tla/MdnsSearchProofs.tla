-------------------------- MODULE MdnsSearchProofs --------------------------
(***************************************************************************)
(* That a search whose caller may free it has left the list and the queue, *)
(* for any number of searches, hosts and questions and every length of the *)
(* action queue, provided that every answer is read to its end (WholeOnly). *)
(***************************************************************************)
EXTENDS MdnsSearch, TLAPS, SequenceTheorems, FiniteSetTheorems

USE SearchAssumption

-----------------------------------------------------------------------------
(* What is in a queue, and in it once.                                       *)

In(q, x) == \E i \in DOMAIN q : q[i] = x

Once(q, x) == \A i, j \in DOMAIN q : q[i] = x /\ q[j] = x => i = j

\* Appending adds one element, and it is there once if it was not there before.
LEMMA AppendIn ==
    ASSUME NEW T, NEW q \in Seq(T), NEW x \in T, NEW y
    PROVE  /\ In(Append(q, x), y) <=> In(q, y) \/ x = y
           /\ Once(q, y) /\ (x = y => ~In(q, y)) => Once(Append(q, x), y)
<1>1. /\ Len(q) \in Nat /\ DOMAIN q = 1..Len(q)
      /\ DOMAIN Append(q, x) = 1..Len(q) + 1
      /\ \A i \in 1..Len(q) : Append(q, x)[i] = q[i]
      /\ Append(q, x)[Len(q) + 1] = x
  BY AppendProperties, LenProperties
<1>2. \A i \in 1..Len(q) + 1 : i \in 1..Len(q) \/ i = Len(q) + 1
  BY <1>1
<1>3. 1..Len(q) \subseteq 1..Len(q) + 1 /\ Len(q) + 1 \in 1..Len(q) + 1
  BY <1>1
<1> HIDE DEF In
<1>4. In(Append(q, x), y) <=> In(q, y) \/ x = y
  BY <1>1, <1>2, <1>3 DEF In
<1>5. ASSUME Once(q, y), x = y => ~In(q, y) PROVE Once(Append(q, x), y)
  BY <1>1, <1>2, <1>5 DEF In, Once
<1> QED
  BY <1>4, <1>5

\* Taking the head off leaves what was there, and of what was there once not the head.
LEMMA TailIn ==
    ASSUME NEW T, NEW q \in Seq(T), q # <<>>, NEW y
    PROVE  /\ In(q, Head(q))
           /\ In(Tail(q), y) => In(q, y)
           /\ Once(q, y) => Once(Tail(q), y)
           /\ Once(q, y) /\ Head(q) = y => ~In(Tail(q), y)
<1>1. /\ Len(q) \in Nat \ {0} /\ DOMAIN q = 1..Len(q) /\ Head(q) = q[1]
      /\ Tail(q) \in Seq(T) /\ Len(Tail(q)) = Len(q) - 1
      /\ \A i \in 1..Len(Tail(q)) : Tail(q)[i] = q[i + 1]
  BY HeadTailProperties, LenProperties, EmptySeq
<1>2. DOMAIN Tail(q) = 1..Len(q) - 1
  BY <1>1, LenProperties
<1>3. \A i \in 1..Len(q) - 1 : i \in Nat /\ i + 1 \in 1..Len(q) /\ i + 1 # 1
  BY <1>1
<1>4. 1 \in 1..Len(q)
  BY <1>1
<1> QED
  BY <1>1, <1>2, <1>3, <1>4 DEF In, Once
-----------------------------------------------------------------------------
(* Types.                                                                    *)

Messages == SearchActions \cup Answers

\* Actions about searches and answers are what the queue holds.
LEMMA MessageFields ==
    ASSUME NEW m \in Messages
    PROVE  /\ m.type \in {"add", "send", "end"} => m.search \in Searches /\ m = Act(m.type, m.search)
           /\ m.type = "rx" => m.question \in Questions /\ m.host \in Hosts /\ m.whole \in BOOLEAN
  BY DEF Messages, SearchActions, Answers, Act, Answer

\* The head of a queue is a message, and its tail a queue.
LEMMA TakeType ==
    ASSUME queue \in Seq(Messages), NEW type, Take(type)
    PROVE  /\ queue # <<>> /\ Head(queue) \in Messages /\ Head(queue).type = type
           /\ queue' = Tail(queue) /\ queue' \in Seq(Messages)
  BY HeadTailProperties DEF Take

(* Every variable stays in its domain.                                       *)
LEMMA TypeStep == TypeOK /\ [Next]_vars => TypeOK'
<1> SUFFICES ASSUME TypeOK, [Next]_vars PROVE TypeOK'
  OBVIOUS
<1>0. queue \in Seq(Messages)
  BY DEF TypeOK, Messages
<1>1. \A m \in Messages : Append(queue, m) \in Seq(Messages)
  BY <1>0, AppendProperties
<1>2. \A s \in Searches, t \in {"add", "send", "end"} : Act(t, s) \in Messages
  BY DEF Messages, SearchActions
<1>3. ASSUME NEW s \in Searches, NEW asked \in Questions, Query(s, asked) PROVE TypeOK'
  BY <1>1, <1>2, <1>3 DEF Query, TypeOK, Messages
<1>4. ASSUME NEW s \in Searches, QueryReturns(s) \/ AsyncGetResults(s) \/ AsyncDelete(s)
      PROVE  TypeOK'
  <2>1. CASE QueryReturns(s)
    BY <2>1 DEF QueryReturns, Free, TypeOK
  <2>2. CASE AsyncGetResults(s)
    BY <2>2 DEF AsyncGetResults, TypeOK
  <2>3. CASE AsyncDelete(s)
    BY <2>3 DEF AsyncDelete, Free, TypeOK
  <2> QED
    BY <1>4, <2>1, <2>2, <2>3
<1>5. ASSUME NEW s \in Searches, SecondPasses(s) \/ TimeIsUp(s) PROVE TypeOK'
  <2>1. CASE SecondPasses(s)
    BY <2>1 DEF SecondPasses, TypeOK
  <2>2. CASE TimeIsUp(s)
    BY <2>2 DEF TimeIsUp, TypeOK
  <2> QED
    BY <1>5, <2>1, <2>2
<1>6. ASSUME NEW s \in Searches, SearchTimeout(s) PROVE TypeOK'
  BY <1>1, <1>2, <1>6 DEF SearchTimeout, TypeOK, Messages
<1>7. ASSUME NEW s \in Searches, SearchRepeat(s) PROVE TypeOK'
  BY <1>1, <1>2, <1>7 DEF SearchRepeat, TypeOK, Messages
<1>8. ASSUME NEW s \in Searches, SearchTimeoutRefused(s) \/ SearchRepeatRefused(s) PROVE TypeOK'
  <2>1. CASE SearchTimeoutRefused(s)
    BY <2>1 DEF SearchTimeoutRefused, TypeOK
  <2>2. CASE SearchRepeatRefused(s)
    BY <2>2 DEF SearchRepeatRefused, TypeOK
  <2> QED
    BY <1>8, <2>1, <2>2
<1>9. CASE SearchAdd
  <2>1. queue' \in Seq(Messages) /\ Subject \in Searches
    BY <1>0, <1>9, TakeType, MessageFields DEF SearchAdd, Subject
  <2> QED
    BY <1>9, <2>1 DEF SearchAdd, TypeOK, Messages
<1>10. CASE SearchSend
  <2>1. queue' \in Seq(Messages)
    BY <1>0, <1>10, TakeType DEF SearchSend
  <2> QED
    BY <1>10, <2>1 DEF SearchSend, TypeOK, Messages
<1>11. CASE SearchEnd
  <2>1. queue' \in Seq(Messages)
    BY <1>0, <1>11, TakeType DEF SearchEnd
  <2> QED
    BY <1>11, <2>1 DEF SearchEnd, Finish, TypeOK, Messages
<1>12. CASE ParsePacket
  <2>1. queue' \in Seq(Messages) /\ Head(queue).host \in Hosts
    BY <1>0, <1>12, TakeType, MessageFields DEF ParsePacket
  <2>2. results' \in [Searches -> SUBSET Hosts]
    BY <1>12, <2>1 DEF ParsePacket, ResultAdd, TypeOK
  <2>3. active' \in SUBSET Searches /\ state' \in [Searches -> {"free", "init", "running", "off"}]
    BY <1>12 DEF ParsePacket, Finish, TypeOK
  <2>4. done' \in [Searches -> BOOLEAN]
    BY <1>12 DEF ParsePacket, Finish, TypeOK
  <2> QED
    BY <1>12, <2>1, <2>2, <2>3, <2>4 DEF ParsePacket, TypeOK, Messages
<1>13. ASSUME NEW a \in Answers, Receive(a) PROVE TypeOK'
  BY <1>1, <1>13 DEF Receive, TypeOK, Messages
<1>14. CASE UNCHANGED vars
  BY <1>14 DEF vars, TypeOK
<1> QED
  BY <1>3, <1>4, <1>5, <1>6, <1>7, <1>8, <1>9, <1>10, <1>11, <1>12, <1>13, <1>14 DEF Next

(* Every variable of the searches stays in its domain.                        *)
THEOREM SearchTypes == Spec => []TypeOK
<1>1. Init => TypeOK
  BY EmptySeq DEF Init, TypeOK
<1> QED
  BY <1>1, TypeStep, PTL DEF Spec
-----------------------------------------------------------------------------
(* The life of a search: posted once with ADD, in the list, off and posted once  *)
(* with END, gone. Only the first search of a block of memory that is gone has   *)
(* actions in the queue that may name it, and those are SEND.                    *)

Gone(s) == state[s] = "free" \/ done[s] \/ caller[s] = "served"

Adding(s) == In(queue, Act("add", s))
Ending(s) == In(queue, Act("end", s))

\* What holds of one search: it is gone, or on its way into the list, or in it; only in
\* the list may its end be on its way, and then it is off and its time was over.
Stage(s) ==
    /\ Gone(s) => s \notin active /\ ~Adding(s) /\ ~Ending(s)
    /\ Adding(s) => s \notin active
    /\ Ending(s) => s \in active /\ state[s] = "off" /\ expired[s]
    /\ Once(queue, Act("add", s)) /\ Once(queue, Act("end", s))
    /\ s \in active \/ Adding(s) => ~Full(s, results)

SearchInv ==
    /\ \A s \in Searches : Stage(s)
    /\ WholeOnly => \A a \in Answers : In(queue, a) => a.whole

\* Actions are told apart by their type and search, and are no answers.
LEMMA ActsDiffer ==
    /\ \A t, u, r, s : Act(t, r) = Act(u, s) <=> t = u /\ r = s
    /\ \A a \in Answers, t \in {"add", "send", "end"} : \A s : a # Act(t, s)
<1>1. \A t, u, r, s : Act(t, r) = Act(u, s) <=> t = u /\ r = s
  BY DEF Act
<1>2. \A a \in Answers, t \in {"add", "send", "end"} : \A s : a # Act(t, s)
  BY DEF Act, Answers, Answer
<1> QED
  BY <1>1, <1>2

\* A search of which nothing changes, and for which nothing is posted, stays in its stage.
LEMMA StageFrame ==
    ASSUME NEW s \in Searches, Stage(s),
           state'[s] = state[s], done'[s] = done[s], caller'[s] = caller[s],
           expired'[s] = expired[s], results'[s] = results[s], s \in active' <=> s \in active,
           Adding(s)' => Adding(s), Ending(s)' => Ending(s),
           Once(queue, Act("add", s)) => Once(queue', Act("add", s)),
           Once(queue, Act("end", s)) => Once(queue', Act("end", s))
    PROVE  Stage(s)'
  BY DEF Stage, Gone, Full

\* Steps that leave the queue alone.
LEMMA QueueSame ==
    ASSUME queue' = queue
    PROVE  \A x : (In(queue', x) <=> In(queue, x)) /\ (Once(queue', x) <=> Once(queue, x))
  BY DEF In, Once

\* Posting adds one message; what is appended is there once if it was not there before.
LEMMA Post ==
    ASSUME TypeOK, NEW m \in Messages, queue' = Append(queue, m)
    PROVE  \A x : /\ In(queue', x) <=> In(queue, x) \/ m = x
                  /\ Once(queue, x) /\ (m = x => ~In(queue, x)) => Once(queue', x)
<1>1. queue \in Seq(Messages)
  BY DEF TypeOK, Messages
<1> QED
  BY <1>1, AppendIn

\* Taking the head off, which was there once, leaves the rest.
LEMMA TakeOff ==
    ASSUME TypeOK, NEW type, Take(type)
    PROVE  /\ In(queue, Head(queue))
           /\ \A x : /\ In(queue', x) => In(queue, x)
                     /\ Once(queue, x) => Once(queue', x)
                     /\ Once(queue, x) /\ Head(queue) = x => ~In(queue', x)
  BY TailIn DEF TypeOK, Messages, Take

\* A new search is empty, so it lacks nothing it wanted yet.
LEMMA EmptyIsNotFull ==
    ASSUME NEW s \in Searches, NEW found, found[s] = {}
    PROVE  ~Full(s, found)
  BY FS_EmptySet DEF Full

\* The caller's steps.
LEMMA CallerStep ==
    ASSUME TypeOK, SearchInv, NEW s \in Searches,
           \/ \E asked \in Questions : Query(s, asked)
           \/ QueryReturns(s) \/ AsyncGetResults(s) \/ AsyncDelete(s)
    PROVE  SearchInv'
<1>1. CASE \E asked \in Questions : Query(s, asked)
  <2>1. /\ state[s] = "free" /\ queue' = Append(queue, Act("add", s)) /\ active' = active
        /\ results' = [results EXCEPT ![s] = {}] /\ done' = [done EXCEPT ![s] = FALSE]
        /\ caller' = [caller EXCEPT ![s] = "waiting"] /\ state' = [state EXCEPT ![s] = "init"]
        /\ expired' = [expired EXCEPT ![s] = FALSE]
    BY <1>1 DEF Query
  <2>2. Act("add", s) \in Messages
    BY DEF Messages, SearchActions
  <2>3. \A x : /\ In(queue', x) <=> In(queue, x) \/ Act("add", s) = x
               /\ Once(queue, x) /\ (Act("add", s) = x => ~In(queue, x)) => Once(queue', x)
    BY <2>1, <2>2, Post
  <2>4. Stage(s) /\ Gone(s)
    BY <2>1 DEF SearchInv, Gone
  <2>5. Stage(s)'
    <3>1. ~Full(s, results')
      BY <2>1, EmptyIsNotFull DEF TypeOK
    <3>2. s \notin active' /\ ~Ending(s)' /\ ~Gone(s)'
      BY <2>1, <2>3, <2>4, ActsDiffer DEF Stage, Gone, Ending, TypeOK
    <3>3. Once(queue', Act("add", s)) /\ Once(queue', Act("end", s))
      BY <2>3, <2>4, ActsDiffer DEF Stage, Adding
    <3> QED
      BY <3>1, <3>2, <3>3 DEF Stage, Full
  <2>6. ASSUME NEW r \in Searches \ {s} PROVE Stage(r)'
    <3>1. /\ Adding(r)' => Adding(r)
          /\ Ending(r)' => Ending(r)
          /\ Once(queue, Act("add", r)) => Once(queue', Act("add", r))
          /\ Once(queue, Act("end", r)) => Once(queue', Act("end", r))
      BY <2>3, ActsDiffer DEF Adding, Ending
    <3> QED
      BY <2>1, <3>1, StageFrame DEF SearchInv, TypeOK
  <2>7. \A a \in Answers : In(queue', a) => In(queue, a)
    BY <2>3, ActsDiffer
  <2> QED
    BY <2>5, <2>6, <2>7 DEF SearchInv
<1>2. CASE QueryReturns(s) \/ AsyncGetResults(s) \/ AsyncDelete(s)
  <2>1. /\ queue' = queue /\ active' = active /\ results' = results /\ expired' = expired
        /\ Gone(s)
        /\ \A r \in Searches \ {s} : /\ state'[r] = state[r] /\ done'[r] = done[r]
                                     /\ caller'[r] = caller[r]
    BY <1>2 DEF QueryReturns, AsyncGetResults, AsyncDelete, Free, Gone, TypeOK
  <2>2. \A x : (In(queue', x) <=> In(queue, x)) /\ (Once(queue', x) <=> Once(queue, x))
    BY <2>1, QueueSame
  <2>3. Stage(s)'
    <3>1. ~Adding(s)' /\ ~Ending(s)' /\ s \notin active'
      BY <2>1, <2>2 DEF SearchInv, Stage, Adding, Ending
    <3> QED
      BY <2>2, <3>1 DEF SearchInv, Stage
  <2>4. ASSUME NEW r \in Searches \ {s} PROVE Stage(r)'
    BY <2>1, <2>2, StageFrame DEF SearchInv, Adding, Ending
  <2> QED
    BY <2>2, <2>3, <2>4 DEF SearchInv
<1> QED
  BY <1>1, <1>2

\* The clock and the timer's visits: only the visit of a search whose time is over posts
\* its end, and it turns it off.
LEMMA TimerStep ==
    ASSUME TypeOK, SearchInv, NEW s \in Searches,
           \/ SecondPasses(s) \/ TimeIsUp(s)
           \/ SearchTimeout(s) \/ SearchTimeoutRefused(s)
           \/ SearchRepeat(s) \/ SearchRepeatRefused(s)
    PROVE  SearchInv'
<1>1. /\ active' = active /\ results' = results /\ done' = done /\ caller' = caller
      /\ \A r \in Searches \ {s} : state'[r] = state[r] /\ expired'[r] = expired[r]
      /\ state'[s] = "free" => state[s] = "free"
      /\ expired[s] => expired'[s]
  BY DEF SecondPasses, TimeIsUp, SearchTimeout, SearchTimeoutRefused, SearchRepeat,
         SearchRepeatRefused, TypeOK, Visit
<1>2. \A r \in Searches : Stage(r)
  BY DEF SearchInv
<1>3. CASE SearchTimeout(s)
  <2>1. /\ queue' = Append(queue, Act("end", s)) /\ Act("end", s) \in Messages
        /\ s \in active /\ state[s] # "off" /\ expired'[s] /\ state'[s] = "off"
    BY <1>3 DEF SearchTimeout, Visit, Messages, SearchActions, TypeOK
  <2>2. \A x : /\ In(queue', x) <=> In(queue, x) \/ Act("end", s) = x
               /\ Once(queue, x) /\ (Act("end", s) = x => ~In(queue, x)) => Once(queue', x)
    BY <2>1, Post
  <2>3. ~Ending(s) /\ ~Adding(s)
    BY <1>2, <2>1 DEF Stage
  <2>4. Stage(s)'
    <3>1. ~Gone(s)' /\ ~Adding(s)'
      BY <1>1, <1>2, <2>1, <2>2, <2>3, ActsDiffer DEF Stage, Gone, Adding
    <3>2. Once(queue', Act("add", s)) /\ Once(queue', Act("end", s))
      BY <1>2, <2>2, <2>3, ActsDiffer DEF Stage, Ending
    <3>3. ~Full(s, results')
      BY <1>1, <1>2, <2>1 DEF Stage
    <3> QED
      BY <1>1, <2>1, <3>1, <3>2, <3>3 DEF Stage, Full
  <2>5. ASSUME NEW r \in Searches \ {s} PROVE Stage(r)'
    <3>1. /\ Adding(r)' => Adding(r)
          /\ Ending(r)' => Ending(r)
          /\ Once(queue, Act("add", r)) => Once(queue', Act("add", r))
          /\ Once(queue, Act("end", r)) => Once(queue', Act("end", r))
      BY <2>2, ActsDiffer DEF Adding, Ending
    <3> QED
      BY <1>1, <1>2, <3>1, StageFrame
  <2>6. \A a \in Answers : In(queue', a) => In(queue, a)
    BY <2>2, ActsDiffer
  <2> QED
    BY <2>4, <2>5, <2>6 DEF SearchInv
<1>4. CASE ~SearchTimeout(s)
  <2>1. /\ \/ queue' = queue
           \/ queue' = Append(queue, Act("send", s))
        /\ Act("send", s) \in Messages
        /\ state[s] = "off" => state'[s] = "off"
    BY <1>4 DEF SecondPasses, TimeIsUp, SearchTimeoutRefused, SearchRepeat,
                SearchRepeatRefused, TypeOK, Visit, Messages, SearchActions
  <2>2. \A x : /\ In(queue, x) => In(queue', x)
               /\ In(queue', x) => In(queue, x) \/ Act("send", s) = x
               /\ Once(queue, x) /\ Act("send", s) # x => Once(queue', x)
    BY <2>1, Post, QueueSame
  <2>3. ASSUME NEW r \in Searches
        PROVE  /\ Adding(r)' <=> Adding(r)
               /\ Ending(r)' <=> Ending(r)
               /\ Once(queue, Act("add", r)) => Once(queue', Act("add", r))
               /\ Once(queue, Act("end", r)) => Once(queue', Act("end", r))
    BY <2>2, ActsDiffer DEF Adding, Ending
  <2>4. Stage(s)'
    BY <1>1, <1>2, <2>1, <2>3 DEF Stage, Gone, Full
  <2>5. ASSUME NEW r \in Searches \ {s} PROVE Stage(r)'
    BY <1>1, <1>2, <2>3, StageFrame
  <2>6. \A a \in Answers : In(queue', a) => In(queue, a)
    BY <2>2, ActsDiffer
  <2> QED
    BY <2>4, <2>5, <2>6 DEF SearchInv
<1> QED
  BY <1>3, <1>4

\* The task's steps on actions: ADD moves its search from the queue into the list, END
\* from both to its caller.
LEMMA ActionStep ==
    ASSUME TypeOK, SearchInv, SearchAdd \/ SearchSend \/ SearchEnd
    PROVE  SearchInv' /\ (\A r \in Searches : ~done[r] /\ done'[r] => expired[r])
<1> DEFINE m == Head(queue)
<1>0. queue \in Seq(Messages)
  BY DEF TypeOK, Messages
<1>1. /\ m \in Messages /\ In(queue, m) /\ m.type \in {"add", "send", "end"}
      /\ \A x : /\ In(queue', x) => In(queue, x)
                /\ Once(queue, x) => Once(queue', x)
                /\ Once(queue, x) /\ m = x => ~In(queue', x)
  BY <1>0, TakeType, TakeOff DEF SearchAdd, SearchSend, SearchEnd
<1>2. PICK s \in Searches : m = Act(m.type, s) /\ s = Subject
  BY <1>1, MessageFields DEF Subject
<1> HIDE DEF m
<1>3. \A r \in Searches : Stage(r)
  BY DEF SearchInv
<1>4. ASSUME NEW r \in Searches
      PROVE  /\ Adding(r)' => Adding(r)
             /\ Ending(r)' => Ending(r)
             /\ Once(queue', Act("add", r)) /\ Once(queue', Act("end", r))
  BY <1>1, <1>3 DEF Adding, Ending, Stage
<1>5. WholeOnly => \A a \in Answers : In(queue', a) => a.whole
  BY <1>1 DEF SearchInv
<1>6. CASE SearchAdd
  <2>1. /\ m = Act("add", s) /\ active' = active \cup {s}
        /\ UNCHANGED <<state, results, expired, done, caller>>
    BY <1>2, <1>6 DEF SearchAdd, Take, m
  <2>2. Stage(s)'
    <3>1. Adding(s) /\ ~Adding(s)' /\ ~Ending(s)'
      BY <1>1, <1>3, <1>4, <2>1 DEF Adding, Stage
    <3> QED
      BY <1>3, <1>4, <2>1, <3>1 DEF Stage, Gone, Full
  <2>3. ASSUME NEW r \in Searches, r # s PROVE Stage(r)'
    BY <1>3, <1>4, <2>1, <2>3, StageFrame
  <2> QED
    BY <1>5, <2>1, <2>2, <2>3 DEF SearchInv
<1>7. CASE SearchSend
  <2>1. UNCHANGED <<state, results, expired, done, caller, active>>
    BY <1>7 DEF SearchSend
  <2>2. ASSUME NEW r \in Searches PROVE Stage(r)'
    BY <1>3, <1>4, <2>1, <2>2, StageFrame
  <2> QED
    BY <1>5, <2>1, <2>2 DEF SearchInv
<1>8. CASE SearchEnd
  <2>1. /\ m = Act("end", s) /\ active' = active \ {s}
        /\ UNCHANGED <<results, expired, caller>>
        /\ state' = [r \in Searches |-> IF r = s THEN "off" ELSE state[r]]
        /\ done' = [r \in Searches |-> done[r] \/ r = s]
    BY <1>2, <1>8 DEF SearchEnd, Finish, Take, m
  <2>2. Ending(s) /\ ~Ending(s)' /\ expired[s] /\ ~Adding(s)'
    BY <1>1, <1>3, <1>4, <2>1 DEF Ending, Stage
  <2>3. Stage(s)'
    BY <1>4, <2>1, <2>2 DEF Stage
  <2>4. ASSUME NEW r \in Searches, r # s PROVE Stage(r)'
    BY <1>3, <1>4, <2>1, <2>4, StageFrame DEF TypeOK
  <2> QED
    BY <1>5, <2>1, <2>2, <2>3, <2>4 DEF SearchInv
<1> QED
  BY <1>6, <1>7, <1>8

\* An answer read to its end finishes the searches that have all they wanted; a search
\* that is off already takes no more results, so the end on its way will find it.
LEMMA ParseStep ==
    ASSUME TypeOK, SearchInv, WholeOnly, ParsePacket
    PROVE  SearchInv' /\ (\A r \in Searches : ~done[r] /\ done'[r] => Full(r, results'))
<1> DEFINE m == Head(queue)
<1>0. queue \in Seq(Messages)
  BY DEF TypeOK, Messages
<1>1. /\ m \in Messages /\ In(queue, m) /\ m.type = "rx"
      /\ \A x : /\ In(queue', x) => In(queue, x)
                /\ Once(queue, x) => Once(queue', x)
  BY <1>0, TakeType, TakeOff DEF ParsePacket
<1>2. m \in Answers /\ m.whole
  BY <1>1 DEF Messages, SearchActions, Act, SearchInv
<1> DEFINE over == {s \in active : Full(s, results')}
<1>3. PICK S \in FindFrom(m.question) :
          /\ results' = ResultAdd(S, m.host)
          /\ Finish(over)
          /\ UNCHANGED <<expired, caller>>
  BY <1>2 DEF ParsePacket
<1>4. S \subseteq Asking(m.question)
  BY <1>3 DEF FindFrom
<1> HIDE DEF m
<1>5. /\ active' = active \ over
      /\ state' = [s \in Searches |-> IF s \in over THEN "off" ELSE state[s]]
      /\ done' = [s \in Searches |-> done[s] \/ s \in over]
  BY <1>3 DEF Finish
<1>6. ASSUME NEW r \in Searches, r \notin active \/ state[r] = "off"
      PROVE  results'[r] = results[r]
  BY <1>3, <1>4, <1>6 DEF ResultAdd, Asking, TypeOK
<1>7. ASSUME NEW r \in Searches
      PROVE  /\ Stage(r)
             /\ Adding(r)' => Adding(r)
             /\ Ending(r)' => Ending(r)
             /\ Once(queue', Act("add", r)) /\ Once(queue', Act("end", r))
  BY <1>1 DEF Adding, Ending, Stage, SearchInv
<1>8. ASSUME NEW r \in Searches, r \in over PROVE Stage(r)' /\ Full(r, results')
  <2>1. r \in active /\ Full(r, results')
    BY <1>8
  <2>2. ~Adding(r)
    BY <1>7, <2>1 DEF Stage
  <2>3. ~Ending(r)
    <3>1. SUFFICES ASSUME Ending(r) PROVE FALSE
      OBVIOUS
    <3>2. results'[r] = results[r] /\ ~Full(r, results)
      BY <1>6, <1>7, <2>1, <3>1 DEF Stage
    <3> QED
      BY <2>1, <3>2 DEF Full
  <2> QED
    BY <1>5, <1>7, <1>8, <2>1, <2>2, <2>3 DEF Stage
<1>9. ASSUME NEW r \in Searches, r \notin over PROVE Stage(r)'
  <2>1. /\ state'[r] = state[r] /\ done'[r] = done[r] /\ caller'[r] = caller[r]
        /\ expired'[r] = expired[r]
        /\ r \in active' <=> r \in active
    BY <1>3, <1>5, <1>9 DEF TypeOK
  <2>2. CASE r \in active
    <3>1. ~Full(r, results)'
      BY <1>9, <2>2 DEF Full
    <3> QED
      BY <1>7, <2>1, <2>2, <3>1 DEF Stage, Gone
  <2>3. CASE r \notin active
    BY <1>6, <1>7, <2>1, <2>3, StageFrame
  <2> QED
    BY <2>2, <2>3
<1>10. \A a \in Answers : In(queue', a) => a.whole
  BY <1>1 DEF SearchInv
<1>11. \A r \in Searches : ~done[r] /\ done'[r] => r \in over
  BY <1>5
<1> HIDE DEF over
<1> QED
  BY <1>8, <1>9, <1>10, <1>11 DEF SearchInv

\* A packet from the network.
LEMMA ReceiveStep ==
    ASSUME TypeOK, SearchInv, NEW a \in Answers, Receive(a)
    PROVE  SearchInv'
<1>1. queue' = Append(queue, a) /\ a \in Messages /\ (WholeOnly => a.whole)
  BY DEF Receive, Messages
<1>2. \A x : /\ In(queue', x) <=> In(queue, x) \/ a = x
             /\ Once(queue, x) /\ (a = x => ~In(queue, x)) => Once(queue', x)
  BY <1>1, Post
<1>3. ASSUME NEW r \in Searches PROVE Stage(r)'
  <2>1. /\ Adding(r)' => Adding(r)
        /\ Ending(r)' => Ending(r)
        /\ Once(queue, Act("add", r)) => Once(queue', Act("add", r))
        /\ Once(queue, Act("end", r)) => Once(queue', Act("end", r))
    BY <1>2, ActsDiffer DEF Adding, Ending
  <2> QED
    BY <2>1, StageFrame DEF SearchInv, Receive
<1> QED
  BY <1>1, <1>2, <1>3 DEF SearchInv

\* Every step preserves the invariant, and tells a caller only for a reason.
LEMMA SearchStep ==
    ASSUME WholeOnly, TypeOK, SearchInv, [Next]_vars
    PROVE  /\ SearchInv'
           /\ \A s \in Searches : ~done[s] /\ done'[s] => expired[s] \/ Full(s, results')
<1>1. ASSUME NEW s \in Searches,
             \/ \E asked \in Questions : Query(s, asked)
             \/ QueryReturns(s) \/ AsyncGetResults(s) \/ AsyncDelete(s)
      PROVE  SearchInv' /\ (\A r \in Searches : done'[r] => done[r])
  <2>1. SearchInv'
    BY <1>1, CallerStep
  <2>2. \A r \in Searches : done'[r] => done[r]
    BY <1>1 DEF Query, QueryReturns, AsyncGetResults, AsyncDelete, TypeOK
  <2> QED
    BY <2>1, <2>2
<1>2. ASSUME NEW s \in Searches,
             \/ SecondPasses(s) \/ TimeIsUp(s)
             \/ SearchTimeout(s) \/ SearchTimeoutRefused(s)
             \/ SearchRepeat(s) \/ SearchRepeatRefused(s)
      PROVE  SearchInv' /\ done' = done
  <2>1. SearchInv'
    BY <1>2, TimerStep
  <2>2. done' = done
    BY <1>2 DEF SecondPasses, TimeIsUp, SearchTimeout, SearchTimeoutRefused, SearchRepeat,
                SearchRepeatRefused
  <2> QED
    BY <2>1, <2>2
<1>3. CASE SearchAdd \/ SearchSend \/ SearchEnd
  BY <1>3, ActionStep
<1>4. CASE ParsePacket
  BY <1>4, ParseStep
<1>5. ASSUME NEW a \in Answers, Receive(a) PROVE SearchInv' /\ done' = done
  BY <1>5, ReceiveStep DEF Receive
<1>6. CASE UNCHANGED vars
  <2>1. /\ UNCHANGED <<state, results, expired, active, queue, done, caller>>
    BY <1>6 DEF vars
  <2>2. ASSUME NEW r \in Searches PROVE Stage(r)'
    BY <2>1, QueueSame, StageFrame DEF SearchInv, Adding, Ending
  <2> QED
    BY <2>1, <2>2 DEF SearchInv, In
<1> QED
  BY <1>1, <1>2, <1>3, <1>4, <1>5, <1>6 DEF Next

\* The searches of the beginning are all free.
LEMMA SearchInit == Init => SearchInv
<1> SUFFICES ASSUME Init PROVE SearchInv
  OBVIOUS
<1>1. queue = <<>> /\ active = {} /\ (\A x : ~In(queue, x) /\ Once(queue, x))
  BY EmptySeq DEF Init, In, Once
<1> QED
  BY <1>1 DEF SearchInv, Stage, Adding, Ending

\* The invariant holds as long as answers are read to their ends.
LEMMA SearchAlways == ASSUME WholeOnly PROVE Spec => []SearchInv
  BY SearchInit, SearchStep, SearchTypes, PTL DEF Spec
-----------------------------------------------------------------------------
(* Once mdns_query may free its search, neither the list nor an action that      *)
(* would write to it leads to it, however the timer's ends, the answers and the   *)
(* callers' next searches in the same memory interleave.                        *)
THEOREM FreedIsLetGo == ASSUME WholeOnly PROVE Spec => []FinishedIsLetGo
<1>1. SearchInv => FinishedIsLetGo
  BY DEF SearchInv, Stage, Gone, Adding, Ending, In, FinishedIsLetGo, Pending
<1> QED
  BY <1>1, SearchAlways, PTL

(* ACTION_SEARCH_END finds the search it names in the list: answers parsed         *)
(* between the timer's post and its execution do not finish the search first.     *)
THEOREM EndIsInTime == ASSUME WholeOnly PROVE Spec => []EndFindsItsSearch
<1>1. TypeOK /\ SearchInv => EndFindsItsSearch
  <2> SUFFICES ASSUME TypeOK, SearchInv, NEW i \in DOMAIN queue, queue[i].type = "end"
               PROVE  /\ queue[i].search \in active
                      /\ \A j \in DOMAIN queue : queue[j] = queue[i] => j = i
    BY DEF EndFindsItsSearch
  <2>1. queue[i] \in Messages
    BY LenProperties, ElementOfSeq DEF TypeOK, Messages
  <2>2. queue[i].search \in Searches /\ queue[i] = Act("end", queue[i].search)
    BY <2>1, MessageFields
  <2> QED
    BY <2>2 DEF SearchInv, Stage, Ending, In, Once
<1> QED
  BY <1>1, SearchAlways, SearchTypes, PTL

(* A caller is told that its search is over when its time is over or it has all    *)
(* the results it wanted, never for the sake of an earlier owner of its memory.   *)
THEOREM ToldForAReason == ASSUME WholeOnly PROVE Spec => OverForAReason
<1>1. TypeOK /\ SearchInv /\ [Next]_vars
        => [\A s \in Searches : ~done[s] /\ done'[s] => expired[s] \/ Full(s, results')]_vars
  BY SearchStep
<1> QED
  BY <1>1, SearchAlways, SearchTypes, PTL DEF Spec, OverForAReason

-----------------------------------------------------------------------------
=============================================================================
