--------------------------- MODULE ObsLink_proofs ---------------------------
(***************************************************************************)
(* Proofs about the link to OBS, for any bound on the queue and any number  *)
(* of presses: OBS acts on a press at most once, and in the order in which  *)
(* the key was pressed, whatever is lost on the way.                        *)
(*                                                                          *)
(* The presses are in order everywhere along the way: what OBS has done is  *)
(* before what is on the wire, that is before what is left of the batch, and *)
(* that is before what waits in the queue.                                  *)
(***************************************************************************)
EXTENDS ObsLink, SequenceTheorems, TLAPS

\* The presses in s are in order, and each is there once.
Ordered(s) ==
  \A i, j \in DOMAIN s :
    i < j /\ s[i].ask = "toggle" /\ s[j].ask = "toggle" => s[i].id < s[j].id

\* Every press in s is older than every press in t.
Before(s, t) ==
  \A i \in DOMAIN s, j \in DOMAIN t :
    s[i].ask = "toggle" /\ t[j].ask = "toggle" => s[i].id < t[j].id

\* Every press in s was made by the time of the n-th, or after it.
UpTo(s, n) == \A i \in DOMAIN s : s[i].ask = "toggle" => s[i].id <= n
After(s, n) == \A i \in DOMAIN s : s[i].ask = "toggle" => n < s[i].id

DoneBefore(s) == \A i \in DOMAIN done : After(s, done[i])

WireInOrder == Ordered(toObs) /\ UpTo(toObs, presses) /\ DoneBefore(toObs)
BatchInOrder == Ordered(out) /\ UpTo(out, presses) /\ DoneBefore(out) /\ Before(toObs, out)
QueueInOrder ==
  /\ Ordered(queue) /\ UpTo(queue, presses) /\ DoneBefore(queue)
  /\ Before(toObs, queue) /\ Before(out, queue)
DoneInOrder == AtMostOnceInOrder /\ \A i \in DOMAIN done : done[i] <= presses

InOrder == WireInOrder /\ BatchInOrder /\ QueueInOrder /\ DoneInOrder

IInv == TypeOK /\ InOrder

-----------------------------------------------------------------------------
(* Sequences.                                                               *)

\* What Tail leaves.
LEMMA TailOf ==
  ASSUME NEW S, NEW s \in Seq(S), s # <<>>
  PROVE  /\ Tail(s) \in Seq(S) /\ Head(s) \in S /\ Head(s) = s[1]
         /\ Len(Tail(s)) = Len(s) - 1 /\ Len(s) \in Nat \ {0}
         /\ DOMAIN s = 1..Len(s) /\ DOMAIN Tail(s) = 1..(Len(s) - 1)
         /\ \A i \in 1..(Len(s) - 1) : Tail(s)[i] = s[i + 1]
<1>1. Tail(s) \in Seq(S) /\ Head(s) \in S /\ Len(Tail(s)) = Len(s) - 1 /\ Head(s) = s[1]
      /\ \A i \in 1..Len(Tail(s)) : Tail(s)[i] = s[i + 1]
  BY HeadTailProperties
<1>2. Len(s) \in Nat \ {0} /\ DOMAIN s = 1..Len(s)
  BY EmptySeq, LenProperties
<1> QED
  BY <1>1, <1>2, LenProperties

\* Every element of the tail has its place after the first of the whole.
LEMMA TailPlaces ==
  ASSUME NEW S, NEW s \in Seq(S), s # <<>>, NEW i \in DOMAIN Tail(s)
  PROVE  i \in Int /\ \E j \in DOMAIN s : j = i + 1 /\ 1 < j /\ Tail(s)[i] = s[j]
<1>1. i \in 1..(Len(s) - 1) /\ DOMAIN s = 1..Len(s) /\ Len(s) \in Nat \ {0}
  BY TailOf
<1>2. Tail(s)[i] = s[i + 1]
  BY <1>1, TailOf
<1>3. i + 1 \in DOMAIN s /\ 1 < i + 1
  BY <1>1
<1> QED
  BY <1>1, <1>2, <1>3

\* What Append adds.
LEMMA AppendOf ==
  ASSUME NEW S, NEW s \in Seq(S), NEW e \in S
  PROVE  /\ Append(s, e) \in Seq(S) /\ Len(s) \in Nat /\ Len(Append(s, e)) = Len(s) + 1
         /\ DOMAIN s = 1..Len(s) /\ DOMAIN Append(s, e) = 1..(Len(s) + 1)
         /\ \A i \in 1..Len(s) : Append(s, e)[i] = s[i]
         /\ Append(s, e)[Len(s) + 1] = e
  BY AppendProperties, LenProperties

\* What push leaves of the queue and what is pushed: the end of the two.
LEMMA PushOf ==
  ASSUME TypeOK, NEW rs \in Seq(Requests)
  PROVE  /\ Push(rs) \in Seq(Requests) /\ Len(Push(rs)) <= QueueCap
         /\ \E k \in Nat :
              \A i \in DOMAIN Push(rs) :
                \E j \in 1..(Len(queue) + Len(rs)) :
                  /\ j = i + k
                  /\ Push(rs)[i] = IF j <= Len(queue) THEN queue[j] ELSE rs[j - Len(queue)]
<1> DEFINE all == queue \o rs
           m == 1 + (IF Len(all) > QueueCap THEN Len(all) - QueueCap ELSE 0)
<1>1. queue \in Seq(Requests) /\ Len(queue) \in Nat /\ Len(rs) \in Nat
  BY LenProperties DEF TypeOK
<1>2. /\ all \in Seq(Requests) /\ Len(all) = Len(queue) + Len(rs)
      /\ \A i \in 1..Len(all) :
           all[i] = IF i <= Len(queue) THEN queue[i] ELSE rs[i - Len(queue)]
  BY <1>1, ConcatProperties
<1> HIDE DEF all
<1>3. m \in 1..(Len(all) + 1) /\ Len(all) \in Nat
  BY <1>1, <1>2, ObsAssumption
<1>4. Push(rs) = SubSeq(all, m, Len(all))
  BY DEF Push, all
<1> HIDE DEF m
<1>5. /\ SubSeq(all, m, Len(all)) \in Seq(Requests)
      /\ Len(SubSeq(all, m, Len(all))) = Len(all) - m + 1
      /\ \A i \in 1..(Len(all) - m + 1) : SubSeq(all, m, Len(all))[i] = all[m + i - 1]
  <2>1. \A i \in m..Len(all) : all[i] \in Requests
    BY <1>2, <1>3, LenProperties
  <2>2. m \in Int /\ Len(all) \in Int /\ (m <= Len(all) \/ Len(all) - m + 1 = 0)
    BY <1>3
  <2> QED
    BY <2>1, <2>2, SubSeqProperties
<1>6. Len(all) - m + 1 <= QueueCap
  BY <1>1, <1>2, ObsAssumption DEF m
<1>7. DOMAIN Push(rs) = 1..(Len(all) - m + 1)
  BY <1>4, <1>5, LenProperties
<1> DEFINE k == m - 1
<1>8. k \in Nat /\ \A i \in Int : m + i - 1 = i + k
  BY <1>3
<1> HIDE DEF k
<1>9. ASSUME NEW i \in DOMAIN Push(rs)
      PROVE  \E j \in 1..(Len(queue) + Len(rs)) :
               /\ j = i + k
               /\ Push(rs)[i] = IF j <= Len(queue) THEN queue[j] ELSE rs[j - Len(queue)]
  <2>1. i \in 1..(Len(all) - m + 1) /\ i + k = m + i - 1 /\ i + k \in 1..Len(all)
    BY <1>3, <1>7, <1>8
  <2>2. Push(rs)[i] = all[i + k]
    BY <1>4, <1>5, <2>1
  <2>3. \A j \in 1..Len(all) :
          all[j] = IF j <= Len(queue) THEN queue[j] ELSE rs[j - Len(queue)]
    BY <1>2
  <2>4. PICK j \in 1..Len(all) : j = i + k
    BY <2>1
  <2>5. all[j] = IF j <= Len(queue) THEN queue[j] ELSE rs[j - Len(queue)]
    BY <2>3
  <2>6. j \in 1..(Len(queue) + Len(rs)) /\ Push(rs)[i] = all[j]
    BY <1>2, <2>2, <2>4
  <2> QED
    BY <2>4, <2>5, <2>6
<1> QED
  BY <1>4, <1>5, <1>6, <1>8, <1>9

-----------------------------------------------------------------------------
(* Types.                                                                   *)

\* The requests the program makes.
LEMMA RequestTypes ==
  /\ Status \in Requests /\ SceneList \in Requests
  /\ <<SceneList>> \in Seq(Requests) /\ <<SceneList, Status>> \in Seq(Requests)
  BY DEF Status, SceneList, Requests

\* Queueing requests keeps the types of the queue.
LEMMA EnqueueTypes ==
  ASSUME TypeOK, NEW rs \in Seq(Requests), Enqueue(rs)
  PROVE  queue' \in Seq(Requests) /\ Len(queue') <= QueueCap /\ unasked' \in BOOLEAN
<1>1. unasked' \in BOOLEAN
  BY DEF Enqueue, TypeOK
<1> QED
  BY <1>1, PushOf DEF Enqueue

\* Closing the connection keeps the types.
LEMMA HangUpTypes ==
  ASSUME TypeOK, HangUp
  PROVE  /\ sock' \in {"closed", "open", "broken"} /\ identified' \in BOOLEAN
         /\ out' \in Seq(Requests) /\ Len(out') <= QueueCap
         /\ toObs' \in Seq(Requests \cup Logins) /\ toUs' \in Seq(Messages)
         /\ session' \in {"none", "greeted", "identified"} /\ answers' \in Seq(Messages)
<1>1. out' \in Seq(Requests) /\ Len(out') = 0
  BY DEF HangUp
<1>2. toObs' \in Seq(Requests \cup Logins) /\ toUs' \in Seq(Messages) /\ answers' \in Seq(Messages)
  BY DEF HangUp
<1>3. Len(out') <= QueueCap
  BY <1>1, ObsAssumption
<1> QED
  BY <1>1, <1>2, <1>3 DEF HangUp

\* Every step keeps the types: the main thread.
LEMMA MainTypes == ASSUME TypeOK, Main PROVE TypeOK'
<1> USE DEF settings, mirror, wire, obs
<1>1. CASE ToggleRecord
  <2>1. presses' \in 1..MaxPress
    BY <1>1, ObsAssumption DEF ToggleRecord, TypeOK
  <2> DEFINE rs == <<[ask |-> "toggle", id |-> presses']>>
  <2>2. rs \in Seq(Requests)
    BY <2>1 DEF Requests
  <2>3. Enqueue(rs)
    BY <1>1 DEF ToggleRecord
  <2>4. queue' \in Seq(Requests) /\ Len(queue') <= QueueCap /\ unasked' \in BOOLEAN
    BY <2>2, <2>3, EnqueueTypes
  <2> QED
    BY <1>1, <2>1, <2>4 DEF ToggleRecord, TypeOK
<1>2. CASE SetConfig
  BY <1>2, ObsAssumption DEF SetConfig, Stir, TypeOK, waiting
<1>3. CASE SetPassword
  BY <1>3, ObsAssumption DEF SetPassword, Stir, TypeOK, waiting
<1> QED
  BY <1>1, <1>2, <1>3 DEF Main

\* The worker, but for what it reads and sends.
LEMMA LinkTypes ==
  ASSUME TypeOK, Off \/ Connect \/ ConnectFails \/ NoticeBroken
  PROVE  TypeOK'
<1> USE DEF settings, mirror, waiting, obs
<1>1. CASE Off
  BY <1>1, HangUpTypes DEF Off, Pass, TypeOK
<1>2. CASE Connect
  <2>1. toUs' \in Seq(Messages)
    BY <1>2 DEF Connect, Messages
  <2> QED
    BY <1>2, <2>1 DEF Connect, Pass, TypeOK
<1>3. CASE ConnectFails
  BY <1>3, HangUpTypes DEF ConnectFails, Drop, Pass, TypeOK
<1>4. CASE NoticeBroken
  BY <1>4, HangUpTypes DEF NoticeBroken, Drop, TypeOK
<1> QED
  BY <1>1, <1>2, <1>3, <1>4

\* What the worker reads.
LEMMA ReadTypes ==
  ASSUME TypeOK, Hello \/ Identified \/ Record \/ ScenesChanged \/ Scenes
  PROVE  TypeOK'
<1> USE DEF settings, mirror, waiting, obs
<1>1. toUs \in Seq(Messages) /\ toUs # <<>>
  BY DEF TypeOK, Hello, Identified, Record, ScenesChanged, Scenes, Receive
<1>2. Tail(toUs) \in Seq(Messages) /\ Head(toUs) \in Messages
  BY <1>1, TailOf
<1>3. CASE Hello
  <2>1. CASE password = "none"
    BY <1>3, <2>1, HangUpTypes DEF Hello, Drop, Receive, Pass, TypeOK
  <2>2. CASE password # "none"
    <3> DEFINE login == [ask |-> "login", right |-> password = "right"]
    <3>1. login \in Requests \cup Logins
      BY DEF Logins
    <3>a. toObs \in Seq(Requests \cup Logins) /\ toObs' = Append(toObs, login)
      BY <1>3, <2>2 DEF Hello, TypeOK
    <3> HIDE DEF login
    <3>2. toObs' \in Seq(Requests \cup Logins)
      BY <3>1, <3>a, AppendOf
    <3> QED
      BY <1>2, <1>3, <2>2, <3>2 DEF Hello, Reading, Receive, Pass, TypeOK
  <2> QED
    BY <2>1, <2>2
<1>4. CASE Identified
  BY <1>2, <1>4, EnqueueTypes, RequestTypes DEF Identified, Reading, Receive, Pass, TypeOK
<1>5. CASE Record
  <2>1. Head(toUs).on \in BOOLEAN
    BY <1>2, <1>5 DEF Record, Receive, Messages
  <2> QED
    BY <1>2, <1>5, <2>1 DEF Record, Reading, Receive, Pass, TypeOK
<1>6. CASE ScenesChanged
  BY <1>2, <1>6, EnqueueTypes, RequestTypes DEF ScenesChanged, Reading, Receive, Pass, TypeOK
<1>7. CASE Scenes
  <2>1. Head(toUs).list \in Lists
    BY <1>2, <1>7 DEF Scenes, Receive, Messages
  <2> QED
    BY <1>2, <1>7, <2>1 DEF Scenes, Reading, Receive, Pass, TypeOK
<1> QED
  BY <1>3, <1>4, <1>5, <1>6, <1>7

\* What the worker sends.
LEMMA SendTypes ==
  ASSUME TypeOK, TakeBatch \/ SendOne \/ PollStatus
  PROVE  TypeOK'
<1> USE DEF settings, mirror, waiting, wire, obs
<1>1. CASE TakeBatch
  BY <1>1, ObsAssumption DEF TakeBatch, Pass, TypeOK
<1>2. CASE SendOne
  <2>1. out \in Seq(Requests) /\ out # <<>>
    BY <1>2 DEF SendOne, TypeOK
  <2>2. out' \in Seq(Requests) /\ Len(out') <= QueueCap /\ Head(out) \in Requests \cup Logins
    BY <1>2, <2>1, TailOf, ObsAssumption DEF SendOne, TypeOK
  <2>3. toObs' \in Seq(Requests \cup Logins)
    BY <1>2, <2>2, AppendOf DEF SendOne, TypeOK
  <2> QED
    BY <1>2, <2>2, <2>3 DEF SendOne, TypeOK
<1>3. CASE PollStatus
  <2>1. toObs' \in Seq(Requests \cup Logins)
    BY <1>3, RequestTypes DEF PollStatus
  <2> QED
    BY <1>3, <2>1 DEF PollStatus, Pass, TypeOK
<1> QED
  BY <1>1, <1>2, <1>3

\* OBS, its users and the network.
LEMMA ObsTypes == ASSUME TypeOK, Obs \/ Outside PROVE TypeOK'
<1> USE DEF settings, mirror, waiting, Ours, obs
<1>1. ASSUME toObs # <<>>
      PROVE  Tail(toObs) \in Seq(Requests \cup Logins)
  BY <1>1, TailOf DEF TypeOK
<1>2. \A b \in BOOLEAN : [say |-> "record", on |-> b] \in Messages
  BY DEF Messages
<1>3. ASSUME NEW m \in Messages
      PROVE  Append(toUs, m) \in Seq(Messages) /\ Append(answers, m) \in Seq(Messages)
  BY AppendOf DEF TypeOK
<1>4. CASE ObsAccepts
  <2>1. [say |-> "identified"] \in Messages
    BY DEF Messages
  <2> QED
    BY <1>1, <1>3, <1>4, <2>1 DEF ObsAccepts, ObsReads, TypeOK
<1>5. CASE ObsRefuses
  <2>1. toObs' \in Seq(Requests \cup Logins) /\ toUs' \in Seq(Messages) /\ answers' \in Seq(Messages)
    BY <1>5 DEF ObsRefuses
  <2> QED
    BY <1>5, <2>1 DEF ObsRefuses, TypeOK
<1>6. CASE ObsToggles
  <2>1. PICK i \in 1..MaxPress :
          ObsReads([ask |-> "toggle", id |-> i]) /\ done' = Append(done, i)
    BY <1>6 DEF ObsToggles
  <2>2. done' \in Seq(1..MaxPress)
    BY <2>1, AppendOf DEF TypeOK
  <2>3. obsRec' \in BOOLEAN /\ [say |-> "record", on |-> obsRec'] \in Messages
    BY <1>2, <1>6 DEF ObsToggles
  <2>4. toUs' \in Seq(Messages)
    BY <1>3, <1>6, <2>3 DEF ObsToggles, Tell, TypeOK
  <2>5. toObs' \in Seq(Requests \cup Logins)
    BY <1>1, <2>1 DEF ObsReads
  <2> QED
    BY <1>6, <2>1, <2>2, <2>3, <2>4, <2>5 DEF ObsToggles, ObsReads, TypeOK
<1>7. CASE ObsComposes
  <2>1. PICK q \in {Status, SceneList} :
          /\ ObsReads(q)
          /\ answers' = Append(answers,
               IF q = Status THEN [say |-> "record", on |-> obsRec]
                             ELSE [say |-> "scenes", list |-> obsList])
    BY <1>7 DEF ObsComposes
  <2>2. [say |-> "record", on |-> obsRec] \in Messages /\ [say |-> "scenes", list |-> obsList] \in Messages
    BY DEF Messages, TypeOK
  <2>3. answers' \in Seq(Messages)
    BY <1>3, <2>1, <2>2
  <2>4. toObs' \in Seq(Requests \cup Logins)
    BY <1>1, <2>1 DEF ObsReads
  <2> QED
    BY <1>7, <2>1, <2>3, <2>4 DEF ObsComposes, ObsReads, TypeOK
<1>8. CASE ObsAnswers
  <2>1. Head(answers) \in Messages /\ Tail(answers) \in Seq(Messages)
    BY <1>8, TailOf DEF ObsAnswers, TypeOK
  <2> QED
    BY <1>3, <1>8, <2>1 DEF ObsAnswers, TypeOK
<1>9. CASE ObsRecords
  <2>1. obsRec' \in BOOLEAN /\ [say |-> "record", on |-> obsRec'] \in Messages
    BY <1>2, <1>9 DEF ObsRecords
  <2>2. toUs' \in Seq(Messages)
    BY <1>3, <1>9, <2>1 DEF ObsRecords, Tell, TypeOK
  <2> QED
    BY <1>9, <2>1, <2>2, ObsAssumption DEF ObsRecords, Stir, TypeOK
<1>10. CASE ObsScenes
  <2>1. [say |-> "changed"] \in Messages
    BY DEF Messages
  <2>2. toUs' \in Seq(Messages)
    BY <1>3, <1>10, <2>1 DEF ObsScenes, Tell, TypeOK
  <2> QED
    BY <1>10, <2>2, ObsAssumption DEF ObsScenes, Stir, TypeOK
<1>11. CASE Breaks
  <2>1. toObs' \in Seq(Requests \cup Logins) /\ toUs' \in Seq(Messages) /\ answers' \in Seq(Messages)
    BY <1>11 DEF Breaks
  <2> QED
    BY <1>11, <2>1, ObsAssumption DEF Breaks, Stir, TypeOK
<1> QED
  BY <1>4, <1>5, <1>6, <1>7, <1>8, <1>9, <1>10, <1>11 DEF Obs, Outside

\* The types hold at the start, ...
LEMMA InitTypes == Init => TypeOK
<1> SUFFICES ASSUME Init PROVE TypeOK
  OBVIOUS
<1>1. <<>> \in Seq(Requests) /\ Len(<<>>) = 0 /\ <<>> \in Seq(1..MaxPress)
  OBVIOUS
<1>2. <<>> \in Seq(Requests \cup Logins) /\ <<>> \in Seq(Messages)
  OBVIOUS
<1>3. 0 <= QueueCap /\ 0 \in 0..MaxPress /\ 0 \in 0..MaxStir
  BY ObsAssumption
<1> QED
  BY <1>1, <1>2, <1>3 DEF Init, TypeOK, Lists

\* ... and every step keeps them.
LEMMA NextTypes == TypeOK /\ [Next]_vars => TypeOK'
<1> SUFFICES ASSUME TypeOK, [Next]_vars PROVE TypeOK'
  OBVIOUS
<1>1. CASE UNCHANGED vars
  BY <1>1 DEF vars, settings, waiting, mirror, wire, obs, TypeOK
<1> QED
  BY <1>1, MainTypes, LinkTypes, ReadTypes, SendTypes, ObsTypes DEF Next, Worker

\* Every variable of the link keeps its type.
THEOREM TypeCorrect == Spec => []TypeOK
  BY InitTypes, NextTypes, PTL DEF Spec

-----------------------------------------------------------------------------
(* Order.                                                                   *)

\* A connection that is closed loses what was on the way, and nothing else moves.
LEMMA CutOrder ==
  ASSUME InOrder, UNCHANGED <<queue, done, presses>>,
         toObs' \in {toObs, <<>>}, out' \in {out, <<>>}
  PROVE  InOrder'
<1> USE DEF Ordered, Before, UpTo, After, DoneBefore
<1>1. Ordered(toObs') /\ UpTo(toObs', presses) /\ \A i \in DOMAIN done : After(toObs', done[i])
  BY DEF InOrder, WireInOrder
<1>2. Ordered(out') /\ UpTo(out', presses) /\ \A i \in DOMAIN done : After(out', done[i])
  BY DEF InOrder, BatchInOrder
<1>3. Before(toObs', out') /\ Before(toObs', queue) /\ Before(out', queue)
  BY DEF InOrder, BatchInOrder, QueueInOrder
<1> QED
  BY <1>1, <1>2, <1>3
  DEF InOrder, WireInOrder, BatchInOrder, QueueInOrder, DoneInOrder, AtMostOnceInOrder

\* What push leaves of the queue is in order, if what is pushed is in order and new.
LEMMA EnqueueOrder ==
  ASSUME TypeOK, InOrder, NEW rs \in Seq(Requests), NEW n \in Nat, presses <= n,
         Ordered(rs), After(rs, presses), UpTo(rs, n),
         Enqueue(rs), presses' = n, UNCHANGED <<toObs, out, done>>
  PROVE  InOrder'
<1>1. queue' = Push(rs) /\ presses \in Nat
  BY ObsAssumption DEF Enqueue, TypeOK
<1>2. PICK k \in Nat :
        \A i \in DOMAIN queue' :
          \E j \in 1..(Len(queue) + Len(rs)) :
            j = i + k /\ queue'[i] = IF j <= Len(queue) THEN queue[j] ELSE rs[j - Len(queue)]
  BY <1>1, PushOf
<1>3. /\ queue \in Seq(Requests) /\ Len(queue) \in Nat /\ DOMAIN queue = 1..Len(queue)
      /\ Len(rs) \in Nat /\ DOMAIN rs = 1..Len(rs)
  BY LenProperties DEF TypeOK
<1>4. DOMAIN queue' \subseteq Int
  <2>1. queue' \in Seq(Requests)
    BY <1>1, PushOf
  <2> QED
    BY <2>1, LenProperties
\* A request of the queue was there before, or it is one of those pushed.
<1>5. ASSUME NEW i \in DOMAIN queue'
      PROVE  \/ \E j \in DOMAIN queue : j = i + k /\ queue'[i] = queue[j]
             \/ \E j \in DOMAIN rs : j = i + k - Len(queue) /\ queue'[i] = rs[j]
  <2>1. PICK j \in 1..(Len(queue) + Len(rs)) :
          j = i + k /\ queue'[i] = IF j <= Len(queue) THEN queue[j] ELSE rs[j - Len(queue)]
    BY <1>2
  <2>2. CASE j <= Len(queue)
    BY <1>3, <2>1, <2>2
  <2>3. CASE ~(j <= Len(queue))
    <3>1. PICK l \in DOMAIN rs : l = j - Len(queue)
      BY <1>3, <2>1, <2>3
    <3>2. queue'[i] = rs[j - Len(queue)]
      BY <2>1, <2>3
    <3>3. queue'[i] = rs[l]
      BY <3>1, <3>2
    <3>4. l = i + k - Len(queue)
      <4>1. j = i + k /\ i \in Int /\ Len(queue) \in Int
        BY <1>3, <1>4, <2>1
      <4> QED
        BY <3>1, <4>1
    <3>5. \E m \in DOMAIN rs : m = i + k - Len(queue) /\ queue'[i] = rs[m]
      <4> WITNESS l \in DOMAIN rs
      <4> QED
        BY <3>3, <3>4
    <3> QED
      BY <3>5
  <2> QED
    BY <2>2, <2>3
<1>6. Ordered(queue')
  <2> SUFFICES ASSUME NEW a \in DOMAIN queue', NEW b \in DOMAIN queue', a < b,
                      queue'[a].ask = "toggle", queue'[b].ask = "toggle"
               PROVE  queue'[a].id < queue'[b].id
    BY DEF Ordered
  <2>1. CASE \E j \in DOMAIN queue : j = b + k /\ queue'[b] = queue[j]
    <3>1. PICK j \in DOMAIN queue : j = b + k /\ queue'[b] = queue[j]
      BY <2>1
    <3>2. PICK l \in DOMAIN queue : l = a + k /\ queue'[a] = queue[l]
      BY <1>3, <1>5, <1>4, <3>1
    <3>3. l < j
      BY <1>3, <1>4, <3>1, <3>2
    <3> QED
      BY <3>1, <3>2, <3>3 DEF InOrder, QueueInOrder, Ordered
  <2>2. CASE \E j \in DOMAIN rs : j = b + k - Len(queue) /\ queue'[b] = rs[j]
    <3>1. PICK j \in DOMAIN rs : j = b + k - Len(queue) /\ queue'[b] = rs[j]
      BY <2>2
    <3>2. CASE \E l \in DOMAIN queue : l = a + k /\ queue'[a] = queue[l]
      <4>1. PICK l \in DOMAIN queue : l = a + k /\ queue'[a] = queue[l]
        BY <3>2
      <4>2. queue[l].id <= presses /\ presses < rs[j].id
        BY <3>1, <4>1 DEF InOrder, QueueInOrder, UpTo, After
      <4>3. queue[l].id \in Int /\ rs[j].id \in Int
        <5>1. queue[l] \in Requests /\ rs[j] \in Requests
          BY <1>3, LenProperties
        <5> QED
          BY <5>1 DEF Requests
      <4> QED
        BY <1>1, <3>1, <4>1, <4>2, <4>3
    <3>3. CASE \E l \in DOMAIN rs : l = a + k - Len(queue) /\ queue'[a] = rs[l]
      <4>1. PICK l \in DOMAIN rs : l = a + k - Len(queue) /\ queue'[a] = rs[l]
        BY <3>3
      <4>2. l < j
        BY <1>3, <1>4, <3>1, <4>1
      <4> QED
        BY <3>1, <4>1, <4>2 DEF Ordered
    <3> QED
      BY <1>5, <3>2, <3>3
  <2> QED
    BY <1>5, <2>1, <2>2
<1>7. UpTo(queue', n)
  <2> SUFFICES ASSUME NEW i \in DOMAIN queue', queue'[i].ask = "toggle" PROVE queue'[i].id <= n
    BY DEF UpTo
  <2>1. CASE \E j \in DOMAIN queue : queue'[i] = queue[j]
    <3>1. PICK j \in DOMAIN queue : queue'[i] = queue[j]
      BY <2>1
    <3>2. queue[j].id \in Int /\ queue[j].id <= presses
      <4>1. queue[j] \in Requests
        BY <1>3, LenProperties
      <4> QED
        BY <3>1, <4>1 DEF Requests, InOrder, QueueInOrder, UpTo
    <3> QED
      BY <1>1, <3>1, <3>2
  <2>2. CASE \E j \in DOMAIN rs : queue'[i] = rs[j]
    BY <2>2 DEF UpTo
  <2> QED
    BY <1>5, <2>1, <2>2
\* Whatever is before the queue and not newer than the last press is before it still.
<1>8. ASSUME NEW m \in Int, m <= presses, After(queue, m)
      PROVE  After(queue', m)
  <2> SUFFICES ASSUME NEW i \in DOMAIN queue', queue'[i].ask = "toggle" PROVE m < queue'[i].id
    BY DEF After
  <2>1. CASE \E j \in DOMAIN queue : queue'[i] = queue[j]
    BY <1>8, <2>1 DEF After
  <2>2. CASE \E j \in DOMAIN rs : queue'[i] = rs[j]
    <3>1. PICK j \in DOMAIN rs : queue'[i] = rs[j]
      BY <2>2
    <3>2. rs[j].id \in Int /\ presses < rs[j].id
      <4>1. rs[j] \in Requests
        BY <1>3, LenProperties
      <4> QED
        BY <3>1, <4>1 DEF Requests, After
    <3> QED
      BY <1>1, <1>8, <3>1, <3>2
  <2> QED
    BY <1>5, <2>1, <2>2
<1>9. \A i \in DOMAIN done : done[i] \in Int /\ done[i] <= presses /\ done[i] <= n
  <2>1. \A i \in DOMAIN done : done[i] \in Int
    <3>1. done \in Seq(1..MaxPress)
      BY DEF TypeOK
    <3>2. done \in [1..Len(done) -> 1..MaxPress]
      BY <3>1, LenProperties
    <3> QED
      BY <3>2, ObsAssumption
  <2> QED
    BY <1>1, <2>1 DEF InOrder, DoneInOrder
<1>10. \A i \in DOMAIN done : After(queue', done[i])
  BY <1>8, <1>9 DEF InOrder, QueueInOrder, DoneBefore
<1>11. ASSUME NEW s \in Seq(Requests \cup Logins), UpTo(s, presses), Before(s, queue)
       PROVE  UpTo(s, n) /\ Before(s, queue')
  <2>1. \A i \in DOMAIN s : s[i].ask = "toggle" => s[i].id \in Int
    BY LenProperties DEF Requests, Logins
  <2>2. ASSUME NEW i \in DOMAIN s, s[i].ask = "toggle"
        PROVE  s[i].id <= n /\ After(queue', s[i].id)
    <3>1. s[i].id \in Int /\ s[i].id <= presses /\ After(queue, s[i].id)
      BY <1>11, <2>1, <2>2 DEF UpTo, Before, After
    <3> QED
      BY <1>1, <1>8, <3>1
  <2> QED
    BY <2>2 DEF UpTo, Before, After
<1>12. toObs \in Seq(Requests \cup Logins) /\ out \in Seq(Requests \cup Logins)
  BY DEF TypeOK
<1>13. UpTo(toObs, n) /\ Before(toObs, queue') /\ UpTo(out, n) /\ Before(out, queue')
  BY <1>11, <1>12 DEF InOrder, WireInOrder, BatchInOrder, QueueInOrder
<1> QED
  BY <1>6, <1>7, <1>9, <1>10, <1>13
  DEF InOrder, WireInOrder, BatchInOrder, QueueInOrder, DoneInOrder, AtMostOnceInOrder, DoneBefore

\* The main thread keeps the order: a press is newer than all before it.
LEMMA MainOrder == ASSUME TypeOK, InOrder, Main PROVE InOrder'
<1>1. CASE ToggleRecord
  <2> DEFINE rs == <<[ask |-> "toggle", id |-> presses']>>
  <2>1. presses' = presses + 1 /\ presses \in Nat /\ presses' \in 1..MaxPress
    BY <1>1, ObsAssumption DEF ToggleRecord, TypeOK
  <2>2. rs \in Seq(Requests)
    BY <2>1 DEF Requests
  <2>3. Ordered(rs) /\ After(rs, presses) /\ UpTo(rs, presses')
    BY <2>1 DEF Ordered, After, UpTo
  <2>4. Enqueue(rs) /\ UNCHANGED <<toObs, out, done>>
    BY <1>1 DEF ToggleRecord, wire, obs
  <2> HIDE DEF rs
  <2>5. presses' \in Nat /\ presses <= presses'
    BY <2>1
  <2> QED
    BY <2>2, <2>3, <2>4, <2>5, EnqueueOrder
<1>2. CASE SetConfig \/ SetPassword
  BY <1>2, CutOrder DEF SetConfig, SetPassword, waiting, wire
<1> QED
  BY <1>1, <1>2 DEF Main

\* Questions are in no order.
LEMMA Questions ==
  ASSUME TypeOK, InOrder, NEW rs \in {<<SceneList>>, <<SceneList, Status>>},
         Enqueue(rs), UNCHANGED <<toObs, out, done, presses>>
  PROVE  InOrder'
<1>1. rs \in Seq(Requests)
  BY RequestTypes
<1>2. \A i \in DOMAIN rs : rs[i].ask # "toggle"
  BY DEF SceneList, Status
<1>3. Ordered(rs) /\ After(rs, presses) /\ UpTo(rs, presses)
  BY <1>2 DEF Ordered, After, UpTo
<1>4. presses \in Nat /\ presses <= presses
  BY ObsAssumption DEF TypeOK
<1> QED
  BY <1>1, <1>3, <1>4, EnqueueOrder

\* A message on the wire that is no press, and the head of the wire read by OBS.
LEMMA WireOrder ==
  ASSUME TypeOK, InOrder, UNCHANGED <<out, queue, done, presses>>,
         \/ \E e \in Requests \cup Logins : e.ask # "toggle" /\ toObs' = Append(toObs, e)
         \/ toObs # <<>> /\ toObs' = Tail(toObs)
  PROVE  InOrder'
<1>1. toObs \in Seq(Requests \cup Logins)
  BY DEF TypeOK
\* The presses on the wire were there before, in the same order.
<1>2. \E k \in {0, 1} : \A i \in DOMAIN toObs' :
        i \in Int /\ (toObs'[i].ask = "toggle" => \E j \in DOMAIN toObs : j = i + k /\ toObs'[i] = toObs[j])
  <2>1. CASE \E e \in Requests \cup Logins : e.ask # "toggle" /\ toObs' = Append(toObs, e)
    <3>1. PICK e \in Requests \cup Logins : e.ask # "toggle" /\ toObs' = Append(toObs, e)
      BY <2>1
    <3>2. \A i \in DOMAIN toObs' : i \in Int /\ (toObs'[i].ask = "toggle" => i \in DOMAIN toObs /\ toObs'[i] = toObs[i])
      BY <1>1, <3>1, AppendOf
    <3>3. \A i \in DOMAIN toObs' :
            i \in Int /\ (toObs'[i].ask = "toggle" => \E j \in DOMAIN toObs : j = i + 0 /\ toObs'[i] = toObs[j])
      BY <3>2
    <3> QED
      BY <3>3
  <2>2. CASE toObs # <<>> /\ toObs' = Tail(toObs)
    <3>1. \A i \in DOMAIN toObs' : i \in Int /\ \E j \in DOMAIN toObs : j = i + 1 /\ toObs'[i] = toObs[j]
      BY <1>1, <2>2, TailPlaces
    <3>2. \A i \in DOMAIN toObs' :
            i \in Int /\ (toObs'[i].ask = "toggle" => \E j \in DOMAIN toObs : j = i + 1 /\ toObs'[i] = toObs[j])
      BY <3>1
    <3> QED
      BY <3>2
  <2> QED
    BY <2>1, <2>2
<1>3. PICK k \in {0, 1} : \A i \in DOMAIN toObs' :
        i \in Int /\ (toObs'[i].ask = "toggle" => \E j \in DOMAIN toObs : j = i + k /\ toObs'[i] = toObs[j])
  BY <1>2
<1>4. Ordered(toObs')
  <2> SUFFICES ASSUME NEW a \in DOMAIN toObs', NEW b \in DOMAIN toObs', a < b,
                      toObs'[a].ask = "toggle", toObs'[b].ask = "toggle"
               PROVE  toObs'[a].id < toObs'[b].id
    BY DEF Ordered
  <2>1. PICK i \in DOMAIN toObs : i = a + k /\ toObs'[a] = toObs[i]
    BY <1>3
  <2>2. PICK j \in DOMAIN toObs : j = b + k /\ toObs'[b] = toObs[j]
    BY <1>3
  <2>3. i < j
    BY <1>3, <2>1, <2>2
  <2> QED
    BY <2>1, <2>2, <2>3 DEF InOrder, WireInOrder, Ordered
<1>5. /\ UpTo(toObs', presses) /\ \A i \in DOMAIN done : After(toObs', done[i])
      /\ Before(toObs', out) /\ Before(toObs', queue)
  BY <1>3
  DEF InOrder, WireInOrder, BatchInOrder, QueueInOrder, UpTo, After, Before, DoneBefore
<1> QED
  BY <1>4, <1>5
  DEF InOrder, WireInOrder, BatchInOrder, QueueInOrder, DoneInOrder, AtMostOnceInOrder, DoneBefore

\* A batch that is taken, and a message of it that is sent, keep their place.
LEMMA SendOrder ==
  ASSUME TypeOK, InOrder, TakeBatch \/ SendOne \/ PollStatus
  PROVE  InOrder'
<1>1. CASE TakeBatch
  <2>1. /\ out' = queue /\ queue' = <<>>
        /\ UNCHANGED <<toObs, done, presses>>
    BY <1>1 DEF TakeBatch, Pass, wire, obs
  <2>2. DOMAIN queue' = {}
    BY <2>1
  <2>3. BatchInOrder'
    BY <2>1 DEF InOrder, QueueInOrder, BatchInOrder, DoneBefore
  <2>4. QueueInOrder'
    BY <2>2 DEF QueueInOrder, Ordered, UpTo, DoneBefore, After, Before
  <2>5. WireInOrder' /\ DoneInOrder'
    BY <2>1 DEF InOrder, WireInOrder, DoneInOrder, AtMostOnceInOrder, DoneBefore
  <2> QED
    BY <2>3, <2>4, <2>5 DEF InOrder
<1>2. CASE SendOne
  <2>1. /\ out # <<>> /\ out \in Seq(Requests) /\ toObs \in Seq(Requests \cup Logins)
        /\ toObs' = Append(toObs, Head(out)) /\ out' = Tail(out)
        /\ UNCHANGED <<queue, done, presses>>
    BY <1>2 DEF SendOne, TypeOK, waiting, obs
  <2>2. /\ Head(out) \in Requests /\ Head(out) = out[1]
        /\ DOMAIN out = 1..Len(out) /\ DOMAIN out' = 1..(Len(out) - 1) /\ Len(out) \in Nat \ {0}
    BY <2>1, TailOf
  <2>3. Head(out) \in Requests \cup Logins
    BY <2>2
  <2>4. /\ DOMAIN toObs = 1..Len(toObs) /\ DOMAIN toObs' = 1..(Len(toObs) + 1) /\ Len(toObs) \in Nat
        /\ \A i \in 1..Len(toObs) : toObs'[i] = toObs[i]
        /\ toObs'[Len(toObs) + 1] = out[1]
    BY <2>1, <2>2, <2>3, AppendOf
  \* What is on the wire was there, or it is the first of the batch and comes last.
  <2>5. ASSUME NEW i \in DOMAIN toObs'
        PROVE  \/ i \in DOMAIN toObs /\ toObs'[i] = toObs[i]
               \/ toObs'[i] = out[1] /\ \A j \in DOMAIN toObs' : ~(i < j)
    BY <2>4
  <2>6. ASSUME NEW i \in DOMAIN out'
        PROVE  \E j \in DOMAIN out : j = i + 1 /\ 1 < j /\ out'[i] = out[j]
    BY <2>1, TailPlaces
  <2>7. 1 \in DOMAIN out /\ DOMAIN out' \subseteq Int
    BY <2>2
  <2>8. Ordered(toObs')
    <3> SUFFICES ASSUME NEW a \in DOMAIN toObs', NEW b \in DOMAIN toObs', a < b,
                        toObs'[a].ask = "toggle", toObs'[b].ask = "toggle"
                 PROVE  toObs'[a].id < toObs'[b].id
      BY DEF Ordered
    <3>1. a \in DOMAIN toObs /\ toObs'[a] = toObs[a]
      BY <2>5
    <3>2. CASE b \in DOMAIN toObs /\ toObs'[b] = toObs[b]
      BY <3>1, <3>2 DEF InOrder, WireInOrder, Ordered
    <3>3. CASE toObs'[b] = out[1]
      BY <2>7, <3>1, <3>3 DEF InOrder, BatchInOrder, Before
    <3> QED
      BY <2>5, <3>2, <3>3
  <2>9. /\ UpTo(toObs', presses) /\ \A i \in DOMAIN done : After(toObs', done[i])
        /\ Before(toObs', queue)
    BY <2>5, <2>7
    DEF InOrder, WireInOrder, BatchInOrder, QueueInOrder, DoneBefore, UpTo, After, Before
  <2>10. Ordered(out')
    <3> SUFFICES ASSUME NEW a \in DOMAIN out', NEW b \in DOMAIN out', a < b,
                        out'[a].ask = "toggle", out'[b].ask = "toggle"
                 PROVE  out'[a].id < out'[b].id
      BY DEF Ordered
    <3>1. PICK i \in DOMAIN out : i = a + 1 /\ out'[a] = out[i]
      BY <2>6
    <3>2. PICK j \in DOMAIN out : j = b + 1 /\ out'[b] = out[j]
      BY <2>6
    <3>3. i < j
      BY <2>7, <3>1, <3>2
    <3> QED
      BY <3>1, <3>2, <3>3 DEF InOrder, BatchInOrder, Ordered
  <2>11. /\ UpTo(out', presses) /\ \A i \in DOMAIN done : After(out', done[i])
         /\ Before(out', queue)
    BY <2>6
    DEF InOrder, BatchInOrder, QueueInOrder, DoneBefore, UpTo, After, Before
  <2>12. Before(toObs', out')
    <3> SUFFICES ASSUME NEW a \in DOMAIN toObs', NEW b \in DOMAIN out',
                        toObs'[a].ask = "toggle", out'[b].ask = "toggle"
                 PROVE  toObs'[a].id < out'[b].id
      BY DEF Before
    <3>1. PICK j \in DOMAIN out : 1 < j /\ out'[b] = out[j]
      BY <2>6
    <3>2. CASE a \in DOMAIN toObs /\ toObs'[a] = toObs[a]
      BY <3>1, <3>2 DEF InOrder, BatchInOrder, Before
    <3>3. CASE toObs'[a] = out[1]
      BY <2>7, <3>1, <3>3 DEF InOrder, BatchInOrder, Ordered
    <3> QED
      BY <2>5, <3>2, <3>3
  <2> QED
    BY <2>1, <2>8, <2>9, <2>10, <2>11, <2>12
    DEF InOrder, WireInOrder, BatchInOrder, QueueInOrder, DoneInOrder, AtMostOnceInOrder, DoneBefore
<1>3. CASE PollStatus
  <2>1. toObs = <<>> /\ toObs' = <<Status>> /\ UNCHANGED <<out, queue, done, presses>>
    BY <1>3 DEF PollStatus, Pass, waiting, obs
  <2>2. toObs' = Append(toObs, Status)
    BY <2>1
  <2>3. Status \in Requests \cup Logins /\ Status.ask # "toggle"
    BY DEF Status, Requests
  <2> QED
    BY <2>1, <2>2, <2>3, WireOrder
<1> QED
  BY <1>1, <1>2, <1>3

\* The rest of what the worker does: it cuts the connection, or it asks.
LEMMA WorkerOrder ==
  ASSUME TypeOK, InOrder,
         \/ Off \/ Connect \/ ConnectFails \/ NoticeBroken
         \/ Hello \/ Identified \/ Record \/ ScenesChanged \/ Scenes
  PROVE  InOrder'
<1> USE DEF waiting, wire, obs
<1>1. CASE Off \/ Connect \/ ConnectFails \/ NoticeBroken
  <2>1. UNCHANGED <<queue, done, presses>> /\ toObs' \in {toObs, <<>>} /\ out' \in {out, <<>>}
    BY <1>1 DEF Off, Connect, ConnectFails, NoticeBroken, Drop, HangUp, Pass
  <2> QED
    BY <2>1, CutOrder
<1>2. CASE Hello
  <2>1. UNCHANGED <<queue, done, presses>>
    BY <1>2 DEF Hello, Receive, Pass
  <2>2. CASE password = "none"
    <3>1. toObs' \in {toObs, <<>>} /\ out' \in {out, <<>>}
      BY <1>2, <2>2 DEF Hello, Drop, HangUp
    <3> QED
      BY <2>1, <3>1, CutOrder
  <2>3. CASE password # "none"
    <3> DEFINE login == [ask |-> "login", right |-> password = "right"]
    <3>1. login \in Requests \cup Logins /\ login.ask # "toggle"
      BY DEF Logins
    <3>2. toObs' = Append(toObs, login) /\ UNCHANGED out
      BY <1>2, <2>3 DEF Hello, Reading
    <3> HIDE DEF login
    <3> QED
      BY <2>1, <3>1, <3>2, WireOrder
  <2> QED
    BY <2>2, <2>3
<1>3. CASE Identified
  BY <1>3, Questions DEF Identified, Receive, Reading, Pass
<1>4. CASE ScenesChanged
  BY <1>4, Questions DEF ScenesChanged, Receive, Reading, Pass
<1>5. CASE Record \/ Scenes
  <2>1. UNCHANGED <<queue, done, presses>> /\ toObs' \in {toObs, <<>>} /\ out' \in {out, <<>>}
    BY <1>5 DEF Record, Scenes, Receive, Reading, Pass
  <2> QED
    BY <2>1, CutOrder
<1> QED
  BY <1>1, <1>2, <1>3, <1>4, <1>5

\* OBS acts on the oldest press on its way.
LEMMA ToggleOrder ==
  ASSUME TypeOK, InOrder, ObsToggles
  PROVE  InOrder'
<1>1. PICK n \in 1..MaxPress :
        ObsReads([ask |-> "toggle", id |-> n]) /\ done' = Append(done, n)
  BY DEF ObsToggles
<1>2. /\ toObs # <<>> /\ toObs \in Seq(Requests \cup Logins) /\ done \in Seq(1..MaxPress)
      /\ Head(toObs).ask = "toggle" /\ Head(toObs).id = n /\ toObs' = Tail(toObs)
      /\ UNCHANGED <<queue, out, presses>>
  BY <1>1 DEF ObsReads, Ours, waiting, TypeOK
<1>3. /\ Head(toObs) = toObs[1] /\ Len(toObs) \in Nat \ {0}
      /\ DOMAIN toObs = 1..Len(toObs) /\ DOMAIN toObs' = 1..(Len(toObs) - 1)
  BY <1>2, TailOf
<1>4. /\ DOMAIN done = 1..Len(done) /\ DOMAIN done' = 1..(Len(done) + 1) /\ Len(done) \in Nat
      /\ \A i \in 1..Len(done) : done'[i] = done[i]
      /\ done'[Len(done) + 1] = n
  BY <1>1, <1>2, AppendOf
<1>5. 1 \in DOMAIN toObs /\ toObs[1].ask = "toggle" /\ toObs[1].id = n
  BY <1>2, <1>3
<1>6. ASSUME NEW i \in DOMAIN toObs'
      PROVE  \E j \in DOMAIN toObs : j = i + 1 /\ 1 < j /\ toObs'[i] = toObs[j]
  BY <1>2, TailPlaces
<1>7. ASSUME NEW i \in DOMAIN done'
      PROVE  \/ i \in DOMAIN done /\ done'[i] = done[i]
             \/ done'[i] = n /\ \A j \in DOMAIN done' : ~(i < j)
  BY <1>4
<1>8. \A i \in DOMAIN done : done[i] < n
  BY <1>5 DEF InOrder, WireInOrder, DoneBefore, After
<1>9. DoneInOrder'
  <2>1. AtMostOnceInOrder'
    BY <1>7, <1>8 DEF InOrder, DoneInOrder, AtMostOnceInOrder
  <2>2. n <= presses
    BY <1>5 DEF InOrder, WireInOrder, UpTo
  <2> QED
    BY <1>2, <1>7, <2>1, <2>2 DEF InOrder, DoneInOrder
<1>10. Ordered(toObs')
  <2> SUFFICES ASSUME NEW a \in DOMAIN toObs', NEW b \in DOMAIN toObs', a < b,
                      toObs'[a].ask = "toggle", toObs'[b].ask = "toggle"
               PROVE  toObs'[a].id < toObs'[b].id
    BY DEF Ordered
  <2>1. PICK i \in DOMAIN toObs : i = a + 1 /\ toObs'[a] = toObs[i]
    BY <1>6
  <2>2. PICK j \in DOMAIN toObs : j = b + 1 /\ toObs'[b] = toObs[j]
    BY <1>6
  <2>3. i < j
    BY <1>3, <2>1, <2>2
  <2> QED
    BY <2>1, <2>2, <2>3 DEF InOrder, WireInOrder, Ordered
<1>11. /\ UpTo(toObs', presses) /\ \A i \in DOMAIN done : After(toObs', done[i])
       /\ Before(toObs', out) /\ Before(toObs', queue)
  BY <1>6
  DEF InOrder, WireInOrder, BatchInOrder, QueueInOrder, DoneBefore, UpTo, After, Before
\* The press just done is before all that are still on their way.
<1>12. After(toObs', n) /\ After(out, n) /\ After(queue, n)
  <2>1. After(toObs', n)
    BY <1>5, <1>6 DEF InOrder, WireInOrder, Ordered, After
  <2> QED
    BY <1>5, <2>1 DEF InOrder, BatchInOrder, QueueInOrder, Before, After
<1>13. DoneBefore(toObs)' /\ DoneBefore(out)' /\ DoneBefore(queue)'
  BY <1>2, <1>7, <1>11, <1>12 DEF InOrder, BatchInOrder, QueueInOrder, DoneBefore
<1> QED
  BY <1>2, <1>9, <1>10, <1>11, <1>13 DEF InOrder, WireInOrder, BatchInOrder, QueueInOrder

\* OBS, its users and the network keep the order.
LEMMA ObsOrder == ASSUME TypeOK, InOrder, Obs \/ Outside PROVE InOrder'
<1> USE DEF Ours, waiting, obs
<1>1. CASE ObsAccepts \/ ObsComposes
  <2>1. toObs # <<>> /\ toObs' = Tail(toObs) /\ UNCHANGED <<out, queue, done, presses>>
    BY <1>1 DEF ObsAccepts, ObsComposes, ObsReads
  <2> QED
    BY <2>1, WireOrder
<1>2. CASE ObsToggles
  BY <1>2, ToggleOrder
<1>3. CASE ObsRefuses \/ ObsAnswers \/ ObsRecords \/ ObsScenes \/ Breaks
  <2>1. UNCHANGED <<queue, done, presses>> /\ toObs' \in {toObs, <<>>} /\ out' \in {out, <<>>}
    BY <1>3 DEF ObsRefuses, ObsAnswers, ObsRecords, ObsScenes, Breaks
  <2> QED
    BY <2>1, CutOrder
<1> QED
  BY <1>1, <1>2, <1>3 DEF Obs, Outside

\* Nothing is on its way at the start, ...
LEMMA InitOrder == Init => InOrder
<1> SUFFICES ASSUME Init PROVE InOrder
  OBVIOUS
<1>1. DOMAIN toObs = {} /\ DOMAIN out = {} /\ DOMAIN queue = {} /\ DOMAIN done = {}
  BY DEF Init
<1> QED
  BY <1>1
  DEF InOrder, WireInOrder, BatchInOrder, QueueInOrder, DoneInOrder, AtMostOnceInOrder,
      DoneBefore, Ordered, UpTo, Before

\* ... and every step keeps the order.
LEMMA NextOrder == IInv /\ [Next]_vars => InOrder'
<1> SUFFICES ASSUME TypeOK, InOrder, [Next]_vars PROVE InOrder'
  BY DEF IInv
<1>1. CASE UNCHANGED vars
  <2>1. UNCHANGED <<queue, done, presses>> /\ toObs' \in {toObs, <<>>} /\ out' \in {out, <<>>}
    BY <1>1 DEF vars, waiting, wire, obs
  <2> QED
    BY <2>1, CutOrder
<1> QED
  BY <1>1, MainOrder, WorkerOrder, SendOrder, ObsOrder DEF Next, Worker

\* OBS acts on no press twice and never on an older one after a newer one:
\* nothing on the way from ToggleRecord through push, the batch and the wire
\* repeats a press or lets it overtake another, whatever breaks in between.
THEOREM PressedOnceInOrder == Spec => []AtMostOnceInOrder
<1>1. Init => IInv
  BY InitTypes, InitOrder DEF IInv
<1>2. IInv /\ [Next]_vars => IInv'
  BY NextTypes, NextOrder DEF IInv
<1>3. IInv => AtMostOnceInOrder
  BY DEF IInv, InOrder, DoneInOrder
<1> QED
  BY <1>1, <1>2, <1>3, PTL DEF Spec

=============================================================================
