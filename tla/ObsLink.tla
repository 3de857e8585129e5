------------------------------- MODULE ObsLink -------------------------------
(***************************************************************************)
(* The link to OBS (extension/src/ObsManager.cpp, WsClient.cpp): presses of  *)
(* surface keys go out through a bounded queue, and the lamps of the keys    *)
(* show what OBS reports.                                                    *)
(*                                                                          *)
(* The main thread only queues requests and edits the settings.  The worker  *)
(* owns the socket: it connects, answers the hello, and once identified reads *)
(* everything there is before it sends what was queued.  OBS and the network *)
(* are external; OBS answers a question some time after it looked, so an     *)
(* event may overtake an answer.                                             *)
(*                                                                          *)
(* One key stands for all: it toggles the recording.  Of the scenes the model *)
(* keeps which of two lists OBS has.                                         *)
(***************************************************************************)
EXTENDS Naturals, Sequences

CONSTANTS
  QueueCap,   \* the requests push() keeps: 32
  MaxPress,   \* bound: how often the key is pressed
  MaxStir,    \* bound: how often settings, OBS or the network change
  WireCap     \* bound: messages on their way from OBS at once

ASSUME ObsAssumption ==
  /\ QueueCap \in Nat /\ MaxPress \in Nat
  /\ MaxStir \in Nat /\ WireCap \in Nat

Lists == {"listA", "listB"}
Passwords == {"none", "wrong", "right"}

\* A request is a numbered press of the key, or one of the two questions.
Requests == [ask : {"toggle"}, id : 1..MaxPress]
              \cup [ask : {"status", "scenes"}, id : {0}]
Status == [ask |-> "status", id |-> 0]
SceneList == [ask |-> "scenes", id |-> 0]

\* The answer to the hello; OBS knows whether the password in it is right.
Logins == [ask : {"login"}, right : BOOLEAN]

\* What OBS says: the two greetings, a record state, a scene list, and the bare
\* notice that the list changed.
Messages == [say : {"hello", "identified", "changed"}]
              \cup [say : {"record"}, on : BOOLEAN]
              \cup [say : {"scenes"}, list : Lists]

VARIABLES
  enabled, password, \* cfg_.enabled, password_
  presses,           \* reqSeq_: presses so far
  queue,             \* queue_
  unasked,           \* history: a full queue lost the question for the scenes
  sock,              \* "closed", "open", or "broken" and not yet noticed
  identified,        \* identified
  out,               \* what is left of the batch swapped out of the queue
  link,              \* link_
  recording, scenes, \* recording_ and scenes_: what the keys show
  toObs, toUs,       \* external: the two directions of the connection
  session,           \* external: "none", "greeted" or "identified"
  answers,           \* external: answers OBS has composed and not yet sent
  obsRec, obsList,   \* external: what OBS does
  stirs,             \* bookkeeping: changes from outside so far
  done               \* history: the presses OBS acted on, in order

settings == <<enabled, password>>
waiting == <<queue, unasked>>
mirror == <<recording, scenes>>
wire == <<toObs, toUs, session, answers>>
obs == <<obsRec, obsList, done, stirs>>
vars == <<settings, presses, waiting, sock, identified, out, link, mirror, wire, obs>>

TypeOK ==
  /\ enabled \in BOOLEAN /\ password \in Passwords
  /\ presses \in 0..MaxPress
  /\ queue \in Seq(Requests) /\ Len(queue) <= QueueCap /\ unasked \in BOOLEAN
  /\ out \in Seq(Requests) /\ Len(out) <= QueueCap
  /\ sock \in {"closed", "open", "broken"} /\ identified \in BOOLEAN
  /\ link \in {"off", "connecting", "ready", "failed"}
  /\ recording \in BOOLEAN /\ scenes \in Lists \cup {"none"}
  /\ toObs \in Seq(Requests \cup Logins)
  /\ toUs \in Seq(Messages)
  /\ session \in {"none", "greeted", "identified"}
  /\ answers \in Seq(Messages)
  /\ obsRec \in BOOLEAN /\ obsList \in Lists /\ done \in Seq(1..MaxPress)
  /\ stirs \in 0..MaxStir

Init ==
  /\ enabled = TRUE /\ password \in Passwords
  /\ presses = 0 /\ queue = <<>> /\ unasked = FALSE /\ out = <<>>
  /\ sock = "closed" /\ identified = FALSE /\ link = "off"
  /\ recording = FALSE /\ scenes = "none"
  /\ toObs = <<>> /\ toUs = <<>> /\ session = "none" /\ answers = <<>>
  /\ obsRec \in BOOLEAN /\ obsList = "listA" /\ done = <<>> /\ stirs = 0

-----------------------------------------------------------------------------
(* The main thread.                                                         *)

\* push, for one request after the other: a full queue loses its oldest.
Push(rs) ==
  LET all == queue \o rs
  IN  SubSeq(all, 1 + (IF Len(all) > QueueCap THEN Len(all) - QueueCap ELSE 0), Len(all))

Enqueue(rs) ==
  /\ queue' = Push(rs)
  /\ unasked' = \/ unasked
                \/ \E i \in 1..Len(queue \o rs) - QueueCap : (queue \o rs)[i] = SceneList

ToggleRecord ==
  /\ presses < MaxPress
  /\ presses' = presses + 1
  /\ Enqueue(<<[ask |-> "toggle", id |-> presses']>>)
  /\ UNCHANGED <<settings, sock, identified, out, link, mirror, wire, obs>>

Stir == stirs < MaxStir /\ stirs' = stirs + 1

SetConfig ==
  /\ Stir /\ enabled' = ~enabled
  /\ UNCHANGED <<password, presses, waiting, sock, identified, out, link, mirror, wire,
                 obsRec, obsList, done>>

SetPassword ==
  /\ Stir /\ password' \in Passwords \ {password}
  /\ UNCHANGED <<enabled, presses, waiting, sock, identified, out, link, mirror, wire,
                 obsRec, obsList, done>>

-----------------------------------------------------------------------------
(* The worker.                                                              *)

\* Closing the socket ends the session at the other side too.
HangUp ==
  /\ sock' = "closed" /\ identified' = FALSE /\ out' = <<>>
  /\ toObs' = <<>> /\ toUs' = <<>> /\ session' = "none" /\ answers' = <<>>

\* drop: the lamps go dark.
Drop == HangUp /\ recording' = FALSE /\ link' = "failed" /\ UNCHANGED scenes

\* Between two passes of its loop the worker holds no batch.
Pass == out = <<>> /\ UNCHANGED <<settings, presses, obs>>

\* Switched off, the socket is closed and the lamps keep what they show.
Off ==
  /\ Pass /\ ~enabled /\ (sock # "closed" \/ link # "off")
  /\ HangUp /\ link' = "off" /\ UNCHANGED <<waiting, mirror>>

\* After a failure the worker waits kRetryMs; a connection may fail at any time.
Connect ==
  /\ Pass /\ enabled /\ sock = "closed" /\ sock' = "open" /\ link' = "connecting"
  /\ toUs' = <<[say |-> "hello"]>> /\ session' = "greeted"
  /\ UNCHANGED <<waiting, identified, out, mirror, toObs, answers>>

ConnectFails ==
  /\ Pass /\ enabled /\ sock = "closed" /\ Drop /\ UNCHANGED waiting

\* A read, or a send, that finds the connection gone.
NoticeBroken ==
  /\ enabled \/ out # <<>>
  /\ sock = "broken" /\ Drop /\ UNCHANGED <<settings, presses, waiting, obs>>

\* What the next message is, and that the worker takes it.
Receive(s) ==
  /\ Pass /\ enabled /\ sock = "open" /\ toUs # <<>> /\ Head(toUs).say = s

Reading == toUs' = Tail(toUs) /\ UNCHANGED <<sock, out, session, answers>>

Hello ==
  /\ Receive("hello") /\ UNCHANGED waiting
  /\ IF password = "none" THEN Drop
     ELSE /\ Reading
          /\ toObs' = Append(toObs, [ask |-> "login", right |-> password = "right"])
          /\ UNCHANGED <<identified, link, mirror>>

Identified ==
  /\ Receive("identified") /\ Reading
  /\ identified' = TRUE /\ link' = "ready"
  /\ Enqueue(<<SceneList, Status>>)
  /\ UNCHANGED <<mirror, toObs>>

\* Events and answers with a record state.
Record ==
  /\ Receive("record") /\ Reading
  /\ recording' = Head(toUs).on
  /\ UNCHANGED <<waiting, identified, link, scenes, toObs>>

\* Faulty: the notice is overheard.
ScenesChangedIgnored ==
  /\ Receive("changed") /\ Reading
  /\ UNCHANGED <<waiting, identified, link, mirror, toObs>>

ScenesChanged ==
  /\ Receive("changed") /\ Reading
  /\ Enqueue(<<SceneList>>)
  /\ UNCHANGED <<identified, link, mirror, toObs>>

Scenes ==
  /\ Receive("scenes") /\ Reading
  /\ scenes' = Head(toUs).list
  /\ UNCHANGED <<waiting, identified, link, recording, toObs>>

\* Faulty: the queue is copied.
TakeBatchCopies ==
  /\ Pass /\ enabled /\ sock = "open" /\ toUs = <<>> /\ identified /\ queue # <<>>
  /\ out' = queue
  /\ UNCHANGED <<waiting, sock, identified, link, mirror, wire>>

\* Nothing left to read: the whole queue is swapped out at once, ...
TakeBatch ==
  /\ Pass /\ enabled /\ sock = "open" /\ toUs = <<>> /\ identified /\ queue # <<>>
  /\ out' = queue /\ queue' = <<>> /\ UNCHANGED unasked
  /\ UNCHANGED <<sock, identified, link, mirror, wire>>

\* ... and sent one by one.
SendOne ==
  /\ out # <<>> /\ sock = "open"
  /\ toObs' = Append(toObs, Head(out)) /\ out' = Tail(out)
  /\ UNCHANGED <<settings, presses, waiting, sock, identified, link, mirror, toUs,
                 session, answers, obs>>

\* Faulty: nobody asks again.
PollStatusNever == FALSE /\ UNCHANGED vars

\* Every kStatusPollMs the worker asks for the record state.
PollStatus ==
  /\ Pass /\ enabled /\ sock = "open" /\ toUs = <<>> /\ identified /\ queue = <<>>
  /\ toObs = <<>> /\ answers = <<>>
  /\ toObs' = <<Status>>
  /\ UNCHANGED <<waiting, sock, identified, out, link, mirror, toUs, session, answers>>

-----------------------------------------------------------------------------
(* OBS and the network.                                                     *)

Ours == <<settings, presses, waiting, identified, out, link, mirror>>

\* OBS tells an identified client what happens.
Tell(m) == toUs' = IF session = "identified" THEN Append(toUs, m) ELSE toUs

ObsReads(r) == toObs # <<>> /\ Head(toObs) = r /\ toObs' = Tail(toObs) /\ UNCHANGED Ours

ObsAccepts ==
  /\ ObsReads([ask |-> "login", right |-> TRUE]) /\ session' = "identified"
  /\ toUs' = Append(toUs, [say |-> "identified"])
  /\ UNCHANGED <<sock, answers, obs>>

\* A wrong password, or a request before the login, and OBS closes.
ObsRefuses ==
  /\ toObs # <<>> /\ sock = "open"
  /\ session = "greeted" /\ Head(toObs) # [ask |-> "login", right |-> TRUE]
  /\ sock' = "broken" /\ toObs' = <<>> /\ toUs' = <<>> /\ session' = "none" /\ answers' = <<>>
  /\ UNCHANGED <<Ours, obs>>

ObsToggles ==
  /\ session = "identified" /\ Len(toUs) < WireCap
  /\ \E i \in 1..MaxPress :
       /\ ObsReads([ask |-> "toggle", id |-> i])
       /\ done' = Append(done, i)
  /\ obsRec' = ~obsRec /\ Tell([say |-> "record", on |-> obsRec'])
  /\ UNCHANGED <<sock, session, answers, obsList, stirs>>

\* OBS looks now ...
ObsComposes ==
  /\ session = "identified"
  /\ \E q \in {Status, SceneList} :
       /\ ObsReads(q)
       /\ answers' = Append(answers,
            IF q = Status THEN [say |-> "record", on |-> obsRec]
                          ELSE [say |-> "scenes", list |-> obsList])
  /\ UNCHANGED <<sock, session, toUs, obs>>

\* ... and answers later.
ObsAnswers ==
  /\ answers # <<>> /\ Len(toUs) < WireCap
  /\ toUs' = Append(toUs, Head(answers)) /\ answers' = Tail(answers)
  /\ UNCHANGED <<Ours, sock, toObs, session, obs>>

\* Somebody works in OBS itself.
ObsRecords ==
  /\ Stir /\ Len(toUs) < WireCap
  /\ obsRec' = ~obsRec /\ Tell([say |-> "record", on |-> obsRec'])
  /\ UNCHANGED <<Ours, sock, toObs, session, answers, obsList, done>>

ObsScenes ==
  /\ Stir /\ Len(toUs) < WireCap
  /\ obsList' \in Lists \ {obsList} /\ Tell([say |-> "changed"])
  /\ UNCHANGED <<Ours, sock, toObs, session, answers, obsRec, done>>

Breaks ==
  /\ Stir /\ sock = "open" /\ sock' = "broken"
  /\ toObs' = <<>> /\ toUs' = <<>> /\ session' = "none" /\ answers' = <<>>
  /\ UNCHANGED <<Ours, obsRec, obsList, done>>

-----------------------------------------------------------------------------
Main == ToggleRecord \/ SetConfig \/ SetPassword

Worker ==
  \/ Off \/ Connect \/ NoticeBroken \/ Hello \/ Identified \/ Record \/ ScenesChanged
  \/ Scenes \/ TakeBatch \/ SendOne

Obs == ObsAccepts \/ ObsRefuses \/ ObsToggles \/ ObsComposes \/ ObsAnswers

Outside == ObsRecords \/ ObsScenes \/ Breaks

Next == Main \/ Worker \/ ConnectFails \/ PollStatus \/ Obs \/ Outside

Fairness == WF_vars(Worker) /\ WF_vars(PollStatus) /\ WF_vars(Obs)

Spec == Init /\ [][Next]_vars /\ Fairness

-----------------------------------------------------------------------------
(* What the link promises.                                                  *)

\* A press reaches OBS at most once and never behind a later one: a lost
\* connection loses presses, it never repeats or reorders them.
AtMostOnceInOrder == \A i, j \in DOMAIN done : i < j => done[i] < done[j]

\* A lamp that differs from OBS is right again once OBS and the link hold still.
LampsCatchUp ==
  \A b \in BOOLEAN :
    (link = "ready" /\ obsRec = b)
      ~> (recording = b \/ obsRec # b \/ link # "ready")

\* So is the list of scenes that the keys name, unless the full queue lost the
\* question for it.
ScenesCatchUp ==
  \A s \in Lists :
    (link = "ready" /\ obsList = s)
      ~> (scenes = s \/ obsList # s \/ link # "ready" \/ unasked)

=============================================================================
