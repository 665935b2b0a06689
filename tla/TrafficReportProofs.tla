-------------------------- MODULE TrafficReportProofs --------------------------
(***************************************************************************)
(* Proofs about the response to a Send: under a test manager that has      *)
(* receivers running before it sends, names all senders in one command and *)
(* waits for the response (ReportTests), there is one response to a Send,  *)
(* and when the senders run until the alarm without a start delay          *)
(* (LongSenders) it lists the streams of the Send, all of them at rest.    *)
(***************************************************************************)
EXTENDS TrafficTestProofs

USE DEF tableVars, flagVars, threadVars, mainVars, scriptVars

ReportTests == DeliveryTests /\ "patient" \in Habits

\* The row with this id, if there is one, is of a stream in this direction.
DirOf(id, d) == \E s \in Slots : gStreams[s].id = id /\ gStreams[s].prof.dir = d

\* A command under way is the one that awaits its response, and names streams of
\* its direction; a Send is under way only while a receiver lives.
RecvStarts == {"recvStart", "recvStartSignal"}
SendStarts == {"send", "sendSignal"}
AskedDir ==
  /\ mpc \in RecvStarts => \A i \in 1 .. Len(asked) : DirOf(asked[i], "RECV")
  /\ mpc \in SendStarts => \A i \in 1 .. Len(asked) : DirOf(asked[i], "SEND")
SendsToLive == mpc \in SendStarts => live # {}
Matches ==
  /\ mpc \in RecvStarts => pending = "recvStart"
  /\ mpc \in SendStarts => pending = "send"
  /\ mpc \in {"stopWait", "recvStop"} => pending = "recvStop"
CommandInv == AskedDir /\ SendsToLive /\ Matches

\* The first thread goes to a receiver: whatever else is to be started is posted
\* to a later one.
FirstReceives ==
  live # {} /\ Awaits # {} => usedThread >= 1 \/ (mpc \in RecvStarts /\ next = 1)

\* A thread that sends, or has a stream to send; SenderStates and "init".
Flagged(t)   == thr_flag[t] # 0 /\ DirOf(thr_flag[t], "SEND")
HasSender(t) == wpc[t] \in SenderStates \cup {"init"} \/ Flagged(t)
NotFirst     == ~HasSender(0)

\* Unless a response is awaited, no thread will report one.
ToReport == SenderStates \ {"clear"}
NoneToReport ==
  pending # "send" =>
    \A t \in Threads : wpc[t] # "init" /\ ~Flagged(t) /\ (wpc[t] \in ToReport => sendThrId # t)

ReportInv == CommandInv /\ FirstReceives /\ NotFirst /\ NoneToReport

-----------------------------------------------------------------------------
(* Commands and responses. *)

\* A lookup finds a stream of a direction when the table has one.
LEMMA NamesDir ==
  ASSUME TableIndexed, NEW id, id # 0, NEW d PROVE Names(id, d) <=> DirOf(id, d)
<1>1. ASSUME Names(id, d) PROVE DirOf(id, d)
  BY <1>1, FindSlotType DEF Names, ProfileOf, DirOf
<1>2. ASSUME DirOf(id, d) PROVE Names(id, d)
  <2>1. PICK s \in Slots : gStreams[s].id = id /\ gStreams[s].prof.dir = d
    BY <1>2 DEF DirOf
  <2>2. FindSlot(id) \in Slots /\ gStreams[FindSlot(id)].id = id
    BY <2>1, KnownFound DEF Known
  <2>3. FindSlot(id) = s
    BY <2>1, <2>2 DEF TableIndexed
  <2> QED BY <2>1, <2>2, <2>3, RangeFacts DEF Names, ProfileOf
<1> QED BY <1>1, <1>2

\* Rows keep their directions in every step but Config and Reset.
LEMMA DirsStay ==
  ASSUME TypeInv, [Next]_vars, ~Reset, ~ \E p \in Profiles : Config(p)
  PROVE  \A id, d : DirOf(id, d)' <=> DirOf(id, d)
BY RowsStay DEF IdsKept, SameRow, DirOf

\* The stream a start is about is of the direction of the command.
LEMMA CurrentDir ==
  ASSUME TypeInv, TableIndexed, CommandInv, mpc \in {"recvStart", "send"}, More
  PROVE  Current # 0 /\ Names(Current, IF mpc = "recvStart" THEN "RECV" ELSE "SEND")
<1>1. PICK q \in Seq(Ids) : q = asked
  BY DEF TypeInv, TypeOK, MainTypeOK
<1>2. next \in 1 .. Len(asked) /\ Current = asked[next] /\ Current \in Ids
  BY <1>1 DEF More, Current, TypeInv, TypeOK, MainTypeOK
<1>3. Current # 0 /\ DirOf(Current, IF mpc = "recvStart" THEN "RECV" ELSE "SEND")
  BY <1>2 DEF Ids, CommandInv, AskedDir, RecvStarts, SendStarts
<1> QED BY <1>3, NamesDir

\* While the test manager waits for a response it asks for nothing.
LEMMA AsksInTurn ==
  ASSUME ReportTests, MayAsk PROVE mpc = "idle" /\ pending = "none"
BY DEF ReportTests, MayAsk, Does

\* Every step keeps command, direction and awaited response together.
LEMMA CommandStep ==
  ASSUME ReportTests, TypeInv, TableIndexed, CommandInv, [Next]_vars
  PROVE  CommandInv'
<1> USE DEF CommandInv, AskedDir, SendsToLive, Matches, RecvStarts, SendStarts
<1>1. ASSUME mpc' \notin BusyMain PROVE CommandInv'
  BY <1>1 DEF BusyMain, Starting
<1>2. CASE \/ Reset \/ (\E p \in Profiles : Config(p)) \/ RecvStartReject \/ RecvStartEnd
           \/ SendReject \/ SendEnd \/ RecvStopReject \/ Select \/ Wake
  <2>1. mpc' \in {"select", "accept", "idle"}
    BY <1>2 DEF Reset, Config, RecvStartReject, RecvStartEnd, SendReject, SendEnd, RecvStopReject, Leave, Select,
                Wake, BackToSelect
  <2> QED BY <2>1, <1>1 DEF BusyMain, Starting
<1> SUFFICES ASSUME ~Reset, ~ \E p \in Profiles : Config(p) PROVE CommandInv'
  BY <1>2
<1>3. \A id, d : DirOf(id, d)' <=> DirOf(id, d)
  BY DirsStay
<1>4. OrderlyTests /\ Does("patient")
  BY DEF ReportTests, DeliveryTests, Does
<1>5. ASSUME NEW ids \in Batches, RecvStart(ids) PROVE CommandInv'
  <2>1. Among(ids, OfDir(fresh, "RECV")) /\ mpc' = "recvStart" /\ asked' = ids /\ pending' = "recvStart"
    BY <1>4, <1>5 DEF RecvStart, Begin
  <2>2. \A i \in 1 .. Len(ids) : ids[i] # 0 /\ Names(ids[i], "RECV")
    BY <2>1, <1>4, StartedIds DEF TypeInv, TypeOK, ScriptTypeOK, Ids
  <2> QED BY <2>1, <2>2, <1>3, NamesDir
<1>6. ASSUME NEW ids \in Batches, Send(ids) PROVE CommandInv'
  <2>1. Among(ids, OfDir(fresh, "SEND")) /\ mpc' = "send" /\ asked' = ids /\ pending' = "send" /\ live' = live
    BY <1>4, <1>6 DEF Send, Begin
  <2>2. \A i \in 1 .. Len(ids) : ids[i] # 0 /\ Names(ids[i], "SEND")
    BY <2>1, <1>4, StartedIds DEF TypeInv, TypeOK, ScriptTypeOK, Ids
  <2>3. live # {}
    BY <1>6 DEF Send, MaySend, Does, ReportTests, DeliveryTests
  <2> QED BY <2>1, <2>2, <2>3, <1>3, NamesDir
<1>7. ASSUME NEW ids \in Batches, RecvStop(ids) PROVE CommandInv'
  BY <1>4, <1>7 DEF RecvStop, Begin
<1>8. CASE RecvStartOne \/ SendOne \/ Signal
  <2>1. /\ mpc \in RecvStarts <=> mpc' \in RecvStarts
        /\ mpc \in SendStarts <=> mpc' \in SendStarts
        /\ mpc' \notin {"stopWait", "recvStop"}
        /\ UNCHANGED <<asked, live, pending>>
    BY <1>8 DEF RecvStartOne, SendOne, Signal, Post
  <2> QED BY <2>1, <1>3
<1>9. CASE RecvStopWaited \/ RecvStopOne \/ RecvStopEnd
  <2>1. \/ mpc' = "select"
        \/ mpc \in {"stopWait", "recvStop"} /\ mpc' = "recvStop" /\ pending' = pending
    BY <1>9 DEF RecvStopWaited, RecvStopOne, RecvStopEnd, Leave
  <2> QED BY <2>1
<1>10. CASE Alarm \/ SendPing \/ (\E id \in Ids : StopPing(id)) \/ UNCHANGED vars
  <2>1. UNCHANGED <<mainVars, live, pending>>
    BY <1>4, <1>10 DEF Alarm, SendPing, StopPing, OrderlyTests, Does, vars
  <2> QED BY <2>1, <1>3
<1>11. ASSUME NEW t \in Threads, Worker(t) \/ SendBroken(t) \/ BurstOverrun(t) PROVE CommandInv'
  <2>1. UNCHANGED <<mainVars, live>>
    <3>1. CASE Take(t) \/ Find(t)
      BY <3>1 DEF Take, Find
    <3>2. CASE ~Take(t) /\ ~Find(t)
      BY <1>11, <3>2, ThreadStep DEF Worker, ThreadKeeps
    <3> QED BY <3>1, <3>2
  <2>2. pending' = pending \/ (Report(t) /\ pending' = IF pending = "send" THEN "none" ELSE pending)
    <3> USE <1>11 DEF Worker
    <3>1. CASE Report(t)
      BY <3>1 DEF Report, Answered
    <3>2. CASE \/ Test(t) \/ CondWait(t) \/ Take(t) \/ Find(t) \/ SendInit(t) \/ Launch(t) \/ LongStop(t) \/ PacedStop(t)
      BY <3>2 DEF Test, CondWait, Take, Find, SendInit, Launch, LongStop, PacedStop
    <3>3. CASE \/ TransacStop(t) \/ CloseSend(t) \/ ClearSender(t) \/ RecvInit(t) \/ RecvExit(t)
               \/ TransacExit(t) \/ SendBroken(t) \/ BurstOverrun(t)
      BY <3>3 DEF TransacStop, CloseSend, ClearSender, RecvInit, RecvExit, TransacExit, SendBroken, BurstOverrun
    <3> QED BY <3>1, <3>2, <3>3
  <2>3. Report(t) => mpc \notin SendStarts
    BY <1>4 DEF Report, SecondPasses, MainRests, OrderlyTests
  <2> QED BY <2>1, <2>2, <2>3, <1>3
<1> QED BY <1>2, <1>5, <1>6, <1>7, <1>8, <1>9, <1>10, <1>11 DEF Next, TestManager, Main

\* Under Prompt a second passes only when no start is under way.
LEMMA SecondsAreQuiet ==
  ASSUME ReportTests, TypeInv, fault = "none", DeliveryInv, NoLostWakeup, SecondPasses
  PROVE  /\ MainRests /\ mpc \notin Starting
         /\ \A t \in Threads : thr_flag[t] = 0 /\ wpc[t] \notin Taking \cup {"init"}
<1>1. MainRests /\ \A t \in Threads : ~AtOnce(t)
  BY DEF ReportTests, DeliveryTests, OrderlyTests, SecondPasses, Soon
<1>2. mpc \notin Starting
  BY <1>1 DEF MainRests, Starting
<1>3. \A t \in Threads : wpc[t] \notin {"start", "toWait", "init"} \cup Taking
  BY <1>1 DEF AtOnce, Taking
<1>4. \A t \in Threads : thr_flag[t] # 0 => wpc[t] # "waiting"
  BY <1>2 DEF NoLostWakeup, Starting
<1> QED BY <1>1, <1>2, <1>3, <1>4 DEF DeliveryInv, BusyFlag, Idling

\* When the alarm comes, every stream of the test has been started.
LEMMA AlarmAfterAll ==
  ASSUME ReportTests, TypeInv, DeliveryInv, Alarm PROVE Awaits = {}
<1>1. alarm /\ MainRests
  BY DEF Alarm, SecondPasses, ReportTests, DeliveryTests, OrderlyTests
<1>2. \A s \in Slots : gStreams[s].id \notin fresh
  BY <1>1 DEF DeliveryInv, AllSent, Underway, Known
<1> QED BY <1>1, <1>2 DEF Awaits, Left, MainRests, Starting

\* Once a receiver lives, no step makes thread 0 the next while a row awaits its start.
LEMMA FirstReceivesStep ==
  ASSUME ReportTests, TypeInv, TableIndexed, OrderlyInv, DeliveryInv, CommandInv, FirstReceives, [Next]_vars
  PROVE  FirstReceives'
<1> USE DEF FirstReceives, RecvStarts
<1>1. OrderlyTests /\ usedThread \in Nat
  BY ConstantsAssumption DEF ReportTests, DeliveryTests, TypeInv, TypeOK, FlagTypeOK
<1>2. CASE Reset \/ \E p \in Profiles : Config(p)
  <2>1. live' = {}
    BY <1>1, <1>2, NewTests DEF Reset, Config, MayConfigure
  <2> QED BY <2>1
<1> SUFFICES ASSUME ~Reset, ~ \E p \in Profiles : Config(p) PROVE FirstReceives'
  BY <1>2
<1>3. Awaits' \subseteq Awaits
  BY <1>1, AwaitsShrink
<1>4. ASSUME NEW ids \in Batches, RecvStart(ids) PROVE FirstReceives'
  BY <1>4 DEF RecvStart, Begin
<1>5. ASSUME usedThread' = usedThread, live # {} \/ live' = {},
             mpc \notin RecvStarts \/ (mpc' \in RecvStarts /\ next' = next)
      PROVE  FirstReceives'
  BY <1>3, <1>5
<1>6. CASE RecvStartOne
  <2>1. mpc \in RecvStarts /\ mpc' \in RecvStarts /\ UNCHANGED <<next, usedThread, live>>
    BY <1>6 DEF RecvStartOne, Post
  <2> QED BY <2>1, <1>3
<1>7. CASE Signal
  <2>1. usedThread' >= 1
    BY <1>1, <1>7 DEF Signal, NextThread
  <2> QED BY <2>1
<1>8. CASE RecvStartReject
  BY <1>8, CurrentDir DEF RecvStartReject
<1>9. CASE RecvStartEnd
  <2>1. Len(asked) > 0 /\ ~(next <= Len(asked)) /\ UNCHANGED <<usedThread, live>>
    BY <1>9 DEF RecvStartEnd, More, OrderlyInv, AskedKnown, BusyMain, Starting
  <2>2. Len(asked) \in Nat /\ next \in Nat
    <3>1. PICK q \in Seq(Ids) : q = asked
      BY DEF TypeInv, TypeOK, MainTypeOK
    <3> QED BY <3>1 DEF TypeInv, TypeOK, MainTypeOK
  <2>3. next # 1
    BY <2>1, <2>2
  <2> QED BY <2>1, <2>3, <1>3
<1>10. CASE \/ SendReject \/ SendOne \/ SendEnd \/ RecvStopWaited \/ RecvStopReject \/ RecvStopOne \/ RecvStopEnd
            \/ Select \/ Wake \/ \E ids \in Batches : Send(ids) \/ RecvStop(ids)
  <2>1. /\ usedThread' = usedThread /\ mpc \notin RecvStarts
        /\ live' \subseteq live
    BY <1>1, <1>10 DEF SendReject, SendOne, SendEnd, RecvStopWaited, RecvStopReject, RecvStopOne, RecvStopEnd, Select, Wake,
                Send, RecvStop, Begin, MayAsk, Note, OrderlyTests, Does
  <2> QED BY <2>1, <1>5
<1>11. CASE Alarm
  BY <1>11, <1>3, AlarmAfterAll
<1>12. CASE SendPing \/ (\E id \in Ids : StopPing(id)) \/ UNCHANGED vars
  BY <1>1, <1>3, <1>12 DEF SendPing, StopPing, OrderlyTests, Does, vars
<1>13. ASSUME NEW t \in Threads, Worker(t) \/ SendBroken(t) \/ BurstOverrun(t) PROVE FirstReceives'
  <2>1. UNCHANGED <<mainVars, live, usedThread>>
    <3>1. CASE Take(t) \/ Find(t)
      BY <3>1 DEF Take, Find
    <3>2. CASE ~Take(t) /\ ~Find(t)
      BY <1>13, <3>2, ThreadStep DEF Worker, ThreadKeeps
    <3> QED BY <3>1, <3>2
  <2> QED BY <2>1, <1>3
<1> QED BY <1>4, <1>6, <1>7, <1>8, <1>9, <1>10, <1>11, <1>12, <1>13 DEF Next, TestManager, Main

-----------------------------------------------------------------------------
(* Who sends. *)

\* But for SendOne no step gives a thread a stream to send, and what sends and is
\* recorded as the reporter was on its way to do so.
SendersStay ==
  \A t \in Threads :
    /\ Flagged(t)' => Flagged(t)
    /\ wpc'[t] = "init" => wpc[t] = "init" \/ Flagged(t)
    /\ wpc'[t] \in SenderStates => wpc[t] \in SenderStates \cup {"init"}
    /\ wpc'[t] \in ToReport => wpc[t] \in ToReport \cup {"init"}

\* Every step but SendOne gives no thread a stream to send.
LEMMA SendersStayStep ==
  ASSUME ReportTests, TypeInv, TableIndexed, OrderlyInv, CommandInv, [Next]_vars, ~SendOne
  PROVE  SendersStay
<1> USE DEF SendersStay, SenderStates, ToReport, Sending
<1>1. OrderlyTests
  BY DEF ReportTests, DeliveryTests
<1>2. CASE Reset \/ \E p \in Profiles : Config(p)
  <2>1. \A t \in Threads : thr_flag'[t] = 0 /\ wpc'[t] = "waiting"
    BY <1>1, <1>2, NewTests DEF Reset, Config, MayConfigure
  <2> QED BY <2>1 DEF Flagged
<1> SUFFICES ASSUME ~Reset, ~ \E p \in Profiles : Config(p) PROVE SendersStay
  BY <1>2
<1>3. \A id, d : DirOf(id, d)' <=> DirOf(id, d)
  BY DirsStay
<1>4. ASSUME \A t \in Threads : thr_flag'[t] \in {0, thr_flag[t]},
             \A t \in Threads : wpc'[t] = wpc[t] \/ wpc'[t] = "start"
      PROVE  SendersStay
  BY <1>3, <1>4 DEF Flagged
<1>5. CASE RecvStartOne
  <2>1. DirOf(Current, "RECV") /\ Current # 0 /\ wpc' = wpc
    BY <1>5, CurrentDir, NamesDir DEF RecvStartOne
  <2>2. ~DirOf(Current, "SEND")
    BY <2>1 DEF DirOf, TableIndexed
  <2>3. \A t \in Threads : thr_flag'[t] \in {thr_flag[t], Current}
    BY <1>5 DEF RecvStartOne, Post, TypeInv, TypeOK, FlagTypeOK
  <2> QED BY <2>1, <2>2, <2>3, <1>3 DEF Flagged
<1>6. CASE Signal
  BY <1>4, <1>6 DEF Signal, TypeInv, TypeOK, ThreadTypeOK
<1>7. CASE \/ RecvStartReject \/ RecvStartEnd \/ SendReject \/ SendEnd \/ RecvStopReject
           \/ Select \/ Wake \/ RecvStopWaited \/ RecvStopOne \/ RecvStopEnd
           \/ \E ids \in Batches : RecvStart(ids) \/ Send(ids) \/ RecvStop(ids)
  BY <1>4, <1>7 DEF RecvStartReject, RecvStartEnd, SendReject, SendEnd, RecvStopReject, Select, Wake,
              RecvStopWaited, RecvStopOne, RecvStopEnd, RecvStart, Send, RecvStop, Begin
<1>8. CASE Alarm \/ SendPing \/ (\E id \in Ids : StopPing(id)) \/ UNCHANGED vars
  BY <1>4, <1>8 DEF Alarm, SendPing, StopPing, vars
<1>9. ASSUME NEW t \in Threads, Find(t) PROVE SendersStay
  <2> DEFINE s == FindSlot(wid[t])
  <2>1. thr_flag[t] # 0 /\ wid[t] = thr_flag[t] /\ thr_flag' = [thr_flag EXCEPT ![t] = 0]
    BY <1>9 DEF Find, Move, Again, OrderlyInv, TakesStart, Taking
  <2>2. \A u \in Threads \ {t} : wpc'[u] = wpc[u]
    BY <1>9 DEF Find, Move, Again, TypeInv, TypeOK, ThreadTypeOK
  <2>3. /\ wpc'[t] \in {"taken", "start", "init", "recvInit"}
        /\ wpc'[t] = "init" => s # NoSlot /\ gStreams[s].prof.dir = "SEND"
    BY <1>9 DEF Find, Move, Again, TypeInv, TypeOK, ThreadTypeOK
  <2>4. wpc'[t] = "init" => Flagged(t)
    BY <2>1, <2>3, FindSlotType DEF Flagged, DirOf
  <2> QED BY <2>1, <2>2, <2>3, <2>4, <1>3 DEF Flagged, TypeInv, TypeOK, FlagTypeOK
<1>10. ASSUME NEW t \in Threads,
              \/ Test(t) \/ CondWait(t) \/ SendInit(t) \/ Launch(t) \/ LongStop(t) \/ PacedStop(t)
              \/ TransacStop(t) \/ CloseSend(t) \/ Report(t) \/ ClearSender(t) \/ RecvInit(t) \/ RecvExit(t)
              \/ TransacExit(t) \/ SendBroken(t) \/ BurstOverrun(t)
       PROVE  SendersStay
  <2>1. \A u \in Threads : thr_flag'[u] \in {0, thr_flag[u]} /\ (u # t => wpc'[u] = wpc[u])
    <3>1. ThreadKeeps(t)
      BY <1>10, ThreadStep
    <3> QED BY <3>1 DEF ThreadKeeps, TypeInv, TypeOK, FlagTypeOK, ThreadTypeOK
  <2>2. \/ wpc[t] \in ToReport \cup {"init"} /\ wpc'[t] # "init"
        \/ wpc[t] = "clear" /\ wpc'[t] = "start"
        \/ wpc'[t] \notin SenderStates \cup {"init"}
    <3> USE DEF Move, Again, TypeInv, TypeOK, ThreadTypeOK
    <3>1. CASE Test(t) \/ CondWait(t) \/ SendInit(t)
      BY <3>1 DEF Test, CondWait, SendInit
    <3>2. CASE Launch(t)
      BY <3>2, LoopType DEF Launch, Loops
    <3>3. CASE LongStop(t) \/ PacedStop(t) \/ TransacStop(t) \/ CloseSend(t)
      BY <3>3 DEF LongStop, PacedStop, TransacStop, CloseSend
    <3>4. CASE Report(t) \/ ClearSender(t)
      BY <3>4 DEF Report, ClearSender
    <3>5. CASE RecvInit(t) \/ RecvExit(t) \/ TransacExit(t) \/ SendBroken(t) \/ BurstOverrun(t)
      BY <3>5 DEF RecvInit, RecvExit, TransacExit, SendBroken, BurstOverrun
    <3> QED BY <1>10, <3>1, <3>2, <3>3, <3>4, <3>5
  <2> QED BY <2>1, <2>2, <1>3 DEF Flagged
<1>11. ASSUME NEW t \in Threads, Take(t) PROVE SendersStay
  <2>1. thr_flag' = thr_flag /\ \A u \in Threads : wpc'[u] # wpc[u] => wpc'[u] = "taken"
    BY <1>11 DEF Take, Move, TypeInv, TypeOK, ThreadTypeOK
  <2> QED BY <2>1, <1>3 DEF Flagged
<1> QED BY <1>5, <1>6, <1>7, <1>8, <1>9, <1>10, <1>11 DEF Next, TestManager, Main, Worker

\* No step makes the first thread a sender.
LEMMA NotFirstStep ==
  ASSUME ReportTests, TypeInv, TableIndexed, OrderlyInv, CommandInv, FirstReceives, NotFirst, [Next]_vars
  PROVE  NotFirst'
<1>1. 0 \in Threads
  BY RangeFacts
<1>2. CASE SendOne
  <2>1. mpc = "send" /\ More
    BY <1>2 DEF SendOne
  <2>2. live # {}
    BY <2>1 DEF CommandInv, SendsToLive, SendStarts
  <2>3. Awaits # {}
    <3>1. PICK q \in Seq(Ids) : q = asked
      BY DEF TypeInv, TypeOK, MainTypeOK
    <3>2. next \in 1 .. Len(asked)
      BY <2>1, <3>1 DEF More, TypeInv, TypeOK, MainTypeOK
    <3>3. PICK s \in Slots : gStreams[s].id = asked[next]
      BY <2>1, <3>2 DEF OrderlyInv, AskedKnown, BusyMain, Starting, Known
    <3>4. s \in Awaits
      BY <2>1, <3>2, <3>3 DEF Awaits, Left, Starting
    <3> QED BY <3>4
  <2>4. usedThread # 0
    BY <2>1, <2>2, <2>3 DEF FirstReceives, RecvStarts
  <2>5. wpc' = wpc /\ thr_flag'[0] = thr_flag[0]
    BY <1>1, <1>2, <2>4 DEF SendOne, Post, TypeInv, TypeOK, FlagTypeOK
  <2>6. \A id, d : DirOf(id, d)' <=> DirOf(id, d)
    BY <1>2, DirsStay DEF SendOne, Config, Reset, MayAsk
  <2> QED BY <2>5, <2>6 DEF NotFirst, HasSender, Flagged
<1>3. CASE ~SendOne
  <2>1. SendersStay
    BY <1>3, SendersStayStep
  <2> QED BY <1>1, <2>1 DEF SendersStay, NotFirst, HasSender
<1> QED BY <1>2, <1>3

\* The only step that ends the wait for a Send's response is the report of the
\* thread recorded in sendThrId.
LEMMA AnswerIsReport ==
  ASSUME ReportTests, TypeInv, TableIndexed, CommandInv, [Next]_vars, pending = "send", pending' # "send"
  PROVE  \E t \in Threads : Report(t) /\ t = sendThrId
<1>1. ~MayAsk
  BY AsksInTurn
<1>2. ~TestManager
  BY <1>1 DEF TestManager, Config, SendPing, StopPing, Reset, RecvStart, Send, RecvStop
<1>3. ~SendReject
  BY CurrentDir DEF SendReject
<1>4. ~ \/ Select \/ Wake \/ Alarm \/ Signal \/ RecvStartReject \/ RecvStartOne \/ SendOne \/ SendEnd
        \/ RecvStopWaited \/ RecvStopOne \/ UNCHANGED vars
  BY DEF Select, Wake, Alarm, Signal, RecvStartReject, RecvStartOne, SendOne, SendEnd, RecvStopWaited, RecvStopOne, vars
<1>5. ~ \/ RecvStartEnd \/ RecvStopReject \/ RecvStopEnd
  BY DEF RecvStartEnd, RecvStopReject, RecvStopEnd, Answered
<1>6. PICK t \in Threads : Worker(t) \/ SendBroken(t) \/ BurstOverrun(t)
  BY <1>2, <1>3, <1>4, <1>5 DEF Next, Main
<1>7. ~ \/ Test(t) \/ CondWait(t) \/ Take(t) \/ Find(t) \/ SendInit(t) \/ Launch(t) \/ LongStop(t) \/ PacedStop(t)
  BY DEF Test, CondWait, Take, Find, SendInit, Launch, LongStop, PacedStop
<1>8. ~ \/ TransacStop(t) \/ CloseSend(t) \/ ClearSender(t) \/ RecvInit(t) \/ RecvExit(t)
        \/ TransacExit(t) \/ SendBroken(t) \/ BurstOverrun(t)
  BY DEF TransacStop, CloseSend, ClearSender, RecvInit, RecvExit, TransacExit, SendBroken, BurstOverrun
<1>9. Report(t)
  BY <1>6, <1>7, <1>8 DEF Worker
<1>10. t = sendThrId
  BY <1>9 DEF Report, IsReporter
<1> QED BY <1>9, <1>10

\* The record of the reporter changes to a thread that starts to send, or to 0.
LEMMA RecordedBy ==
  ASSUME TypeInv, [Next]_vars
  PROVE  sendThrId' = sendThrId \/ sendThrId' = 0 \/ (sendThrId' \in Threads /\ wpc[sendThrId'] = "init")
<1>1. CASE TestManager \/ Main \/ Wake \/ Alarm \/ UNCHANGED vars
  <2>1. CASE TestManager
    BY <2>1 DEF TestManager, Config, SendPing, StopPing, Reset, RecvStart, Send, RecvStop, Begin
  <2>2. CASE Main \/ Wake \/ Alarm \/ UNCHANGED vars
    BY <2>2 DEF Main, Select, Wake, Alarm, Signal, RecvStartReject, RecvStartOne, RecvStartEnd, SendReject, SendOne, SendEnd,
                RecvStopWaited, RecvStopReject, RecvStopOne, RecvStopEnd, vars
  <2> QED BY <1>1, <2>1, <2>2
<1>2. ASSUME NEW t \in Threads, Worker(t) \/ SendBroken(t) \/ BurstOverrun(t)
      PROVE  sendThrId' = sendThrId \/ sendThrId' = 0 \/ (sendThrId' = t /\ wpc[t] = "init")
  <2> USE <1>2 DEF Worker
  <2>1. CASE SendInit(t)
    BY <2>1 DEF SendInit, Move, Again
  <2>2. CASE Test(t) \/ CondWait(t) \/ Take(t) \/ Find(t) \/ Launch(t) \/ LongStop(t) \/ PacedStop(t) \/ TransacStop(t)
    BY <2>2 DEF Test, CondWait, Take, Find, Launch, LongStop, PacedStop, TransacStop
  <2>3. CASE \/ CloseSend(t) \/ Report(t) \/ ClearSender(t) \/ RecvInit(t) \/ RecvExit(t)
             \/ TransacExit(t) \/ SendBroken(t) \/ BurstOverrun(t)
    BY <2>3 DEF CloseSend, Report, ClearSender, RecvInit, RecvExit, TransacExit, SendBroken, BurstOverrun
  <2> QED BY <2>1, <2>2, <2>3
<1> QED BY <1>1, <1>2 DEF Next

\* The step that ends the wait for a response leaves nobody who would report again.
LEMMA NoneToReportStep ==
  ASSUME ReportTests, TypeInv, TableIndexed, OrderlyInv, DeliveryInv, NoLostWakeup, CommandInv,
         NotFirst, NoneToReport, [Next]_vars
  PROVE  NoneToReport'
<1> SUFFICES ASSUME pending' # "send" PROVE NoneToReport'
  BY DEF NoneToReport
<1> USE DEF NoneToReport
<1>1. CASE pending = "send"
  <2>1. PICK t \in Threads : Report(t) /\ t = sendThrId
    BY <1>1, AnswerIsReport
  <2>2. \A u \in Threads : thr_flag[u] = 0 /\ wpc[u] # "init"
    BY <2>1, SecondsAreQuiet DEF Report, OrderlyInv
  <2>3. UNCHANGED <<thr_flag, sendThrId>> /\ wpc' = [wpc EXCEPT ![t] = "clear"]
    BY <2>1 DEF Report, IsReporter, Move
  <2> QED BY <2>1, <2>2, <2>3 DEF Flagged, ToReport, TypeInv, TypeOK, ThreadTypeOK
<1>2. CASE pending # "send"
  <2>1. ~SendOne
    BY <1>2 DEF SendOne, CommandInv, Matches, SendStarts
  <2>2. SendersStay
    BY <2>1, SendersStayStep
  <2>3. \A t \in Threads : wpc'[t] # "init" /\ ~Flagged(t)'
    BY <1>2, <2>2 DEF SendersStay
  <2>4. ASSUME NEW t \in Threads, wpc'[t] \in ToReport, sendThrId' = t PROVE FALSE
    <3>1. wpc[t] \in ToReport /\ wpc[t] # "init"
      BY <1>2, <2>2, <2>4 DEF SendersStay
    <3>2. sendThrId' = sendThrId \/ sendThrId' = 0 \/ wpc[sendThrId'] = "init"
      BY RecordedBy
    <3>3. t = 0
      BY <1>2, <2>4, <3>1, <3>2
    <3> QED BY <3>1, <3>3 DEF NotFirst, HasSender, ToReport
  <2> QED BY <2>3, <2>4
<1> QED BY <1>1, <1>2

\* ReportInv holds of every run of tests that wait for their responses.
LEMMA ReportInvariant ==
  ASSUME ReportTests PROVE Spec => []ReportInv
<1> USE DEF ReportInv
<1>1. Init => ReportInv
  <2> SUFFICES ASSUME Init PROVE ReportInv
    OBVIOUS
  <2>1. CommandInv /\ FirstReceives
    BY DEF Init, CommandInv, AskedDir, SendsToLive, Matches, RecvStarts, SendStarts, FirstReceives
  <2>2. NotFirst /\ NoneToReport
    BY RangeFacts DEF Init, NotFirst, NoneToReport, HasSender, Flagged, SenderStates, ToReport, Sending
  <2> QED BY <2>1, <2>2
<1>2. /\ TypeInv /\ TableIndexed /\ OrderlyInv /\ DeliveryInv /\ NoLostWakeup /\ ReportInv /\ [Next]_vars
      => ReportInv'
  BY CommandStep, FirstReceivesStep, NotFirstStep, NoneToReportStep
<1>3. DeliveryTests /\ OrderlyTests
  BY DEF ReportTests, DeliveryTests
<1>4. Spec => []OrderlyInv /\ []DeliveryInv
  BY <1>3, OrderlyInvariant, DeliveryInvariant
<1> QED BY <1>1, <1>2, <1>4, TypeInvariant, TableStaysIndexed, WakeupNeverLost, PTL DEF Spec

\* A step that reports is the Report of the thread recorded in sendThrId.
LEMMA ReportingStep ==
  ASSUME TypeInv, [Next]_vars, NEW t \in Threads, wpc[t] = "report", wpc'[t] = "clear"
  PROVE  Report(t) /\ t = sendThrId
<1> USE DEF TypeInv, TypeOK, ThreadTypeOK
<1>1. ~TestManager
  BY DEF TestManager, Config, SendPing, StopPing, Reset, RecvStart, Send, RecvStop, Begin
<1>2. ~ (Main \/ Wake \/ Alarm \/ UNCHANGED vars)
  BY DEF Main, Select, Wake, Alarm, Signal, RecvStartReject, RecvStartOne, RecvStartEnd, SendReject, SendOne, SendEnd,
         RecvStopWaited, RecvStopReject, RecvStopOne, RecvStopEnd, vars
<1>3. PICK u \in Threads : Worker(u) \/ SendBroken(u) \/ BurstOverrun(u)
  BY <1>1, <1>2 DEF Next
<1>4. u = t
  <2>1. CASE Take(u) \/ Find(u)
    BY <2>1 DEF Take, Find, Move, Again
  <2>2. CASE ~Take(u) /\ ~Find(u)
    BY <1>3, <2>2, ThreadStep DEF Worker, ThreadKeeps
  <2> QED BY <2>1, <2>2
<1>5. Report(t)
  <2>1. ~ \/ Test(t) \/ CondWait(t) \/ Take(t) \/ Find(t) \/ SendInit(t) \/ Launch(t) \/ LongStop(t) \/ PacedStop(t)
    BY DEF Test, CondWait, Take, Find, SendInit, Launch, LongStop, PacedStop, Move, Again
  <2>2. ~ \/ TransacStop(t) \/ CloseSend(t) \/ ClearSender(t) \/ RecvInit(t) \/ RecvExit(t)
          \/ TransacExit(t) \/ SendBroken(t) \/ BurstOverrun(t)
    BY DEF TransacStop, CloseSend, ClearSender, RecvInit, RecvExit, TransacExit, SendBroken, BurstOverrun, Move, Again
  <2> QED BY <1>3, <1>4, <2>1, <2>2 DEF Worker
<1>6. t = sendThrId
  BY <1>5 DEF Report, IsReporter, Again, Move
<1> QED BY <1>5, <1>6

\* A Send has one response: a thread reports only while one is awaited, if receivers run
\* before the senders, one Send names them all and its response is waited for
\* (wfa_thr.c:918-923).
THEOREM OneReportPerSend ==
  ASSUME ReportTests PROVE Spec => OneResponse
<1>1. TypeInv /\ ReportInv /\ [Next]_vars => [Reporting => pending = "send"]_vars
  <2> SUFFICES ASSUME TypeInv, ReportInv, [Next]_vars, Reporting PROVE pending = "send"
    OBVIOUS
  <2>1. PICK t \in Threads : wpc[t] = "report" /\ wpc'[t] = "clear"
    BY DEF Reporting
  <2>2. t = sendThrId
    BY <2>1, ReportingStep
  <2> QED BY <2>1, <2>2 DEF ReportInv, NoneToReport, ToReport, SenderStates
<1> QED BY <1>1, ReportInvariant, TypeInvariant, PTL DEF Spec, OneResponse

-----------------------------------------------------------------------------
(* What a response lists. *)

\* The stream will be listed: it is a sender's and active.
Active(id) == id # 0 /\ \E s \in Slots : gStreams[s].id = id /\ Reported(gStreams[s])

\* While a response is awaited the streams of the Send are the active ones and those
\* it is still to post; otherwise none is active.
Listed ==
  IF pending = "send" THEN \A id : id \in awaited <=> Active(id) \/ ToPost(id)
                      ELSE \A id : ~Active(id)

\* The response lists the active streams.
LEMMA ActiveListed == \A id : id \in ActiveSenders <=> Active(id)
BY DEF ActiveSenders, Active, Reported

\* Rows keep what a response looks at.
LEMMA ActiveKept ==
  ASSUME gStreams' = gStreams PROVE \A id : Active(id)' <=> Active(id)
BY DEF Active, Reported

\* Every step keeps the awaited streams the active ones and those still to be posted.
LEMMA ListedStep ==
  ASSUME ReportTests, TypeInv, TableIndexed, OrderlyInv, DeliveryInv, NoLostWakeup, ReportInv, Listed, [Next]_vars
  PROVE  Listed'
<1> USE DEF Listed
<1>1. OrderlyTests /\ Does("patient") /\ CommandInv
  BY DEF ReportTests, DeliveryTests, ReportInv, Does
<1>2. ASSUME NEW p \in Profiles, Config(p) PROVE Listed'
  <2>1. pending = "none" /\ pending' = pending
    BY <1>2, AsksInTurn DEF Config
  <2>2. \A s \in Slots : gStreams'[s] = gStreams[s] \/ ~Reported(gStreams'[s])
    <3> DEFINE row == IF slotCnt = MaxStreams THEN 0 ELSE slotCnt
    <3>1. row \in Slots
      BY ConstantsAssumption DEF Slots, TypeInv, TypeOK, TableTypeOK
    <3>2. \A s \in Slots : gStreams'[s] \in {gStreams[s], Cleared, NewRow(row, NextId, p)}
      BY <1>2, <3>1 DEF Config, TypeInv, TypeOK, TableTypeOK
    <3> QED BY <3>2 DEF Reported, Cleared, NewRow
  <2> QED BY <2>1, <2>2 DEF Active
<1>3. CASE Reset
  <2>1. pending = "none" /\ pending' = pending
    BY <1>3, AsksInTurn DEF Reset
  <2>2. \A s \in Slots : gStreams'[s] = gStreams[s] \/ ~Reported(gStreams'[s])
    BY <1>3 DEF Reset, ClearedBytes, Reported, TypeInv, TypeOK, TableTypeOK, Row
  <2> QED BY <2>1, <2>2 DEF Active
<1>4. ASSUME NEW ids \in Batches, RecvStart(ids) \/ RecvStop(ids) PROVE Listed'
  <2>1. MayAsk /\ pending' # "send" /\ gStreams' = gStreams
    BY <1>1, <1>4 DEF RecvStart, RecvStop, Begin
  <2>2. pending = "none"
    BY <2>1, AsksInTurn
  <2> QED BY <2>1, <2>2, ActiveKept
<1>5. ASSUME NEW ids \in Batches, Send(ids) PROVE Listed'
  <2>1. /\ MayAsk /\ pending' = "send" /\ gStreams' = gStreams /\ awaited' = Named(ids)
        /\ Among(ids, OfDir(fresh, "SEND")) /\ mpc' = "send" /\ asked' = ids /\ next' = 1
    BY <1>1, <1>5 DEF Send, Begin, Note, OrderlyTests, Does
  <2>2. pending = "none"
    BY <2>1, AsksInTurn
  <2>3. \A id : ToPost(id)' <=> id \in Named(ids)
    BY <2>1, <1>1, StartedIds DEF ToPost, Posted, Starting
  <2> QED BY <2>1, <2>2, <2>3, ActiveKept
<1>6. CASE RecvStartOne
  <2>1. pending = "recvStart" /\ pending' = pending
    BY <1>1, <1>6 DEF RecvStartOne, CommandInv, Matches, RecvStarts
  <2>2. \A s \in Slots : Reported(gStreams'[s]) => Reported(gStreams[s]) /\ gStreams'[s].id = gStreams[s].id
    <3> DEFINE c == FindSlot(Current)
    <3>1. c \in Slots /\ gStreams[c].prof.dir = "RECV" /\ gStreams' = [gStreams EXCEPT ![c].active = TRUE]
      BY <1>6, FindSlotType DEF RecvStartOne, Names, ProfileOf, Activate
    <3> QED BY <3>1 DEF Reported, TypeInv, TypeOK, TableTypeOK, Row
  <2> QED BY <2>1, <2>2 DEF Active
<1>7. CASE SendOne
  <2>1. pending = "send" /\ UNCHANGED <<pending, awaited>> /\ mpc = "send" /\ More
    BY <1>1, <1>7 DEF SendOne, CommandInv, Matches, SendStarts
  <2>2. fault' = "none"
    BY <1>1, OrderlyStep DEF OrderlyInv
  <2>3. mpc' = "sendSignal" /\ UNCHANGED <<asked, next>>
    BY <1>7, <2>2 DEF SendOne, Post
  <2>4. PICK q \in Seq(Ids) : q = asked
    BY DEF TypeInv, TypeOK, MainTypeOK
  <2>5. next \in 1 .. Len(asked) /\ Current = asked[next] /\ Len(asked) \in Nat /\ Current # 0
    <3>1. Current \in Ids
      BY <2>1, IdFacts DEF TypeInv, TypeOK
    <3>2. next \in 1 .. Len(asked) /\ Len(asked) \in Nat
      BY <2>1, <2>4 DEF More, TypeInv, TypeOK, MainTypeOK
    <3> QED BY <3>1, <3>2 DEF Current, Ids
  <2>6. ToPost(Current)
    BY <2>1, <2>5 DEF ToPost, Posted, Starting
  <2>7. \A i, j \in 1 .. Len(asked) : asked[i] = asked[j] => i = j
    BY <2>1 DEF OrderlyInv, AskedKnown, BusyMain, Starting
  <2>8. \A id : ToPost(id)' <=> ToPost(id) /\ id # Current
    BY <2>1, <2>3, <2>5, <2>7 DEF ToPost, Posted, Starting
  <2> DEFINE c == FindSlot(Current)
  <2>9. /\ c \in Slots /\ gStreams[c].prof.dir = "SEND" /\ gStreams[c].id = Current
        /\ gStreams' = [gStreams EXCEPT ![c].active = TRUE]
    BY <1>7, FindSlotType DEF SendOne, Names, ProfileOf, Activate
  <2>10. /\ gStreams'[c].id = Current /\ Reported(gStreams'[c])
         /\ \A s \in Slots \ {c} : gStreams'[s] = gStreams[s]
    BY <2>5, <2>9 DEF Reported, TypeInv, TypeOK, TableTypeOK, Row
  <2> HIDE DEF c
  <2>11. \A id : Active(id)' <=> Active(id) \/ id = Current
    BY <2>5, <2>9, <2>10 DEF Active
  <2> QED BY <2>1, <2>6, <2>8, <2>11
<1>8. CASE Signal
  <2>1. /\ UNCHANGED <<gStreams, asked, pending, awaited>> /\ Posted /\ ~Posted' /\ next' = next + 1
        /\ mpc \in Starting /\ mpc' \in Starting
    BY <1>8 DEF Signal, Posted, Starting
  <2>2. PICK q \in Seq(Ids) : q = asked
    BY DEF TypeInv, TypeOK, MainTypeOK
  <2>3. Len(asked) \in Nat /\ next \in Nat
    BY <2>2 DEF TypeInv, TypeOK, MainTypeOK
  <2>4. \A i \in 1 .. Len(asked) : (i >= next /\ i > next) <=> i >= next + 1
    BY <2>3
  <2>5. \A id : ToPost(id)' <=> ToPost(id)
    BY <2>1, <2>4 DEF ToPost
  <2> QED BY <2>1, <2>5, ActiveKept
<1>9. CASE SendReject
  BY <1>1, <1>9, CurrentDir DEF SendReject
<1>10. CASE SendEnd
  <2>1. /\ UNCHANGED <<gStreams, pending, awaited>> /\ ~More
        /\ mpc' = "select"
    BY <1>10 DEF SendEnd, Leave
  <2>2. \A i \in 1 .. Len(asked) : ~(i >= next)
    <3>1. PICK q \in Seq(Ids) : q = asked
      BY DEF TypeInv, TypeOK, MainTypeOK
    <3> QED BY <2>1, <3>1 DEF More, TypeInv, TypeOK, MainTypeOK
  <2>3. \A id : ~ToPost(id) /\ ~ToPost(id)'
    BY <2>1, <2>2 DEF ToPost, Starting
  <2> QED BY <2>1, <2>3, ActiveKept
<1>11. CASE RecvStartReject \/ RecvStartEnd \/ RecvStopReject \/ RecvStopWaited \/ RecvStopOne
  <2>1. pending # "send" /\ pending' # "send" /\ gStreams' = gStreams
    BY <1>1, <1>11 DEF RecvStartReject, RecvStartEnd, RecvStopReject, RecvStopWaited, RecvStopOne, Answered,
                       CommandInv, Matches, RecvStarts
  <2> QED BY <2>1, ActiveKept
<1>12. CASE RecvStopEnd
  <2>1. pending # "send" /\ pending' # "send"
    BY <1>1, <1>12 DEF RecvStopEnd, Answered, CommandInv, Matches
  <2>2. \A s \in Slots : Reported(gStreams'[s]) => Reported(gStreams[s]) /\ gStreams'[s].id = gStreams[s].id
    BY <1>12 DEF RecvStopEnd, Reported, TypeInv, TypeOK, TableTypeOK, Row
  <2> QED BY <2>1, <2>2 DEF Active
<1>13. CASE Select \/ Wake
  <2>1. UNCHANGED <<gStreams, pending, awaited>> /\ mpc \notin Starting /\ mpc' \notin Starting
    BY <1>13 DEF Select, Wake, BackToSelect, Starting
  <2> QED BY <2>1, ActiveKept DEF ToPost
<1>14. ASSUME UNCHANGED <<gStreams, pending, awaited, mainVars>> PROVE Listed'
  <2>1. \A id : ToPost(id)' <=> ToPost(id)
    BY <1>14 DEF ToPost, Posted
  <2> QED BY <1>14, <2>1, ActiveKept
<1>15. CASE Alarm \/ SendPing \/ (\E id \in Ids : StopPing(id)) \/ UNCHANGED vars
  BY <1>1, <1>14, <1>15 DEF Alarm, SendPing, StopPing, OrderlyTests, Does, vars
<1>16. ASSUME NEW t \in Threads, Report(t) PROVE Listed'
  <2>1. CASE IsReporter(t)
    <3>1. pending' # "send"
      BY <1>16, <2>1 DEF Report, Answered
    <3>2. \A s \in Slots : ~Reported(gStreams'[s])
      BY <1>16, <2>1 DEF Report, Reported, TypeInv, TypeOK, TableTypeOK, Row
    <3> QED BY <3>1, <3>2 DEF Active
  <2>2. CASE ~IsReporter(t)
    BY <1>14, <1>16, <2>2 DEF Report
  <2> QED BY <2>1, <2>2
<1>17. ASSUME NEW t \in Threads,
              \/ Test(t) \/ CondWait(t) \/ Take(t) \/ Find(t) \/ SendInit(t) \/ Launch(t) \/ LongStop(t) \/ PacedStop(t)
       PROVE  Listed'
  BY <1>14, <1>17 DEF Test, CondWait, Take, Find, SendInit, Launch, LongStop, PacedStop
<1>18. ASSUME NEW t \in Threads,
              \/ TransacStop(t) \/ CloseSend(t) \/ ClearSender(t) \/ RecvInit(t) \/ RecvExit(t)
              \/ TransacExit(t) \/ SendBroken(t) \/ BurstOverrun(t)
       PROVE  Listed'
  BY <1>14, <1>18 DEF TransacStop, CloseSend, ClearSender, RecvInit, RecvExit, TransacExit, SendBroken, BurstOverrun
<1> QED
  BY <1>2, <1>3, <1>4, <1>5, <1>6, <1>7, <1>8, <1>9, <1>10, <1>11, <1>12, <1>13, <1>15, <1>16, <1>17, <1>18
     DEF Next, TestManager, Main, Worker

\* Listed holds of every run of tests that wait for their responses.
LEMMA ListedInvariant ==
  ASSUME ReportTests PROVE Spec => []Listed
<1>1. Init => Listed
  BY DEF Init, Listed, Active, Cleared
<1>2. /\ TypeInv /\ TableIndexed /\ OrderlyInv /\ DeliveryInv /\ NoLostWakeup /\ ReportInv /\ Listed /\ [Next]_vars
      => Listed'
  BY ListedStep
<1>3. DeliveryTests /\ OrderlyTests
  BY DEF ReportTests, DeliveryTests
<1>4. Spec => []OrderlyInv /\ []DeliveryInv
  BY <1>3, OrderlyInvariant, DeliveryInvariant
<1> QED BY <1>1, <1>2, <1>4, ReportInvariant, TypeInvariant, TableStaysIndexed, WakeupNeverLost, PTL DEF Spec

-----------------------------------------------------------------------------
(* When the response comes, nobody sends. *)

\* Every sender runs at once and until runLoop is cleared.
LongSenders ==
  \A p \in Profiles : p.dir = "SEND" =>
    p.kind \in {"FILE", "IPTV"} /\ p.loop = "long" /\ ~p.zero /\ ~p.delay

SentAll  == (\E t \in Threads : wpc[t] \in SenderStates) => \A id \in fresh : ~Known(id)
LongOnly == \A t \in Threads : wpc[t] \notin {"rate", "burst", "rest", "transac"}

\* Once a sender is past its loop, or told to leave it, every sender of the test has
\* been in its loop: none is left to set runLoop again.
NoneToLaunch ==
  mpc \notin SendStarts /\ \A t \in Threads : wpc[t] \notin {"init", "delay"} /\ ~Flagged(t)
Over(t)     == wpc[t] \in {"flush", "report", "clear"} \/ (wpc[t] = "long" /\ ~runLoop)
LaunchedAll == \A t \in Threads : Over(t) => ~runLoop /\ NoneToLaunch
LoopsInv    == SentAll /\ LongOnly /\ LaunchedAll

\* What Launch does with such a sender.
LEMMA LaunchLong ==
  ASSUME LongSenders, TypeInv, TableIndexed, OnceInv, DeliveryInv, NEW t \in Threads, wpc[t] = "delay"
  PROVE  /\ MyProf(t).loop = "long" /\ ~MyProf(t).delay
         /\ Launch(t) => wpc' = [wpc EXCEPT ![t] = "long"] /\ runLoop' = TRUE
<1> DEFINE s == wslot[t]
<1>1. s \in Slots /\ gStreams[s].id = wid[t] /\ wid[t] # 0
  BY DEF TypeInv, RowHeld, OnceInv, HoldsRow, HasRow, SenderStates
<1>2. MyProf(t) \in Profiles /\ MyProf(t).dir = "SEND"
  BY <1>1 DEF DeliveryInv, RowProfiled, SendsRow, MyProf
<1>3. FindSlot(wid[t]) = s
  <2>1. FindSlot(wid[t]) \in Slots /\ gStreams[FindSlot(wid[t])].id = wid[t]
    BY <1>1, KnownFound DEF Known
  <2> QED BY <1>1, <2>1 DEF TableIndexed
<1>4. Runs(t)
  BY <1>1, <1>2, <1>3, RangeFacts DEF Runs, ProfileOf, MyProf, LongSenders
<1>5. MyProf(t).kind \in {"FILE", "IPTV"} /\ MyProf(t).loop = "long" /\ ~MyProf(t).delay
  BY <1>2 DEF LongSenders
<1>6. ASSUME Launch(t) PROVE wpc' = [wpc EXCEPT ![t] = "long"] /\ runLoop' = TRUE
  BY <1>4, <1>5, <1>6 DEF Launch, MayRefuse, Move, Transactions
<1> QED BY <1>5, <1>6

\* While a thread sends, no stream of the test is still to be started.
LEMMA SentAllStep ==
  ASSUME ReportTests, TypeInv, TableIndexed, OrderlyInv, DeliveryInv, CommandInv, SentAll, [Next]_vars
  PROVE  SentAll'
<1> USE DEF SentAll
<1>1. OrderlyTests
  BY DEF ReportTests, DeliveryTests
<1>2. CASE Reset \/ \E p \in Profiles : Config(p)
  <2>1. \A t \in Threads : wpc'[t] = "waiting"
    BY <1>1, <1>2, NewTests DEF Reset, Config, MayConfigure
  <2> QED BY <2>1 DEF SenderStates, Sending
<1> SUFFICES ASSUME ~Reset, ~ \E p \in Profiles : Config(p) PROVE SentAll'
  BY <1>2
<1>3. \A id : Known(id)' <=> Known(id)
  BY RowsStay
<1>4. ASSUME fresh' \subseteq fresh,
             \A t \in Threads : wpc'[t] \in SenderStates => wpc[t] \in SenderStates \cup {"init"}
      PROVE  SentAll'
  <2>1. (\E t \in Threads : wpc[t] = "init") => \A id \in fresh : ~Known(id)
    BY DEF DeliveryInv, AllSent, Underway
  <2> QED BY <1>3, <1>4, <2>1
<1>5. fresh' \subseteq fresh
  <2>1. CASE TestManager
    BY <1>1, <2>1 DEF TestManager, SendPing, StopPing, RecvStart, Send, RecvStop, Note, OrderlyTests, Does
  <2>2. CASE Main \/ Wake \/ Alarm \/ UNCHANGED vars
    BY <2>2 DEF Main, Select, Wake, Alarm, Signal, RecvStartReject, RecvStartOne, RecvStartEnd, SendReject, SendOne, SendEnd,
                RecvStopWaited, RecvStopReject, RecvStopOne, RecvStopEnd, vars
  <2>3. ASSUME NEW t \in Threads, Worker(t) \/ SendBroken(t) \/ BurstOverrun(t) PROVE fresh' = fresh
    <3>1. CASE Take(t) \/ Find(t)
      BY <3>1 DEF Take, Find
    <3>2. CASE ~Take(t) /\ ~Find(t)
      BY <2>3, <3>2, ThreadStep DEF Worker, ThreadKeeps
    <3> QED BY <3>1, <3>2
  <2> QED BY <2>1, <2>2, <2>3 DEF Next
<1>6. CASE SendOne
  BY <1>4, <1>5, <1>6 DEF SendOne
<1>7. CASE ~SendOne
  BY <1>4, <1>5, <1>7, SendersStayStep DEF SendersStay
<1> QED BY <1>6, <1>7

\* With such senders no thread enters another loop than wfaSendLongFile's.
LEMMA LongOnlyStep ==
  ASSUME ReportTests, LongSenders, TypeInv, TableIndexed, OnceInv, DeliveryInv, LongOnly, [Next]_vars
  PROVE  LongOnly'
<1> USE DEF LongOnly
<1>1. ASSUME \A t \in Threads : wpc'[t] \notin {"rate", "burst", "rest", "transac"} \/ wpc'[t] = wpc[t] PROVE LongOnly'
  BY <1>1
<1>2. CASE TestManager \/ Wake \/ Alarm \/ UNCHANGED vars
  BY <1>1, <1>2 DEF TestManager, Config, SendPing, StopPing, Reset, RecvStart, Send, RecvStop, Begin, Wake, Alarm, vars
<1>3. CASE Main
  <2>1. CASE Signal
    BY <1>1, <2>1 DEF Signal, TypeInv, TypeOK, ThreadTypeOK
  <2>2. CASE ~Signal
    BY <1>1, <1>3, <2>2 DEF Main, Select, RecvStartReject, RecvStartOne, RecvStartEnd, SendReject, SendOne, SendEnd,
                RecvStopWaited, RecvStopReject, RecvStopOne, RecvStopEnd
  <2> QED BY <2>1, <2>2
<1>4. ASSUME NEW t \in Threads, Worker(t) \/ SendBroken(t) \/ BurstOverrun(t) PROVE LongOnly'
  <2> USE DEF Move, Again, TypeInv, TypeOK, ThreadTypeOK
  <2>1. CASE Test(t) \/ CondWait(t) \/ Take(t) \/ Find(t) \/ SendInit(t)
    BY <2>1 DEF Test, CondWait, Take, Find, SendInit
  <2>2. CASE Launch(t)
    <3>1. wpc[t] = "delay"
      BY <2>2 DEF Launch
    <3> QED BY <2>2, <3>1, LaunchLong
  <2>3. CASE LongStop(t) \/ PacedStop(t) \/ TransacStop(t) \/ CloseSend(t)
    BY <2>3 DEF LongStop, PacedStop, TransacStop, CloseSend
  <2>4. CASE Report(t) \/ ClearSender(t)
    BY <2>4 DEF Report, ClearSender
  <2>5. CASE RecvExit(t) \/ TransacExit(t) \/ SendBroken(t) \/ BurstOverrun(t)
    BY <2>5 DEF RecvExit, TransacExit, SendBroken, BurstOverrun
  <2>6. CASE RecvInit(t)
    BY <2>6 DEF RecvInit
  <2> QED BY <1>4, <2>1, <2>2, <2>3, <2>4, <2>5, <2>6 DEF Worker
<1> QED BY <1>2, <1>3, <1>4 DEF Next

\* No step sets runLoop again once a sender has left its loop or is told to.
LEMMA LaunchedAllStep ==
  ASSUME ReportTests, LongSenders, TypeInv, TableIndexed, OrderlyInv, OnceInv, DeliveryInv, NoLostWakeup, CommandInv,
         LoopsInv, [Next]_vars
  PROVE  LaunchedAll'
<1> USE DEF LoopsInv, LaunchedAll
<1>1. OrderlyTests /\ ~Disturbed
  BY DEF ReportTests, DeliveryTests
<1>2. ASSUME \A t \in Threads : ~Over(t), UNCHANGED <<wpc, runLoop>> PROVE LaunchedAll'
  BY <1>2 DEF Over
<1>3. CASE Reset \/ \E p \in Profiles : Config(p)
  <2>1. \A t \in Threads : wpc'[t] = "waiting"
    BY <1>1, <1>3, NewTests DEF Reset, Config, MayConfigure
  <2> QED BY <2>1 DEF Over
<1>4. ASSUME NEW ids \in Batches, Send(ids) PROVE LaunchedAll'
  <2>1. Among(ids, OfDir(fresh, "SEND")) /\ UNCHANGED <<wpc, runLoop>>
    BY <1>4 DEF Send, Begin
  <2>2. \E id \in fresh : Known(id)
    <3>1. 1 \in 1 .. Len(ids) /\ ids[1] \in fresh /\ Known(ids[1])
      <4>1. Len(ids) > 0 /\ \A i \in 1 .. Len(ids) : ids[i] \in fresh /\ Known(ids[i])
        BY <1>1, <2>1, StartedIds
      <4>2. PICK q \in Seq(Ids) : q = ids
        BY BatchType
      <4> QED BY <4>1, <4>2
    <3> QED BY <3>1
  <2>3. \A t \in Threads : ~Over(t)
    BY <2>2 DEF SentAll, Over, SenderStates, Sending
  <2> QED BY <2>1, <2>3, <1>2
<1>5. CASE SendOne
  <2>1. mpc \in SendStarts /\ UNCHANGED <<wpc, runLoop>>
    BY <1>5 DEF SendOne, SendStarts
  <2> QED BY <2>1, <1>2 DEF NoneToLaunch
<1>6. CASE Alarm
  <2>1. runLoop' = FALSE /\ UNCHANGED <<wpc, mpc>> /\ \A t \in Threads : thr_flag'[t] = 0
    BY <1>6 DEF Alarm
  <2>2. mpc \notin Starting /\ \A t \in Threads : wpc[t] # "init"
    BY <1>6, SecondsAreQuiet DEF Alarm
  <2>3. \A t \in Threads : wpc[t] # "delay"
    <3>1. \A t \in Threads : ~AtOnce(t)
      BY <1>1, <1>6 DEF Alarm, SecondPasses, Soon, OrderlyTests
    <3> QED BY <3>1, LaunchLong DEF AtOnce, MyProf
  <2>4. NoneToLaunch'
    BY <2>1, <2>2, <2>3 DEF NoneToLaunch, Flagged, Starting, SendStarts
  <2> QED BY <2>1, <2>4
<1>7. ASSUME NEW t \in Threads, Launch(t) PROVE LaunchedAll'
  <2>1. wpc[t] = "delay"
    BY <1>7 DEF Launch
  <2>2. \A u \in Threads : ~Over(u)
    BY <2>1 DEF NoneToLaunch
  <2>3. wpc' = [wpc EXCEPT ![t] = "long"] /\ runLoop' = TRUE
    BY <1>7, <2>1, LaunchLong
  <2> QED BY <2>2, <2>3 DEF Over, TypeInv, TypeOK, ThreadTypeOK
<1> SUFFICES ASSUME ~Reset, ~ \E p \in Profiles : Config(p), ~ \E ids \in Batches : Send(ids), ~SendOne, ~Alarm,
                    ~ \E t \in Threads : Launch(t)
             PROVE  LaunchedAll'
  BY <1>3, <1>4, <1>5, <1>6, <1>7
<1>8. SendersStay
  BY SendersStayStep
<1>9. ASSUME runLoop' = runLoop, mpc' \in SendStarts => mpc \in SendStarts,
             \A t \in Threads : wpc'[t] = "delay" => wpc[t] \in {"init", "delay"},
             \A t \in Threads : Over(t)' => Over(t)
      PROVE  LaunchedAll'
  <2>1. NoneToLaunch => NoneToLaunch'
    BY <1>8, <1>9 DEF NoneToLaunch, SendersStay
  <2> QED BY <1>9, <2>1
<1>10. CASE \/ RecvStartReject \/ RecvStartOne \/ RecvStartEnd \/ SendReject \/ SendEnd \/ RecvStopReject
            \/ Select \/ Wake \/ RecvStopWaited \/ RecvStopOne \/ RecvStopEnd
            \/ (\E ids \in Batches : RecvStart(ids) \/ RecvStop(ids))
            \/ SendPing \/ (\E id \in Ids : StopPing(id)) \/ UNCHANGED vars
  <2>1. UNCHANGED <<wpc, runLoop>> /\ (mpc' \in SendStarts => mpc \in SendStarts)
    BY <1>1, <1>10 DEF RecvStartReject, RecvStartOne, Post, RecvStartEnd, SendReject, SendEnd, RecvStopReject, Select,
       Wake, RecvStopWaited, RecvStopOne, RecvStopEnd, Leave, BackToSelect, RecvStart, RecvStop, Begin, SendPing,
       StopPing, SendStarts, OrderlyTests, Does, vars
  <2> QED BY <2>1, <1>9 DEF Over
<1>11. CASE Signal
  <2>1. runLoop' = runLoop /\ (mpc' \in SendStarts => mpc \in SendStarts)
    BY <1>11 DEF Signal, SendStarts
  <2>2. \A t \in Threads : wpc'[t] \in {wpc[t], "start"}
    BY <1>11 DEF Signal, TypeInv, TypeOK, ThreadTypeOK
  <2> QED BY <2>1, <2>2, <1>9 DEF Over
<1>12. ASSUME NEW t \in Threads, Worker(t) \/ SendBroken(t) \/ BurstOverrun(t) PROVE LaunchedAll'
  <2> USE DEF Move, Again
  <2>1. /\ mpc' = mpc /\ runLoop' = runLoop
        /\ \A u \in Threads \ {t} : wpc'[u] = wpc[u]
        /\ wpc'[t] = "delay" => wpc[t] = "init"
        /\ wpc'[t] \in {"flush", "report", "clear"} => \/ wpc[t] \in {"flush", "report", "clear"}
                                                       \/ wpc[t] = "long" /\ ~runLoop
        /\ wpc'[t] # "long"
    <3> USE DEF TypeInv, TypeOK, ThreadTypeOK
    <3>1. CASE Test(t) \/ CondWait(t) \/ Take(t) \/ Find(t) \/ SendInit(t)
      BY <3>1 DEF Test, CondWait, Take, Find, SendInit
    <3>2. CASE LongStop(t) \/ PacedStop(t) \/ TransacStop(t) \/ CloseSend(t)
      BY <3>2 DEF LongStop, PacedStop, TransacStop, CloseSend, LongOnly
    <3>3. CASE Report(t) \/ ClearSender(t)
      BY <3>3 DEF Report, ClearSender
    <3>4. CASE RecvExit(t) \/ TransacExit(t) \/ RecvInit(t)
      BY <3>4 DEF RecvExit, TransacExit, RecvInit
    <3>5. ~SendBroken(t) /\ ~BurstOverrun(t)
      BY <1>1 DEF SendBroken, BurstOverrun
    <3> QED BY <1>12, <3>1, <3>2, <3>3, <3>4, <3>5 DEF Worker
  <2> QED BY <2>1, <1>9 DEF Over
<1> QED BY <1>10, <1>11, <1>12 DEF Next, TestManager, Main

\* LoopsInv holds of every run of tests with such senders.
LEMMA LoopsInvariant ==
  ASSUME ReportTests, LongSenders PROVE Spec => []LoopsInv
<1>1. Init => LoopsInv
  BY DEF Init, LoopsInv, SentAll, LongOnly, LaunchedAll, Over, SenderStates, Sending
<1>2. /\ TypeInv /\ TableIndexed /\ OrderlyInv /\ OnceInv /\ DeliveryInv /\ NoLostWakeup /\ ReportInv /\ LoopsInv
      /\ [Next]_vars
      => LoopsInv'
  <2> SUFFICES ASSUME TypeInv, TableIndexed, OrderlyInv, OnceInv, DeliveryInv, NoLostWakeup, ReportInv, LoopsInv,
                      [Next]_vars
               PROVE  LoopsInv'
    OBVIOUS
  <2>1. CommandInv /\ SentAll /\ LongOnly
    BY DEF ReportInv, LoopsInv
  <2>2. SentAll'
    BY <2>1, SentAllStep
  <2>3. LongOnly'
    BY <2>1, LongOnlyStep
  <2>4. LaunchedAll'
    BY <2>1, LaunchedAllStep
  <2> QED BY <2>2, <2>3, <2>4 DEF LoopsInv
<1>3. DeliveryTests /\ OrderlyTests
  BY DEF ReportTests, DeliveryTests
<1>4. Spec => []OrderlyInv /\ []OnceInv /\ []DeliveryInv
  BY <1>3, OrderlyInvariant, OnceInvariant, DeliveryInvariant
<1> QED BY <1>1, <1>2, <1>4, ReportInvariant, TypeInvariant, TableStaysIndexed, WakeupNeverLost, PTL DEF Spec

\* The response to a Send lists exactly the streams the Send named, all of them past
\* their send loops, if every sender runs at once and until runLoop is cleared
\* (wfa_thr.c:298-352, 912-923).
THEOREM ReportsAreComplete ==
  ASSUME ReportTests, LongSenders PROVE Spec => ReportComplete
<1> DEFINE Complete == /\ ActiveSenders = awaited
                       /\ \A t \in Threads : wid[t] \in awaited => wpc[t] \notin Sending
<1> HIDE DEF Complete
<1>1. /\ TypeInv /\ OrderlyInv /\ DeliveryInv /\ NoLostWakeup /\ ReportInv /\ Listed /\ LoopsInv /\ [Next]_vars
      => [Reporting => Complete]_vars
  <2> SUFFICES ASSUME TypeInv, OrderlyInv, DeliveryInv, NoLostWakeup, ReportInv, Listed, LoopsInv, [Next]_vars, Reporting
               PROVE  Complete
    OBVIOUS
  <2>1. PICK t \in Threads : wpc[t] = "report" /\ wpc'[t] = "clear"
    BY DEF Reporting
  <2>2. Report(t) /\ t = sendThrId
    BY <2>1, ReportingStep
  <2>3. pending = "send"
    BY <2>1, <2>2 DEF ReportInv, NoneToReport, ToReport, SenderStates
  <2>4. SecondPasses /\ fault = "none"
    BY <2>2 DEF Report, OrderlyInv
  <2>5. mpc \notin Starting /\ \A u \in Threads : ~AtOnce(u)
    <3>1. mpc \notin Starting
      BY <2>4, SecondsAreQuiet
    <3> QED BY <2>4, <3>1 DEF SecondPasses, Soon, ReportTests, DeliveryTests, OrderlyTests
  <2>6. ActiveSenders = awaited
    <3>1. \A id : ~ToPost(id)
      BY <2>5 DEF ToPost
    <3> QED BY <2>3, <3>1, ActiveListed DEF Listed
  <2>7. ~runLoop
    BY <2>1 DEF LoopsInv, LaunchedAll, Over
  <2>8. \A u \in Threads : wpc[u] # "long"
    BY <2>5, <2>7 DEF AtOnce
  <2>9. \A u \in Threads : wpc[u] \notin Sending
    BY <2>8 DEF LoopsInv, LongOnly, Sending
  <2> QED BY <2>6, <2>9 DEF Complete
<1>2. DeliveryTests /\ OrderlyTests
  BY DEF ReportTests, DeliveryTests
<1>3. Spec => []OrderlyInv /\ []DeliveryInv
  BY <1>2, OrderlyInvariant, DeliveryInvariant
<1> QED BY <1>1, <1>3, ListedInvariant, LoopsInvariant, ReportInvariant, TypeInvariant, WakeupNeverLost, PTL
     DEF Spec, ReportComplete, Complete
=============================================================================
