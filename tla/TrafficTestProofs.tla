--------------------------- MODULE TrafficTestProofs ---------------------------
(***************************************************************************)
(* Proofs about TrafficAgent under a test manager with habits, for every   *)
(* number of streams, threads, descriptors and ids.  OrderlyTests is what  *)
(* the first half needs of the test manager: it configures and resets only *)
(* when every thread is idle, starts each id once and uses no id it was    *)
(* not given; no more streams than threads, as wfa_main.h has it; and the  *)
(* alarm, seconds away, finds no thread between its test of the flag and   *)
(* its reading of it.                                                      *)
(***************************************************************************)
EXTENDS TrafficAgentProofs, FiniteSetTheorems

USE DEF tableVars, flagVars, threadVars, mainVars, scriptVars

OrderlyTests ==
  Prompt /\ "ordered" \in Habits /\ "quiet" \in Habits /\ MaxStreams <= NumThreads

Known(id) == \E s \in Slots : gStreams[s].id = id

\* The ids of the command that are still to be started, and those still to be posted.
Starting == {"recvStart", "recvStartSignal", "send", "sendSignal"}
Posted == mpc \in {"recvStartSignal", "sendSignal"}
Left(id)   == mpc \in Starting /\ \E i \in 1 .. Len(asked) : i >= next /\ asked[i] = id
ToPost(id) == mpc \in Starting /\ \E i \in 1 .. Len(asked) : i >= next /\ asked[i] = id /\ (Posted => i > next)

\* The rows whose stream is still to be started: each of them needs a thread.
Awaits == {s \in Slots : gStreams[s].id \in fresh \/ Left(gStreams[s].id)}
ThreadsLeft == usedThread + Cardinality(Awaits) <= MaxStreams

\* What a handler or a thread will look up is in the table.
BusyMain == Starting \cup {"stopWait", "recvStop"}
AskedKnown ==
  mpc \in BusyMain =>
    /\ Len(asked) > 0
    /\ \A i \in 1 .. Len(asked) : Known(asked[i])
    /\ \A i, j \in 1 .. Len(asked) : asked[i] = asked[j] => i = j
    /\ Posted => next <= Len(asked)
LiveKnown  == \A id \in live : Known(id)
FlagKnown  == \A t \in Threads : thr_flag[t] # 0 => Known(thr_flag[t])
\* A thread takes a start that is posted to it, and the next post is to a later thread.
Taking     == {"take", "taken"}
TakesStart == \A t \in Threads :
  /\ wpc[t] \in Taking => thr_flag[t] # 0
  /\ wpc[t] = "taken" => wid[t] = thr_flag[t]
  /\ thr_flag[t] # 0 => t < usedThread \/ (Posted /\ t = usedThread)
FreshApart == \A id \in fresh : ~Left(id)
OrderlyInv == fault = "none" /\ AskedKnown /\ LiveKnown /\ FlagKnown /\ TakesStart /\ FreshApart /\ ThreadsLeft

-----------------------------------------------------------------------------
(* What an orderly test manager asks, and what stays. *)

\* The lookup of a stream that is in the table finds its row.
LEMMA KnownFound ==
  ASSUME TableIndexed, NEW id, id # 0, Known(id)
  PROVE  FindSlot(id) \in Slots /\ gStreams[FindSlot(id)].id = id
<1>1. PICK s \in Slots : gStreams[s].id = id
  BY DEF Known
<1>2. FirstWith(id, s)
  BY <1>1, ConstantsAssumption DEF FirstWith, TableIndexed, Slots
<1>3. FindSlot(id) # NoSlot
  BY <1>2, RangeFacts, Zenon DEF FindSlot
<1> QED BY <1>3, FindSlotType

\* A new test begins when nobody has a stream: every thread waits, none is posted.
LEMMA NewTests ==
  ASSUME OrderlyTests, MayAsk, MayStartOver
  PROVE  mpc = "idle" /\ live = {} /\ \A t \in Threads : wpc[t] = "waiting" /\ thr_flag[t] = 0
BY DEF OrderlyTests, MayAsk, MayStartOver, Does, IsIdle

\* Rows keep their ids in every step but Config and Reset.
LEMMA RowsStay ==
  ASSUME TypeInv, [Next]_vars, ~Reset, ~ \E p \in Profiles : Config(p)
  PROVE  IdsKept /\ \A id : Known(id)' <=> Known(id)
<1>1. IdsKept
  BY TableSteps
<1> QED BY <1>1 DEF IdsKept, SameRow, Known

\* The ids of a start are fresh ones of rows in the table.
LEMMA StartedIds ==
  ASSUME OrderlyTests, NEW d \in {"RECV", "SEND"}, NEW ids \in Batches, Among(ids, OfDir(fresh, d))
  PROVE  /\ Len(ids) > 0
         /\ \A i \in 1 .. Len(ids) : ids[i] \in fresh /\ Known(ids[i]) /\ Names(ids[i], d)
         /\ \A i, j \in 1 .. Len(ids) : ids[i] = ids[j] => i = j
         /\ \A id : id \in Named(ids) <=> \E i \in 1 .. Len(ids) : ids[i] = id
<1>1. PICK n \in 1 .. MaxBatch : ids \in [1 .. n -> Ids]
  BY DEF Batches
<1>2. Len(ids) = n /\ DOMAIN ids = 1 .. n /\ n > 0
  BY <1>1, ConstantsAssumption
<1>3. Named(ids) \subseteq OfDir(fresh, d)
  BY DEF OrderlyTests, Among, Does
<1>4. \A i \in 1 .. n : ids[i] \in fresh /\ Names(ids[i], d)
  BY <1>2, <1>3 DEF Named, OfDir
<1>5. \A i \in 1 .. n : Known(ids[i])
  BY <1>4, FindSlotType DEF Names, Known
<1> QED BY <1>2, <1>4, <1>5 DEF Batches, Named

\* The ids of a stop are those of streams that were started.
LEMMA StoppedIds ==
  ASSUME OrderlyTests, NEW ids \in Batches, Among(ids, live)
  PROVE  /\ Len(ids) > 0
         /\ \A i \in 1 .. Len(ids) : ids[i] \in live
         /\ \A i, j \in 1 .. Len(ids) : ids[i] = ids[j] => i = j
<1>1. PICK n \in 1 .. MaxBatch : ids \in [1 .. n -> Ids]
  BY DEF Batches
<1>2. Len(ids) = n /\ DOMAIN ids = 1 .. n /\ n > 0
  BY <1>1, ConstantsAssumption
<1>3. Named(ids) \subseteq live
  BY DEF OrderlyTests, Among, Does
<1> QED BY <1>2, <1>3 DEF Batches, Named

\* The rows that await a start are finitely many, and no more than the table has.
LEMMA AwaitsFinite ==
  ASSUME NEW S \in SUBSET Slots
  PROVE  IsFiniteSet(S) /\ Cardinality(S) \in Nat /\ Cardinality(S) <= MaxStreams
<1>1. IsFiniteSet(Slots) /\ Cardinality(Slots) = MaxStreams
  BY FS_Interval, ConstantsAssumption DEF Slots
<1> QED BY <1>1, FS_Subset, FS_CardinalityType

\* A start takes one thread for one row.
LEMMA OneFewer ==
  ASSUME NEW S \in SUBSET Slots, NEW s \in S, NEW R \in SUBSET (S \ {s})
  PROVE  Cardinality(R) + 1 <= Cardinality(S)
<1>1. S \ {s} \in SUBSET Slots
  OBVIOUS
<1>2. Cardinality(S \ {s}) = Cardinality(S) - 1
  BY AwaitsFinite, FS_RemoveElement
<1>3. Cardinality(R) <= Cardinality(S \ {s})
  BY <1>1, AwaitsFinite, FS_Subset
<1>4. Cardinality(R) \in Nat /\ Cardinality(S) \in Nat
  BY AwaitsFinite
<1> QED BY <1>2, <1>3, <1>4

\* With thread 0 next, every row of the table can have a thread of its own.
LEMMA CountReset ==
  ASSUME usedThread' = 0 PROVE ThreadsLeft'
<1>1. Awaits' \in SUBSET Slots
  BY DEF Awaits
<1>2. Cardinality(Awaits') \in Nat /\ Cardinality(Awaits') <= MaxStreams
  BY <1>1, AwaitsFinite
<1> QED BY <1>2 DEF ThreadsLeft

\* The threads left suffice as long as no row comes to await a start and none is used.
LEMMA CountKept ==
  ASSUME TypeInv, ThreadsLeft, usedThread' = usedThread, Awaits' \subseteq Awaits
  PROVE  ThreadsLeft'
<1>1. Awaits \in SUBSET Slots /\ Awaits' \in SUBSET Slots
  BY DEF Awaits
<1>2. Cardinality(Awaits') <= Cardinality(Awaits)
  BY <1>1, AwaitsFinite, FS_Subset
<1>3. Cardinality(Awaits') \in Nat /\ Cardinality(Awaits) \in Nat
  BY <1>1, AwaitsFinite
<1>4. usedThread \in Nat
  BY ConstantsAssumption DEF TypeInv, TypeOK, FlagTypeOK
<1> QED BY <1>2, <1>3, <1>4, ConstantsAssumption DEF ThreadsLeft

\* A step of the threads, the alarm or the select leaves the command where it is.
LEMMA CommandKept ==
  ASSUME TypeInv, OrderlyInv, IdsKept, UNCHANGED <<mainVars, fresh, live, usedThread>>
  PROVE  AskedKnown' /\ LiveKnown' /\ FreshApart' /\ ThreadsLeft' /\ \A id : Known(id)' <=> Known(id)
<1>1. \A id : Known(id)' <=> Known(id)
  BY DEF IdsKept, SameRow, Known
<1>2. \A id : Left(id)' <=> Left(id)
  BY DEF Left
<1>3. Awaits' \subseteq Awaits
  BY <1>2 DEF Awaits, IdsKept, SameRow
<1>4. ThreadsLeft'
  BY <1>3, CountKept DEF OrderlyInv
<1> QED BY <1>1, <1>2, <1>4 DEF OrderlyInv, AskedKnown, Posted, LiveKnown, FreshApart

-----------------------------------------------------------------------------
(* No handler and no thread runs into a row or a thread that is not there. *)

\* What a step of a thread that has no start to take does to its flag and its place.
ThreadKeeps(t) ==
  /\ UNCHANGED <<mainVars, fresh, live, usedThread, fault>>
  /\ \/ thr_flag' = thr_flag
     \/ thr_flag' = [thr_flag EXCEPT ![t] = 0] /\ wpc[t] \in {"recvInit", "recving", "rtransac"} /\ wpc'[t] = "start"
  /\ \E st \in WorkerStates \ {"taken"} : wpc' = [wpc EXCEPT ![t] = st] /\ (st = "take" => thr_flag[t] # 0)
  /\ \A u \in Threads \ {t} : wid'[u] = wid[u]

\* A step of a thread other than Take and Find changes no command, and at most clears the thread's flag.
LEMMA ThreadStep ==
  ASSUME TypeInv, NEW t \in Threads,
         \/ Test(t) \/ CondWait(t) \/ SendInit(t) \/ Launch(t) \/ LongStop(t) \/ PacedStop(t)
         \/ TransacStop(t) \/ CloseSend(t) \/ Report(t) \/ ClearSender(t) \/ RecvInit(t) \/ RecvExit(t)
         \/ TransacExit(t) \/ SendBroken(t) \/ BurstOverrun(t)
  PROVE  ThreadKeeps(t)
<1> USE DEF ThreadKeeps, WorkerStates, Move, Again
<1>1. CASE Test(t) \/ CondWait(t) \/ SendInit(t)
  BY <1>1 DEF Test, CondWait, SendInit, OpenSocket, TypeInv, TypeOK, ThreadTypeOK
<1>2. CASE Launch(t)
  <2>1. UNCHANGED <<mainVars, fresh, live, usedThread, fault, thr_flag>>
    BY <1>2 DEF Launch
  <2>2. wpc[t] = "delay" /\ MyProf(t).loop \in Loops /\ wid' = wid
    BY <1>2, LoopType DEF Launch
  <2>3. \E st \in {"flush", "transac", "report", MyProf(t).loop} : wpc' = [wpc EXCEPT ![t] = st]
    BY <1>2 DEF Launch
  <2> QED BY <2>1, <2>2, <2>3 DEF Loops
<1>3. CASE LongStop(t) \/ PacedStop(t) \/ TransacStop(t) \/ CloseSend(t)
  BY <1>3 DEF LongStop, PacedStop, TransacStop, CloseSend
<1>4. CASE Report(t) \/ ClearSender(t)
  BY <1>4 DEF Report, ClearSender, TypeInv, TypeOK, ThreadTypeOK
<1>5. CASE RecvInit(t)
  <2>1. UNCHANGED <<mainVars, fresh, live, usedThread, fault>> /\ wpc[t] = "recvInit"
    BY <1>5 DEF RecvInit
  <2>2. \/ thr_flag' = thr_flag
        \/ thr_flag' = [thr_flag EXCEPT ![t] = 0] /\ wpc' = [wpc EXCEPT ![t] = "start"]
    BY <1>5 DEF RecvInit
  <2>3. \E st \in {"rtransac", "recving", "start"} : wpc' = [wpc EXCEPT ![t] = st]
    BY <1>5 DEF RecvInit
  <2>4. \A u \in Threads \ {t} : wid'[u] = wid[u]
    BY <1>5 DEF RecvInit, OpenSocket, TypeInv, TypeOK, ThreadTypeOK
  <2> QED BY <2>1, <2>2, <2>3, <2>4 DEF TypeInv, TypeOK, ThreadTypeOK
<1>6. CASE RecvExit(t) \/ TransacExit(t)
  BY <1>6 DEF RecvExit, TransacExit, TypeInv, TypeOK, ThreadTypeOK
<1>7. CASE SendBroken(t) \/ BurstOverrun(t)
  BY <1>7 DEF SendBroken, BurstOverrun
<1> QED BY <1>1, <1>2, <1>3, <1>4, <1>5, <1>6, <1>7

\* A start is taken as it was posted, and nothing is posted to the thread meanwhile.
LEMMA TakesStartStep ==
  ASSUME OrderlyTests, TypeInv, TableIndexed, OrderlyInv, [Next]_vars PROVE TakesStart'
<1> USE DEF OrderlyInv, TakesStart, Taking, TypeInv, TypeOK, FlagTypeOK, ThreadTypeOK
<1>1. CASE Reset \/ \E p \in Profiles : Config(p)
  BY <1>1, NewTests DEF Reset, Config, MayConfigure
<1>2. CASE \/ SendPing \/ (\E id \in Ids : StopPing(id)) \/ UNCHANGED vars
           \/ \E ids \in Batches : RecvStart(ids) \/ Send(ids) \/ RecvStop(ids)
  <2>1. UNCHANGED <<usedThread, thr_flag, wpc, wid>> /\ (Posted' <=> Posted)
    BY <1>2 DEF SendPing, StopPing, vars, RecvStart, Send, RecvStop, Begin, Posted, MayAsk, OrderlyTests, Does
  <2> QED BY <2>1
<1>3. CASE \/ Select \/ Wake \/ RecvStartReject \/ RecvStartEnd \/ SendReject \/ SendEnd
           \/ RecvStopWaited \/ RecvStopReject \/ RecvStopOne \/ RecvStopEnd
  <2>1. UNCHANGED <<usedThread, thr_flag, wpc, wid>> /\ ~Posted
    BY <1>3 DEF Select, Wake, RecvStartReject, RecvStartEnd, SendReject, SendEnd, RecvStopWaited, RecvStopReject,
                RecvStopOne, RecvStopEnd, Posted
  <2> QED BY <2>1
<1>4. CASE RecvStartOne \/ SendOne
  <2>1. /\ UNCHANGED <<usedThread, wpc, wid>> /\ ~Posted
        /\ thr_flag' = thr_flag \/ (Posted' /\ thr_flag' = [thr_flag EXCEPT ![usedThread] = Current])
    BY <1>4 DEF RecvStartOne, SendOne, Post, Posted
  <2>2. \A t \in Threads : t < usedThread => t # usedThread
    BY ConstantsAssumption DEF Threads
  <2>3. CASE thr_flag' = thr_flag
    BY <2>1, <2>3
  <2>4. CASE Posted' /\ thr_flag' = [thr_flag EXCEPT ![usedThread] = Current]
    <3>1. \A t \in Threads : t # usedThread => thr_flag'[t] = thr_flag[t]
      BY <2>4
    <3>2. \A t \in Threads : t = usedThread => thr_flag[t] = 0
      BY <2>1, <2>2
    <3> QED BY <2>1, <2>4, <3>1, <3>2
  <2> QED BY <2>1, <2>3, <2>4
<1>5. CASE Signal
  <2>1. /\ usedThread' = usedThread + 1 /\ wid' = wid /\ thr_flag' = thr_flag
        /\ wpc' = [wpc EXCEPT ![usedThread] = IF @ = "waiting" THEN "start" ELSE @]
    BY <1>5 DEF Signal, NextThread
  <2> QED BY <2>1, ConstantsAssumption DEF Threads
<1>6. CASE Alarm
  <2>1. /\ \A t \in Threads : thr_flag'[t] = 0 /\ wpc[t] \notin Taking
        /\ wpc' = wpc
    BY <1>6 DEF Alarm, SecondPasses, Soon, AtOnce, OrderlyTests
  <2> QED BY <2>1
<1>7. ASSUME NEW t \in Threads, Take(t) PROVE TakesStart'
  <2>1. /\ UNCHANGED <<usedThread, thr_flag>> /\ (Posted' <=> Posted) /\ wpc[t] = "take"
        /\ wpc' = [wpc EXCEPT ![t] = "taken"] /\ wid' = [wid EXCEPT ![t] = thr_flag[t]]
    BY <1>7 DEF Take, Move, Posted
  <2> QED BY <2>1
<1>8. ASSUME NEW t \in Threads, Find(t) PROVE TakesStart'
  <2>1. FindSlot(wid[t]) # NoSlot
    <3>1. thr_flag[t] # 0 /\ Known(thr_flag[t]) /\ wid[t] = thr_flag[t]
      BY <1>8 DEF Find, Move, Again, FlagKnown
    <3> QED BY <3>1, KnownFound, RangeFacts
  <2>2. /\ usedThread' = usedThread /\ (Posted' <=> Posted)
        /\ thr_flag' = [thr_flag EXCEPT ![t] = 0]
        /\ \A u \in Threads \ {t} : wpc'[u] = wpc[u] /\ wid'[u] = wid[u]
        /\ wpc'[t] \notin Taking
    BY <1>8, <2>1 DEF Find, Move, Again, Posted
  <2> QED BY <2>2
<1>9. ASSUME NEW t \in Threads,
             \/ Test(t) \/ CondWait(t) \/ SendInit(t) \/ Launch(t) \/ LongStop(t) \/ PacedStop(t)
             \/ TransacStop(t) \/ CloseSend(t) \/ Report(t) \/ ClearSender(t) \/ RecvInit(t) \/ RecvExit(t)
             \/ TransacExit(t) \/ SendBroken(t) \/ BurstOverrun(t)
      PROVE  TakesStart'
  <2>1. ThreadKeeps(t)
    BY <1>9, ThreadStep
  <2>2. \A u \in Threads : thr_flag'[u] = thr_flag[u] \/ (u = t /\ thr_flag'[u] = 0 /\ wpc'[u] = "start")
    BY <2>1 DEF ThreadKeeps
  <2> QED BY <2>1, <2>2 DEF ThreadKeeps, Posted
<1> QED
  BY <1>1, <1>2, <1>3, <1>4, <1>5, <1>6, <1>7, <1>8, <1>9 DEF Next, TestManager, Main, Worker

\* Every step of an orderly test keeps lookups successful and threads sufficient.
LEMMA OrderlyStep ==
  ASSUME OrderlyTests, TypeInv, TableIndexed, OrderlyInv, [Next]_vars
  PROVE  OrderlyInv'
<1> USE DEF OrderlyInv
<1>0. TakesStart'
  BY TakesStartStep
<1>1. ASSUME NEW p \in Profiles, Config(p) PROVE OrderlyInv'
  <2>1. mpc' = "select" /\ live' = {} /\ usedThread' = 0 /\ fault' = "none"
    BY <1>1, NewTests DEF Config, MayConfigure, BackToSelect, OrderlyTests, Does
  <2>2. \A t \in Threads : thr_flag'[t] = 0 /\ wpc'[t] = "waiting"
    BY <1>1, NewTests DEF Config, MayConfigure
  <2>3. AskedKnown' /\ LiveKnown' /\ FreshApart'
    BY <2>1 DEF AskedKnown, BusyMain, Starting, LiveKnown, FreshApart, Left
  <2> QED BY <1>0, <2>1, <2>2, <2>3, CountReset DEF FlagKnown
<1>2. CASE Reset
  <2>1. mpc' = "select" /\ live' = {} /\ fresh' = {} /\ usedThread' = 0 /\ fault' = "none"
    BY <1>2 DEF Reset, BackToSelect
  <2>2. \A t \in Threads : thr_flag'[t] = 0 /\ wpc'[t] = "waiting"
    BY <1>2, NewTests DEF Reset
  <2>3. AskedKnown' /\ LiveKnown' /\ FreshApart'
    BY <2>1 DEF AskedKnown, BusyMain, Starting, LiveKnown, FreshApart
  <2> QED BY <1>0, <2>1, <2>2, <2>3, CountReset DEF FlagKnown
<1> SUFFICES ASSUME ~Reset, ~ \E p \in Profiles : Config(p) PROVE OrderlyInv'
  BY <1>1, <1>2
<1>3. IdsKept /\ \A id : Known(id)' <=> Known(id)
  BY RowsStay
<1>4. ASSUME NEW ids \in Batches, RecvStart(ids) \/ Send(ids) PROVE OrderlyInv'
  <2>1. PICK d \in {"RECV", "SEND"} : Among(ids, OfDir(fresh, d)) /\ mpc' \in {"recvStart", "send"}
    BY <1>4 DEF RecvStart, Send, Begin
  <2>2. asked' = ids /\ next' = 1 /\ fresh' = fresh \ Named(ids) /\ live' \subseteq live \cup Named(ids)
    BY <1>4 DEF RecvStart, Send, Begin, Note, OrderlyTests, Does
  <2>3. UNCHANGED <<usedThread, thr_flag, wpc, fault>>
    BY <1>4 DEF RecvStart, Send, Begin
  <2>4. AskedKnown'
    BY <2>1, <2>2, <1>3, StartedIds DEF AskedKnown, Posted
  <2>5. LiveKnown'
    BY <2>1, <2>2, <1>3, StartedIds DEF LiveKnown
  <2>6. FlagKnown'
    BY <2>3, <1>3 DEF FlagKnown
  <2>7. FreshApart'
    BY <2>1, <2>2, StartedIds DEF FreshApart, Left
  <2>8. \A id : Left(id)' => id \in fresh
    BY <2>1, <2>2, StartedIds DEF Left
  <2>9. Awaits' \subseteq Awaits
    BY <2>2, <2>8, <1>3 DEF Awaits, IdsKept, SameRow
  <2>10. ThreadsLeft'
    BY <2>3, <2>9, CountKept
  <2> QED BY <1>0, <2>3, <2>4, <2>5, <2>6, <2>7, <2>10
<1>5. ASSUME NEW ids \in Batches, RecvStop(ids) PROVE OrderlyInv'
  <2>1. Among(ids, live) /\ mpc' = "stopWait" /\ asked' = ids /\ live' \subseteq live
    BY <1>5 DEF RecvStop, Begin, Note
  <2>2. UNCHANGED <<usedThread, thr_flag, wpc, fault, fresh>>
    BY <1>5 DEF RecvStop, Begin
  <2>3. AskedKnown' /\ LiveKnown'
    BY <2>1, <1>3, StoppedIds DEF AskedKnown, LiveKnown, Posted
  <2>4. FlagKnown'
    BY <2>2, <1>3 DEF FlagKnown
  <2>5. \A id : ~Left(id)'
    BY <2>1 DEF Left, Starting
  <2>6. Awaits' \subseteq Awaits /\ FreshApart'
    BY <2>2, <2>5, <1>3 DEF Awaits, FreshApart, IdsKept, SameRow
  <2>7. ThreadsLeft'
    BY <2>2, <2>6, CountKept
  <2> QED BY <1>0, <2>2, <2>3, <2>4, <2>6, <2>7
<1>6. CASE SendPing \/ \E id \in Ids : StopPing(id)
  BY <1>6 DEF SendPing, StopPing, OrderlyTests, Does
<1>7. CASE \/ RecvStartReject \/ RecvStartEnd \/ SendReject \/ SendEnd \/ RecvStopReject
           \/ Select \/ Wake
  <2>1. mpc' \in {"select", "accept", "idle"} /\ UNCHANGED <<fresh, live, usedThread, thr_flag, wpc, fault>>
    BY <1>7 DEF RecvStartReject, RecvStartEnd, SendReject, SendEnd, RecvStopReject, Leave, Select, Wake,
                BackToSelect
  <2>2. \A id : ~Left(id)'
    BY <2>1 DEF Left, Starting
  <2>3. Awaits' \subseteq Awaits
    BY <2>1, <2>2, <1>3 DEF Awaits, IdsKept, SameRow
  <2>4. ThreadsLeft'
    BY <2>1, <2>3, CountKept
  <2>5. AskedKnown' /\ LiveKnown' /\ FlagKnown' /\ FreshApart'
    BY <2>1, <2>2, <1>3 DEF AskedKnown, BusyMain, Starting, LiveKnown, FlagKnown, FreshApart
  <2> QED BY <1>0, <2>1, <2>4, <2>5
<1>8. CASE RecvStopWaited \/ RecvStopOne
  <2>1. /\ mpc \in {"stopWait", "recvStop"} /\ mpc' = "recvStop" /\ asked' = asked
        /\ UNCHANGED <<fresh, live, usedThread, thr_flag, wpc, fault>>
    BY <1>8 DEF RecvStopWaited, RecvStopOne
  <2>2. \A id : ~Left(id)'
    BY <2>1 DEF Left, Starting
  <2>3. Awaits' \subseteq Awaits
    BY <2>1, <2>2, <1>3 DEF Awaits, IdsKept, SameRow
  <2>4. ThreadsLeft'
    BY <2>1, <2>3, CountKept
  <2>5. AskedKnown'
    BY <2>1, <1>3 DEF AskedKnown, BusyMain, Posted
  <2>6. LiveKnown' /\ FlagKnown' /\ FreshApart'
    BY <2>1, <2>2, <1>3 DEF LiveKnown, FlagKnown, FreshApart
  <2> QED BY <1>0, <2>1, <2>4, <2>5, <2>6
<1>9. CASE RecvStopEnd
  <2> DEFINE s == FindSlot(asked[Len(asked)])
  <2>1. Known(asked[Len(asked)]) /\ asked[Len(asked)] # 0
    <3>1. PICK q \in Seq(Ids) : q = asked
      BY DEF TypeInv, TypeOK, MainTypeOK
    <3>2. Len(q) > 0 /\ \A i \in 1 .. Len(q) : Known(q[i])
      BY <1>9, <3>1 DEF RecvStopEnd, AskedKnown, BusyMain
    <3>3. Len(q) \in 1 .. Len(q) /\ q[Len(q)] \in Ids
      BY <3>2
    <3> QED BY <3>1, <3>2, <3>3 DEF Ids
  <2>2. s # NoSlot
    BY <2>1, KnownFound, RangeFacts
  <2>3. mpc' = "select" /\ UNCHANGED <<fresh, live, usedThread, thr_flag, wpc, fault>>
    BY <1>9, <2>2 DEF RecvStopEnd, Leave
  <2>4. \A id : ~Left(id)'
    BY <2>3 DEF Left, Starting
  <2>5. Awaits' \subseteq Awaits
    BY <2>3, <2>4, <1>3 DEF Awaits, IdsKept, SameRow
  <2>6. ThreadsLeft'
    BY <2>3, <2>5, CountKept
  <2>7. AskedKnown' /\ LiveKnown' /\ FlagKnown' /\ FreshApart'
    BY <2>3, <2>4, <1>3 DEF AskedKnown, BusyMain, Starting, LiveKnown, FlagKnown, FreshApart
  <2> QED BY <1>0, <2>3, <2>6, <2>7
<1>10. CASE RecvStartOne \/ SendOne
  <2>1. mpc \in {"recvStart", "send"} /\ More /\ Names(Current, IF mpc = "recvStart" THEN "RECV" ELSE "SEND")
    BY <1>10 DEF RecvStartOne, SendOne
  <2>2. PICK q \in Seq(Ids) : q = asked
    BY DEF TypeInv, TypeOK, MainTypeOK
  <2>3. next \in 1 .. Len(asked) /\ Current \in Ids
    BY <2>1, <2>2, IdFacts DEF More, TypeInv, TypeOK, MainTypeOK
  <2>4. Known(Current) /\ Current # 0
    BY <2>1, <2>2, <2>3, FindSlotType DEF Names, Known, Ids
  <2>5. PICK s \in Slots : gStreams[s].id = Current
    BY <2>4 DEF Known
  <2>6. s \in Awaits
    BY <2>1, <2>3, <2>5 DEF Awaits, Left, Starting, Current
  <2>7. Awaits \in SUBSET Slots /\ {} \in SUBSET (Awaits \ {s})
    BY DEF Awaits
  <2>8. Cardinality({}) + 1 <= Cardinality(Awaits)
    BY <2>6, <2>7, OneFewer
  <2>9. Cardinality(Awaits) \in Nat /\ Cardinality({}) \in Nat
    BY <2>7, AwaitsFinite
  <2>10. usedThread < NumThreads
    BY <2>8, <2>9, ConstantsAssumption DEF ThreadsLeft, OrderlyTests, TypeInv, TypeOK, FlagTypeOK
  <2>11. /\ thr_flag' = [thr_flag EXCEPT ![usedThread] = Current]
         /\ mpc' = IF mpc = "recvStart" THEN "recvStartSignal" ELSE "sendSignal"
         /\ UNCHANGED <<asked, next, fault, wpc, usedThread, fresh, live>>
    BY <1>10, <2>10 DEF RecvStartOne, SendOne, Post
  <2>12. \A id : Left(id)' <=> Left(id)
    BY <2>1, <2>11 DEF Left, Starting
  <2>13. Awaits' \subseteq Awaits
    BY <2>11, <2>12, <1>3 DEF Awaits, IdsKept, SameRow
  <2>14. ThreadsLeft'
    BY <2>11, <2>13, CountKept
  <2>15. AskedKnown' /\ LiveKnown' /\ FreshApart'
    BY <2>1, <2>3, <2>11, <2>12, <1>3 DEF AskedKnown, BusyMain, Starting, Posted, LiveKnown, FreshApart
  <2>16. FlagKnown'
    BY <2>4, <2>11, <1>3 DEF FlagKnown, TypeInv, TypeOK, FlagTypeOK
  <2> QED BY <1>0, <2>11, <2>14, <2>15, <2>16
<1>11. CASE Signal
  <2>1. /\ mpc \in {"recvStartSignal", "sendSignal"} /\ mpc' = IF mpc = "recvStartSignal" THEN "recvStart" ELSE "send"
        /\ usedThread' = usedThread + 1 /\ next' = next + 1
        /\ wpc' = [wpc EXCEPT ![usedThread] = IF @ = "waiting" THEN "start" ELSE @]
        /\ UNCHANGED <<asked, fault, thr_flag, fresh, live>>
    BY <1>11 DEF Signal, NextThread
  <2>2. AskedKnown' /\ LiveKnown'
    BY <2>1, <1>3 DEF AskedKnown, BusyMain, Starting, Posted, LiveKnown
  <2>3. FlagKnown'
    BY <2>1, <1>3 DEF FlagKnown, TypeInv, TypeOK, ThreadTypeOK
  <2>4. \A id : Left(id)' => Left(id) /\ id # Current
    BY <2>1 DEF Left, Starting, Current, AskedKnown, BusyMain, TypeInv, TypeOK, MainTypeOK
  <2>5. FreshApart'
    BY <2>1, <2>4 DEF FreshApart
  <2>6. next \in 1 .. Len(asked)
    BY <2>1 DEF AskedKnown, BusyMain, Starting, Posted, TypeInv, TypeOK, MainTypeOK
  <2>7. Known(Current) /\ Left(Current)
    BY <2>1, <2>6 DEF AskedKnown, BusyMain, Starting, Left, Current
  <2>8. PICK s \in Slots : gStreams[s].id = Current
    BY <2>7 DEF Known
  <2>9. s \in Awaits /\ s \notin Awaits' /\ Awaits' \subseteq Awaits
    BY <2>1, <2>4, <2>7, <2>8, <1>3 DEF Awaits, FreshApart, IdsKept, SameRow
  <2>10. Awaits \in SUBSET Slots /\ Awaits' \in SUBSET (Awaits \ {s})
    BY <2>9 DEF Awaits
  <2>11. Cardinality(Awaits') + 1 <= Cardinality(Awaits)
    BY <2>9, <2>10, OneFewer
  <2>12. Cardinality(Awaits') \in Nat /\ Cardinality(Awaits) \in Nat
    BY <2>10, AwaitsFinite
  <2>13. ThreadsLeft'
    BY <2>1, <2>11, <2>12, ConstantsAssumption DEF ThreadsLeft, TypeInv, TypeOK, FlagTypeOK
  <2> QED BY <1>0, <2>1, <2>2, <2>3, <2>5, <2>13
<1>12. CASE Alarm
  <2>1. /\ UNCHANGED <<mainVars, fresh, live, fault, wpc>> /\ usedThread' = 0
        /\ \A t \in Threads : thr_flag'[t] = 0 /\ wpc[t] # "take"
    BY <1>12 DEF Alarm, SecondPasses, Soon, AtOnce, OrderlyTests
  <2>2. AskedKnown' /\ LiveKnown'
    BY <2>1, <1>3 DEF AskedKnown, Posted, LiveKnown
  <2>3. FreshApart'
    BY <2>1 DEF FreshApart, Left
  <2> QED BY <1>0, <2>1, <2>2, <2>3, CountReset DEF FlagKnown
<1>13. ASSUME NEW t \in Threads, Find(t) PROVE OrderlyInv'
  <2>1. thr_flag[t] # 0 /\ Known(thr_flag[t]) /\ wid[t] = thr_flag[t]
    BY <1>13 DEF Find, Move, Again, Taking, TakesStart, FlagKnown
  <2>2. FindSlot(wid[t]) # NoSlot
    BY <2>1, KnownFound, RangeFacts
  <2>3. /\ UNCHANGED <<mainVars, fresh, live, usedThread, fault>>
        /\ thr_flag' = [thr_flag EXCEPT ![t] = 0]
    BY <1>13, <2>2 DEF Find
  <2>4. AskedKnown' /\ LiveKnown' /\ FreshApart' /\ ThreadsLeft'
    BY <2>3, <1>3, CommandKept
  <2>5. FlagKnown'
    BY <2>3, <1>3 DEF FlagKnown, TypeInv, TypeOK, FlagTypeOK
  <2> QED BY <1>0, <2>3, <2>4, <2>5
<1>16. ASSUME NEW t \in Threads, Take(t) PROVE OrderlyInv'
  <2>1. UNCHANGED <<mainVars, fresh, live, usedThread, fault, thr_flag>>
    BY <1>16 DEF Take
  <2>2. AskedKnown' /\ LiveKnown' /\ FreshApart' /\ ThreadsLeft'
    BY <2>1, <1>3, CommandKept
  <2> QED BY <1>0, <2>1, <2>2, <1>3 DEF FlagKnown
<1>14. ASSUME NEW t \in Threads,
              \/ Test(t) \/ CondWait(t) \/ SendInit(t) \/ Launch(t) \/ LongStop(t) \/ PacedStop(t)
              \/ TransacStop(t) \/ CloseSend(t) \/ Report(t) \/ ClearSender(t) \/ RecvInit(t) \/ RecvExit(t)
              \/ TransacExit(t) \/ SendBroken(t) \/ BurstOverrun(t)
       PROVE  OrderlyInv'
  <2>1. ThreadKeeps(t)
    BY <1>14, ThreadStep
  <2>2. AskedKnown' /\ LiveKnown' /\ FreshApart' /\ ThreadsLeft'
    BY <2>1, <1>3, CommandKept DEF ThreadKeeps
  <2>3. FlagKnown'
    BY <2>1, <1>3 DEF ThreadKeeps, FlagKnown, TypeInv, TypeOK, FlagTypeOK, ThreadTypeOK
  <2> QED BY <1>0, <2>1, <2>2, <2>3 DEF ThreadKeeps
<1>15. CASE UNCHANGED vars
  <2>1. AskedKnown' /\ LiveKnown' /\ FreshApart' /\ ThreadsLeft'
    BY <1>15, <1>3, CommandKept DEF vars
  <2> QED BY <1>0, <1>15, <2>1, <1>3 DEF vars, FlagKnown
<1> QED
  BY <1>4, <1>5, <1>6, <1>7, <1>8, <1>9, <1>10, <1>11, <1>12, <1>13, <1>14, <1>15, <1>16
     DEF Next, TestManager, Main, Worker

\* Before the first command nothing is asked and nothing posted.
LEMMA OrderlyInit == Init => OrderlyInv
<1> SUFFICES ASSUME Init PROVE OrderlyInv
  OBVIOUS
<1>1. AskedKnown /\ LiveKnown /\ FlagKnown /\ TakesStart /\ FreshApart /\ fault = "none"
  BY DEF Init, AskedKnown, BusyMain, Starting, LiveKnown, FlagKnown, TakesStart, Taking, FreshApart
<1>2. Awaits = {} /\ Awaits \in SUBSET Slots
  BY DEF Init, Awaits, Left, Starting
<1>3. ThreadsLeft
  BY <1>2, AwaitsFinite, FS_EmptySet, ConstantsAssumption DEF Init, ThreadsLeft
<1> QED BY <1>1, <1>3 DEF OrderlyInv

\* OrderlyInv holds of every run of orderly tests.
LEMMA OrderlyInvariant ==
  ASSUME OrderlyTests PROVE Spec => []OrderlyInv
<1>1. TypeInv /\ TableIndexed /\ OrderlyInv /\ [Next]_vars => OrderlyInv'
  BY OrderlyStep
<1> QED BY OrderlyInit, TypeInvariant, TableStaysIndexed, <1>1, PTL DEF Spec

\* Under an orderly test manager no handler reads past the threads, and no handler or
\* thread dereferences a stream it did not find (wfa_tg.c:440, 622, 719; wfa_thr.c:642).
THEOREM FaultFree ==
  ASSUME OrderlyTests PROVE Spec => []NoFault
<1>1. OrderlyInv => NoFault
  BY DEF OrderlyInv, NoFault
<1> QED BY OrderlyInvariant, <1>1, PTL

-----------------------------------------------------------------------------
(* A stream is started once: at any time its id waits in the script or in a    *)
(* command, or is posted to one thread, or is held by one.                     *)

NotStarted(id) == id \in fresh \/ ToPost(id)
FreshHanded == \A id \in fresh : id <= streamId
HoldsRow    == \A t \in Threads : wpc[t] \in HasRow => gStreams[wslot[t]].id = wid[t] /\ wid[t] # 0
StartedOnce ==
  /\ \A t, u \in Threads : thr_flag[t] # 0 /\ thr_flag[t] = thr_flag[u] => t = u
  /\ \A t, u \in Threads : wpc[u] \in HasRow => thr_flag[t] # wid[u]
  /\ \A t, u \in Threads : wpc[t] \in HasRow /\ wpc[u] \in HasRow /\ wid[t] = wid[u] => t = u
StartPending ==
  \A t \in Threads : ~NotStarted(thr_flag[t]) /\ (wpc[t] \in HasRow => ~NotStarted(wid[t]))
OnceInv == FreshHanded /\ HoldsRow /\ StartedOnce /\ StartPending

\* No id is more started than before.
NoneStarted ==
  /\ fresh' \subseteq fresh
  /\ \A id : NotStarted(id)' => NotStarted(id)
  /\ \A t \in Threads :
       /\ thr_flag'[t] \in {0, thr_flag[t]}
       /\ wpc'[t] \in HasRow => wpc[t] \in HasRow /\ wid'[t] = wid[t] /\ wslot'[t] = wslot[t]

\* 0, which stands for no stream, is never an id of the script.
LEMMA ZeroStarted ==
  ASSUME TypeInv PROVE ~NotStarted(0)
<1>1. PICK q \in Seq(Ids) : q = asked
  BY DEF TypeInv, TypeOK, MainTypeOK
<1>2. \A i \in 1 .. Len(q) : q[i] \in Ids
  OBVIOUS
<1> QED BY <1>1, <1>2 DEF NotStarted, ToPost, Ids, TypeInv, TypeOK, ScriptTypeOK

\* What the threads do to rows and ids, the taking of a start aside.
LEMMA ThreadHolds ==
  ASSUME TypeInv, NEW t \in Threads,
         \/ Test(t) \/ CondWait(t) \/ SendInit(t) \/ Launch(t) \/ LongStop(t) \/ PacedStop(t)
         \/ TransacStop(t) \/ CloseSend(t) \/ Report(t) \/ ClearSender(t) \/ RecvInit(t) \/ RecvExit(t)
         \/ TransacExit(t) \/ SendBroken(t) \/ BurstOverrun(t)
  PROVE  NoneStarted
<1>1. ThreadKeeps(t)
  BY ThreadStep
<1>2. fresh' \subseteq fresh /\ \A id : NotStarted(id)' => NotStarted(id)
  BY <1>1 DEF ThreadKeeps, NotStarted, ToPost, Posted
<1>3. \A u \in Threads : thr_flag'[u] \in {0, thr_flag[u]}
  BY <1>1 DEF ThreadKeeps, TypeInv, TypeOK, FlagTypeOK
<1> USE DEF HasRow, SenderStates, Sending, Move, Again, TypeInv, TypeOK, ThreadTypeOK
<1>4. \A u \in Threads : wpc'[u] \in HasRow => wpc[u] \in HasRow /\ wid'[u] = wid[u] /\ wslot'[u] = wslot[u]
  <2>1. CASE Test(t) \/ CondWait(t) \/ SendInit(t)
    BY <2>1 DEF Test, CondWait, SendInit, OpenSocket
  <2>2. CASE Launch(t)
    BY <2>2 DEF Launch
  <2>3. CASE LongStop(t) \/ PacedStop(t) \/ TransacStop(t) \/ CloseSend(t)
    BY <2>3 DEF LongStop, PacedStop, TransacStop, CloseSend
  <2>4. CASE Report(t) \/ ClearSender(t)
    BY <2>4 DEF Report, ClearSender
  <2>5. CASE RecvInit(t)
    BY <2>5 DEF RecvInit, OpenSocket
  <2>6. CASE RecvExit(t) \/ TransacExit(t) \/ SendBroken(t) \/ BurstOverrun(t)
    BY <2>6 DEF RecvExit, TransacExit, SendBroken, BurstOverrun
  <2> QED BY <2>1, <2>2, <2>3, <2>4, <2>5, <2>6
<1> QED BY <1>2, <1>3, <1>4 DEF NoneStarted

\* No step but Config, the posting of a start and the lookup of its stream makes an id more started.
LEMMA OthersHold ==
  ASSUME OrderlyTests, TypeInv, OrderlyInv, [Next]_vars,
         ~ \E p \in Profiles : Config(p), ~RecvStartOne, ~SendOne, ~ \E t \in Threads : Find(t)
  PROVE  NoneStarted
<1> USE DEF NoneStarted, NotStarted
<1>1. CASE Reset
  <2>1. mpc' = "select" /\ fresh' = {} /\ UNCHANGED <<thr_flag, wpc, wid, wslot>>
    BY <1>1 DEF Reset, BackToSelect
  <2> QED BY <2>1 DEF ToPost, Starting
<1>2. ASSUME NEW ids \in Batches, RecvStart(ids) \/ Send(ids) PROVE NoneStarted
  <2>1. PICK d \in {"RECV", "SEND"} : Among(ids, OfDir(fresh, d))
    BY <1>2 DEF RecvStart, Send
  <2>2. /\ asked' = ids /\ next' = 1 /\ fresh' \subseteq fresh /\ UNCHANGED <<thr_flag, wpc, wid, wslot>>
    BY <1>2 DEF RecvStart, Send, Begin, Note, OrderlyTests, Does
  <2>3. \A id : ToPost(id)' => id \in fresh
    BY <2>1, <2>2, StartedIds DEF ToPost
  <2> QED BY <2>2, <2>3
<1>3. CASE \/ RecvStartReject \/ RecvStartEnd \/ SendReject \/ SendEnd \/ RecvStopReject
           \/ Select \/ Wake \/ \E ids \in Batches : RecvStop(ids)
  <2>1. mpc' \notin Starting /\ UNCHANGED <<fresh, thr_flag, wpc, wid, wslot>>
    BY <1>3 DEF RecvStartReject, RecvStartEnd, SendReject, SendEnd, RecvStopReject, Leave, Select, Wake,
                BackToSelect, RecvStop, Begin, Starting
  <2> QED BY <2>1 DEF ToPost
<1>4. CASE RecvStopWaited \/ RecvStopOne \/ RecvStopEnd
  <2>1. mpc' \notin Starting /\ UNCHANGED <<fresh, thr_flag, wpc, wid, wslot>>
    BY <1>4 DEF RecvStopWaited, RecvStopOne, RecvStopEnd, Leave, Starting
  <2> QED BY <2>1 DEF ToPost
<1>5. CASE Signal
  <2>1. /\ Posted /\ ~Posted' /\ next' = next + 1
        /\ wpc' = [wpc EXCEPT ![usedThread] = IF @ = "waiting" THEN "start" ELSE @]
        /\ UNCHANGED <<asked, fresh, thr_flag, wid, wslot>>
    BY <1>5 DEF Signal, Posted
  <2>2. \A id : ToPost(id)' => ToPost(id)
    BY <2>1 DEF ToPost, Posted, Starting, TypeInv, TypeOK, MainTypeOK
  <2>3. \A t \in Threads : wpc'[t] \in HasRow => wpc[t] \in HasRow
    BY <2>1 DEF HasRow, SenderStates, Sending, TypeInv, TypeOK, ThreadTypeOK
  <2> QED BY <2>1, <2>2, <2>3
<1>6. CASE Alarm
  <2>1. UNCHANGED <<mainVars, fresh, wpc, wid, wslot>> /\ thr_flag' = [t \in Threads |-> 0]
    BY <1>6 DEF Alarm
  <2> QED BY <2>1 DEF ToPost, Posted
<1>7. CASE SendPing \/ (\E id \in Ids : StopPing(id)) \/ UNCHANGED vars
  <2>1. UNCHANGED <<mainVars, fresh, thr_flag, wpc, wid, wslot>>
    BY <1>7 DEF SendPing, StopPing, OrderlyTests, Does, vars
  <2> QED BY <2>1 DEF ToPost, Posted
<1>8. ASSUME NEW t \in Threads, Take(t) PROVE NoneStarted
  <2>1. /\ UNCHANGED <<mainVars, fresh, thr_flag, wslot>>
        /\ \A u \in Threads : wpc'[u] \in HasRow => wpc[u] \in HasRow /\ wid'[u] = wid[u]
    BY <1>8 DEF Take, Move, HasRow, SenderStates, Sending, TypeInv, TypeOK, ThreadTypeOK
  <2> QED BY <2>1 DEF ToPost, Posted
<1> QED
  BY <1>1, <1>2, <1>3, <1>4, <1>5, <1>6, <1>7, <1>8, ThreadHolds DEF Next, TestManager, Main, Worker

\* Every step keeps an id in one place: the script, a command, a flag or a thread.
LEMMA OnceStep ==
  ASSUME OrderlyTests, TypeInv, TableIndexed, OrderlyInv, OnceInv, [Next]_vars
  PROVE  OnceInv'
<1> USE DEF OnceInv
<1>1. ASSUME NEW p \in Profiles, Config(p) PROVE OnceInv'
  <2>1. \A t \in Threads : thr_flag'[t] = 0 /\ wpc'[t] = "waiting"
    BY <1>1, NewTests DEF Config, MayConfigure
  <2>2. HoldsRow' /\ StartedOnce'
    BY <2>1 DEF HoldsRow, StartedOnce, HasRow, SenderStates, Sending
  <2>3. ~NotStarted(0)'
    <3>1. mpc' = "select" /\ fresh' \subseteq Ids
      BY <1>1, TypeStep DEF Config, BackToSelect, TypeInv, TypeOK, ScriptTypeOK
    <3> QED BY <3>1 DEF NotStarted, ToPost, Starting, Ids
  <2>4. StartPending'
    BY <2>1, <2>3 DEF StartPending, HasRow, SenderStates, Sending
  <2>5. FreshHanded'
    BY <1>1 DEF Config, Note, OrderlyTests, Does, FreshHanded, NextId, Ids, TypeInv, TypeOK, TableTypeOK,
                ScriptTypeOK
  <2> QED BY <2>2, <2>4, <2>5
<1>2. CASE NoneStarted /\ ~ \E p \in Profiles : Config(p)
  <2>1. FreshHanded'
    <3>1. streamId <= streamId'
      BY <1>2, TableSteps DEF IdsKept, RowDropped, TypeInv, TypeOK, TableTypeOK
    <3>2. fresh \subseteq Nat /\ streamId \in Nat /\ streamId' \in Nat
      BY TypeStep, ConstantsAssumption DEF Ids, TypeInv, TypeOK, TableTypeOK, ScriptTypeOK
    <3> QED BY <1>2, <3>1, <3>2 DEF FreshHanded, NoneStarted
  <2>2. HoldsRow'
    <3>1. CASE Reset
      <4>1. \A t \in Threads : wpc'[t] = "waiting"
        BY <3>1, NewTests DEF Reset
      <4> QED BY <4>1 DEF HoldsRow, HasRow, SenderStates, Sending
    <3>2. CASE ~Reset
      BY <3>2, <1>2, RowsStay DEF HoldsRow, NoneStarted, IdsKept, SameRow, TypeInv, RowHeld
    <3> QED BY <3>1, <3>2
  <2>3. StartedOnce'
    BY <1>2 DEF NoneStarted, StartedOnce, HoldsRow
  <2>4. StartPending'
    BY <1>2, ZeroStarted DEF NoneStarted, StartPending
  <2> QED BY <2>1, <2>2, <2>3, <2>4
<1>3. CASE RecvStartOne \/ SendOne
  <2>1. /\ mpc \in {"recvStart", "send"} /\ More
        /\ UNCHANGED <<fresh, streamId, wpc, wid, wslot>>
    BY <1>3 DEF RecvStartOne, SendOne
  <2>2. \/ UNCHANGED <<thr_flag, mainVars>> /\ fault' = "bounds"
        \/ /\ thr_flag' = [thr_flag EXCEPT ![usedThread] = Current] /\ UNCHANGED <<asked, next>>
           /\ mpc' \in {"recvStartSignal", "sendSignal"}
    BY <1>3 DEF RecvStartOne, SendOne, Post
  <2>3. fault' = "none"
    BY OrderlyStep DEF OrderlyInv
  <2>4. PICK q \in Seq(Ids) : q = asked
    BY DEF TypeInv, TypeOK, MainTypeOK
  <2>5. next \in 1 .. Len(asked) /\ Current = asked[next]
    BY <2>1, <2>4 DEF More, Current, TypeInv, TypeOK, MainTypeOK
  <2>6. Left(Current) /\ ToPost(Current)
    BY <2>1, <2>5 DEF Left, ToPost, Posted, Starting
  <2>7. \A id : ToPost(id)' => ToPost(id) /\ id # Current
    BY <2>1, <2>2, <2>3, <2>5 DEF ToPost, Posted, Starting, OrderlyInv, AskedKnown, BusyMain
  <2>8. Current \notin fresh
    BY <2>6 DEF OrderlyInv, FreshApart
  <2>9. IdsKept
    BY <1>3, TableSteps DEF RecvStartOne, SendOne, Config, Reset, MayAsk, MayConfigure, MayStartOver
  <2>10. HoldsRow'
    BY <2>1, <2>9 DEF HoldsRow, IdsKept, SameRow, TypeInv, RowHeld
  <2>11. StartedOnce'
    BY <2>1, <2>2, <2>3, <2>6 DEF StartedOnce, StartPending, NotStarted, TypeInv, TypeOK, FlagTypeOK
  <2>12. StartPending'
    BY <2>1, <2>2, <2>3, <2>7, <2>8 DEF StartPending, NotStarted, TypeInv, TypeOK, FlagTypeOK
  <2> QED BY <2>1, <2>10, <2>11, <2>12 DEF FreshHanded
<1>4. ASSUME NEW t \in Threads, Find(t) PROVE OnceInv'
  <2> DEFINE s == FindSlot(thr_flag[t])
  <2>1. thr_flag[t] # 0 /\ Known(thr_flag[t]) /\ wid[t] = thr_flag[t]
    BY <1>4 DEF Find, Move, Again, OrderlyInv, TakesStart, Taking, FlagKnown
  <2>2. s \in Slots /\ s # NoSlot /\ gStreams[s].id = thr_flag[t]
    BY <2>1, KnownFound, RangeFacts
  <2>3. /\ UNCHANGED <<mainVars, fresh, gStreams, streamId>> /\ thr_flag' = [thr_flag EXCEPT ![t] = 0]
        /\ \/ wpc' = [wpc EXCEPT ![t] = "start"] /\ wid' = [wid EXCEPT ![t] = 0] /\ wslot' = [wslot EXCEPT ![t] = NoSlot]
           \/ /\ \E st \in {"init", "recvInit"} : wpc' = [wpc EXCEPT ![t] = st]
              /\ wid' = wid /\ wslot' = [wslot EXCEPT ![t] = s]
    BY <1>4, <2>1, <2>2 DEF Find, Move, Again
  <2>4. \A id : NotStarted(id)' <=> NotStarted(id)
    BY <2>3 DEF NotStarted, ToPost, Posted
  <2>5. \A u \in Threads : \/ wpc'[u] = wpc[u] /\ wid'[u] = wid[u] /\ wslot'[u] = wslot[u] /\ thr_flag'[u] = thr_flag[u] /\ u # t
                           \/ u = t /\ thr_flag'[u] = 0 /\ wpc'[u] = "start"
                           \/ u = t /\ thr_flag'[u] = 0 /\ wid'[u] = thr_flag[u] /\ wslot'[u] = s
    BY <2>1, <2>3 DEF TypeInv, TypeOK, FlagTypeOK, ThreadTypeOK
  <2> HIDE DEF s
  <2>6. "start" \notin HasRow
    BY DEF HasRow, SenderStates, Sending
  <2>7. HoldsRow'
    BY <2>1, <2>2, <2>3, <2>5, <2>6 DEF HoldsRow
  <2>8. StartedOnce'
    BY <2>1, <2>5, <2>6 DEF StartedOnce, HoldsRow
  <2>9. StartPending'
    BY <2>1, <2>4, <2>5, <2>6, ZeroStarted DEF StartPending
  <2> QED BY <2>3, <2>7, <2>8, <2>9 DEF FreshHanded
<1> QED BY <1>1, <1>2, <1>3, <1>4, OthersHold

\* OnceInv holds of every run of orderly tests.
LEMMA OnceInvariant ==
  ASSUME OrderlyTests PROVE Spec => []OnceInv
<1>1. Init => OnceInv
  BY DEF Init, OnceInv, FreshHanded, HoldsRow, StartedOnce, StartPending, NotStarted, ToPost, Starting, HasRow,
         SenderStates, Sending
<1>2. TypeInv /\ TableIndexed /\ OrderlyInv /\ OnceInv /\ [Next]_vars => OnceInv'
  BY OnceStep
<1> QED BY OrderlyInvariant, TypeInvariant, TableStaysIndexed, <1>1, <1>2, PTL DEF Spec

-----------------------------------------------------------------------------
(* Sockets, when no receiver is one of transactions: such a receiver closes a  *)
(* descriptor the table still lists.                                           *)

PlainReceivers == \A p \in Profiles : p.dir = "RECV" => p.kind \notin Transactions

RowsPlain == \A s \in Slots : gStreams[s].prof.dir = "RECV" => gStreams[s].prof.kind \notin Transactions
Receives  == \A t \in Threads :
  /\ wpc[t] # "rtransac"
  /\ wpc[t] \in {"recvInit", "recving"} => MyProf(t).dir = "RECV"
  /\ wpc[t] = "recving" => wsock[t] # NoSock
Sends(t) == wpc[t] \in {"delay", "rest", "flush", "transac"} \cup Sending
SendersOwn ==
  /\ \A t \in Threads : Sends(t) => wsock[t] \in openFds /\ \A s \in Slots : tgSockfds[s] # wsock[t]
  /\ \A t, u \in Threads : Sends(t) /\ Sends(u) /\ wsock[t] = wsock[u] => t = u
ListedOpen == \A s \in Slots :
  /\ tgSockfds[s] \in openFds \cup {NoSock}
  /\ \A r \in Slots : tgSockfds[s] # NoSock /\ tgSockfds[s] = tgSockfds[r] => r = s
SocketInv == RowsPlain /\ Receives /\ SendersOwn /\ ListedOpen

\* Rows without a transaction receiver stay so.
LEMMA RowsPlainStep ==
  ASSUME PlainReceivers, TypeInv, RowsPlain, [Next]_vars PROVE RowsPlain'
<1> USE DEF RowsPlain
<1>1. CASE IdsKept
  BY <1>1 DEF IdsKept, SameRow
<1>2. ASSUME NEW row \in Slots, RowNamed(row) PROVE RowsPlain'
  BY <1>2 DEF RowNamed, SameRow, Cleared, NoProfile, PlainReceivers
<1>3. CASE RowDropped
  BY <1>3 DEF RowDropped, SameRow, Transactions
<1> QED BY <1>1, <1>2, <1>3, TableSteps

\* A step that opens and closes no socket, and lets no thread begin to use one.
SocketsSame ==
  /\ UNCHANGED <<openFds, tgSockfds>>
  /\ \A t \in Threads : Sends(t)' => Sends(t) /\ wsock'[t] = wsock[t]
  /\ \A t \in Threads :
       /\ wpc'[t] # "rtransac"
       /\ wpc'[t] \in {"recvInit", "recving"} =>
            \/ wpc[t] = wpc'[t] /\ wslot'[t] = wslot[t] /\ wsock'[t] = wsock[t]
            \/ Find(t) /\ wpc'[t] = "recvInit"

\* Steps that leave sockets and their users alone keep SendersOwn and ListedOpen.
LEMMA SameSockets ==
  ASSUME OrderlyTests, TypeInv, TableIndexed, OrderlyInv, Receives, [Next]_vars,
         ~Reset, ~RecvStopOne, \A t \in Threads : ~SendInit(t) /\ ~CloseSend(t) /\ ~RecvInit(t)
  PROVE  SocketsSame
<1> USE DEF SocketsSame, Sends, Sending, TypeInv, TypeOK, ThreadTypeOK
<1>1. \A t \in Threads : wpc[t] # "rtransac"
  BY DEF Receives
<1>2. CASE \/ Select \/ Wake \/ RecvStartReject \/ RecvStartOne \/ RecvStartEnd \/ SendReject \/ SendOne \/ SendEnd
           \/ RecvStopWaited \/ RecvStopReject \/ RecvStopEnd \/ Alarm \/ UNCHANGED vars
           \/ \E p \in Profiles : Config(p)
  BY <1>1, <1>2 DEF Select, Wake, RecvStartReject, RecvStartOne, RecvStartEnd, SendReject, SendOne, SendEnd,
       RecvStopWaited, RecvStopReject, RecvStopEnd, Alarm, vars, Config
<1>3. CASE \/ SendPing \/ (\E id \in Ids : StopPing(id))
           \/ \E ids \in Batches : RecvStart(ids) \/ Send(ids) \/ RecvStop(ids)
  BY <1>1, <1>3 DEF SendPing, StopPing, RecvStart, Send, RecvStop, Begin
<1>4. CASE Signal
  BY <1>1, <1>4 DEF Signal
<1>5. ASSUME NEW t \in Threads, Find(t) PROVE SocketsSame
  <2>1. /\ UNCHANGED <<openFds, tgSockfds>> /\ wpc[t] = "taken"
        /\ \E st \in {"start", "init", "recvInit", "taken"} : wpc' = [wpc EXCEPT ![t] = st]
        /\ wsock' = wsock \/ wsock' = [wsock EXCEPT ![t] = NoSock]
        /\ \A u \in Threads \ {t} : wslot'[u] = wslot[u]
    BY <1>5 DEF Find, Move, Again
  <2>2. \A u \in Threads \ {t} : wpc'[u] = wpc[u] /\ wsock'[u] = wsock[u]
    BY <2>1 DEF SocketTypeOK
  <2>3. wpc'[t] \in {"start", "init", "recvInit", "taken"}
    BY <2>1
  <2> QED BY <1>1, <1>5, <2>1, <2>2, <2>3
<1>6. ASSUME NEW t \in Threads, Test(t) \/ CondWait(t) \/ Take(t) \/ LongStop(t) \/ PacedStop(t) \/ TransacStop(t)
      PROVE  SocketsSame
  BY <1>1, <1>6 DEF Test, CondWait, Take, LongStop, PacedStop, TransacStop, Move
<1>7. ASSUME NEW t \in Threads, Launch(t) PROVE SocketsSame
  BY <1>1, <1>7, LoopType DEF Launch, Move, Loops
<1>8. ASSUME NEW t \in Threads, Report(t) \/ ClearSender(t) \/ RecvExit(t) PROVE SocketsSame
  BY <1>1, <1>8 DEF Report, ClearSender, RecvExit, Move, Again, SocketTypeOK
<1>9. ASSUME NEW t \in Threads, TransacExit(t) \/ SendBroken(t) \/ BurstOverrun(t) PROVE SocketsSame
  BY <1>1, <1>9 DEF TransacExit, SendBroken, BurstOverrun, Move, Again
<1> QED
  BY <1>2, <1>3, <1>4, <1>5, <1>6, <1>7, <1>8, <1>9 DEF Next, TestManager, Main, Worker

\* A receiving thread holds a row of a receiver, and has a socket once it receives.
LEMMA ReceivesStep ==
  ASSUME OrderlyTests, TypeInv, TableIndexed, OrderlyInv, Receives, RowsPlain, [Next]_vars
  PROVE  Receives'
<1> USE DEF TypeInv, TypeOK, ThreadTypeOK, SocketTypeOK
<1>1. CASE Reset
  BY <1>1, NewTests DEF Reset, Receives
<1>2. CASE \E p \in Profiles : Config(p)
  BY <1>2, NewTests DEF Config, MayConfigure, Receives
<1> SUFFICES ASSUME ~Reset, ~ \E p \in Profiles : Config(p) PROVE Receives'
  BY <1>1, <1>2
<1>3. \A t \in Threads : wslot[t] \in Slots /\ wslot'[t] = wslot[t] => MyProf(t)' = MyProf(t)
  BY RowsStay DEF IdsKept, SameRow, MyProf
<1>4. \A t \in Threads : wpc[t] \in {"recvInit", "recving"} => wslot[t] \in Slots
  BY DEF RowHeld, HasRow
<1>5. CASE SocketsSame
  <2> SUFFICES ASSUME NEW t \in Threads, Find(t), wpc'[t] = "recvInit" PROVE MyProf(t)'.dir = "RECV"
    BY <1>3, <1>4, <1>5 DEF SocketsSame, Receives
  <2> DEFINE s == FindSlot(wid[t])
  <2>1. s \in Slots /\ wslot'[t] = s /\ gStreams[s].prof.dir \notin {"NONE", "SEND"} /\ gStreams' = gStreams
    BY FindSlotType DEF Find, Move, Again
  <2>2. gStreams[s].prof.dir \in {"SEND", "RECV", "NONE"}
    BY <2>1 DEF TableTypeOK, Row, Profile
  <2> QED BY <2>1, <2>2 DEF MyProf
<1>6. CASE RecvStopOne
  BY <1>6, <1>3, <1>4 DEF RecvStopOne, Receives
<1>7. ASSUME NEW t \in Threads, SendInit(t) \/ CloseSend(t) PROVE Receives'
  <2>1. /\ wpc[t] \notin {"recvInit", "recving"} /\ wpc'[t] \notin {"recvInit", "recving", "rtransac"}
        /\ \A u \in Threads \ {t} : wpc'[u] = wpc[u] /\ wslot'[u] = wslot[u] /\ wsock'[u] = wsock[u]
    BY <1>7 DEF SendInit, CloseSend, Move, Again, OpenSocket
  <2> QED BY <2>1, <1>3, <1>4 DEF Receives
<1>8. ASSUME NEW t \in Threads, RecvInit(t) PROVE Receives'
  <2>1. MyProf(t).kind \notin Transactions
    BY <1>8 DEF RecvInit, Receives, RowsPlain, MyProf, RowHeld, HasRow
  <2>2. /\ wpc[t] = "recvInit"
        /\ \/ wpc'[t] = "start"
           \/ wpc'[t] = "recving" /\ wslot'[t] = wslot[t] /\ wsock'[t] \in FreeFds
        /\ \A u \in Threads \ {t} : wpc'[u] = wpc[u] /\ wslot'[u] = wslot[u] /\ wsock'[u] = wsock[u]
    BY <1>8, <2>1 DEF RecvInit, Move, Again, OpenSocket
  <2> QED BY <2>2, <1>3, <1>4 DEF Receives, FreeFds, Fds, NoSock
<1> QED BY <1>5, <1>6, <1>7, <1>8, SameSockets

\* Every step keeps the sockets of senders open, their own and off the table.
LEMMA SocketStep ==
  ASSUME PlainReceivers, OrderlyTests, TypeInv, TableIndexed, OrderlyInv, SocketInv, [Next]_vars
  PROVE  SocketInv'
<1> USE DEF SocketInv, TypeInv, TypeOK, ThreadTypeOK, SocketTypeOK
<1>1. RowsPlain' /\ Receives'
  BY RowsPlainStep, ReceivesStep
<1> SUFFICES SendersOwn' /\ ListedOpen'
  BY <1>1
<1>2. NoSock \notin Fds
  BY DEF NoSock, Fds
<1>3. CASE SocketsSame
  BY <1>3 DEF SocketsSame, SendersOwn, ListedOpen
<1>4. CASE Reset
  <2>1. \A t \in Threads : ~Sends(t)'
    BY <1>4, NewTests DEF Reset, Sends, Sending
  <2>2. tgSockfds' = [s \in Slots |-> NoSock]
    BY <1>4 DEF Reset
  <2> QED BY <2>1, <2>2 DEF SendersOwn, ListedOpen
<1>5. CASE RecvStopOne
  <2>1. CASE UNCHANGED <<tgSockfds, openFds, wpc, wsock>>
    BY <2>1 DEF SendersOwn, ListedOpen, Sends
  <2>2. ASSUME NEW k \in Slots, tgSockfds' = [tgSockfds EXCEPT ![k] = NoSock],
               openFds' = openFds \ {tgSockfds[k]}, UNCHANGED <<wpc, wsock>>
        PROVE  SendersOwn' /\ ListedOpen'
    BY <2>2, <1>2 DEF SendersOwn, ListedOpen, Sends
  <2> DEFINE s == FindSlot(Current)
  <2>3. CASE s # NoSlot
    <3>1. s \in Slots /\ gStreams[s].tblidx \in Slots
      BY <2>3, FindSlotType DEF TableTypeOK, Row
    <3> QED BY <3>1, <2>2, <2>3, <1>5 DEF RecvStopOne, Unlist
  <2> QED BY <1>1, <2>1, <2>3, <1>5 DEF RecvStopOne
<1>6. ASSUME NEW t \in Threads, SendInit(t) PROVE SendersOwn' /\ ListedOpen'
  <2>1. CASE FreeFds = {}
    BY <2>1, <1>6 DEF SendInit, Move, Again, SendersOwn, ListedOpen, Sends, Sending
  <2>2. CASE FreeFds # {}
    <3>1. PICK f \in FreeFds : /\ openFds' = openFds \cup {f} /\ wsock' = [wsock EXCEPT ![t] = f]
                               /\ wpc' = [wpc EXCEPT ![t] = "delay"] /\ wpc[t] = "init" /\ tgSockfds' = tgSockfds
      BY <2>2, <1>6 DEF SendInit, Move, OpenSocket
    <3>2. f \notin openFds /\ f # NoSock
      BY <1>2 DEF FreeFds
    <3>3. \A u \in Threads : wsock'[u] = IF u = t THEN f ELSE wsock[u]
      BY <3>1
    <3>4. \A u \in Threads \ {t} : Sends(u)' <=> Sends(u)
      BY <3>1 DEF Sends
    <3> QED BY <3>1, <3>2, <3>3, <3>4 DEF SendersOwn, ListedOpen
  <2> QED BY <2>1, <2>2
<1>7. ASSUME NEW t \in Threads, CloseSend(t) PROVE SendersOwn' /\ ListedOpen'
  <2>1. /\ openFds' = openFds \ {wsock[t]} /\ wsock' = [wsock EXCEPT ![t] = NoSock] /\ tgSockfds' = tgSockfds
        /\ wpc' = [wpc EXCEPT ![t] = "report"] /\ wpc[t] \in {"flush", "rest"}
    BY <1>7 DEF CloseSend, Move
  <2>2. Sends(t) /\ ~Sends(t)' /\ \A u \in Threads \ {t} : wsock'[u] = wsock[u] /\ (Sends(u)' <=> Sends(u))
    BY <2>1 DEF Sends, Sending
  <2> QED BY <2>1, <2>2 DEF SendersOwn, ListedOpen
<1>8. ASSUME NEW t \in Threads, RecvInit(t) PROVE SendersOwn' /\ ListedOpen'
  <2>1. wpc[t] = "recvInit" /\ wslot[t] \in Slots
    BY <1>8 DEF RecvInit, RowHeld, HasRow
  <2>2. gStreams[wslot[t]].tblidx \in Slots
    BY <2>1 DEF TableTypeOK, Row
  <2>3. \A u \in Threads : Sends(u)' => Sends(u) /\ wsock'[u] = wsock[u]
    BY <1>8, <2>1 DEF RecvInit, Move, Again, OpenSocket, Sends, Sending
  <2>4. \/ UNCHANGED <<openFds, tgSockfds>>
        \/ \E f \in FreeFds : openFds' = openFds \cup {f} /\ tgSockfds' = [tgSockfds EXCEPT ![gStreams[wslot[t]].tblidx] = f]
    BY <1>8 DEF RecvInit, OpenSocket
  <2>5. CASE UNCHANGED <<openFds, tgSockfds>>
    BY <2>3, <2>5 DEF SendersOwn, ListedOpen
  <2>6. ASSUME NEW f \in FreeFds, NEW k \in Slots, openFds' = openFds \cup {f}, tgSockfds' = [tgSockfds EXCEPT ![k] = f]
        PROVE  SendersOwn' /\ ListedOpen'
    <3>1. f \notin openFds /\ f # NoSock
      BY <1>2 DEF FreeFds
    <3> QED BY <2>3, <2>6, <3>1 DEF SendersOwn, ListedOpen
  <2> QED BY <2>2, <2>4, <2>5, <2>6
<1> QED BY <1>1, <1>3, <1>4, <1>5, <1>6, <1>7, <1>8, SameSockets

\* SocketInv holds of every run of orderly tests with plain receivers.
LEMMA SocketInvariant ==
  ASSUME OrderlyTests, PlainReceivers PROVE Spec => []SocketInv
<1>1. Init => SocketInv
  <2> SUFFICES ASSUME Init PROVE SocketInv
    OBVIOUS
  <2>1. RowsPlain /\ Receives /\ SendersOwn
    BY DEF Init, RowsPlain, Cleared, NoProfile, Receives, SendersOwn, Sends, Sending
  <2> QED BY <2>1 DEF Init, SocketInv, ListedOpen
<1>2. TypeInv /\ TableIndexed /\ OrderlyInv /\ SocketInv /\ [Next]_vars => SocketInv'
  BY SocketStep
<1> QED BY OrderlyInvariant, TypeInvariant, TableStaysIndexed, <1>1, <1>2, PTL DEF Spec

\* The select set holds no closed socket, so the main loop does not block in accept() without
\* a connection to accept, unless a receiver is one of transactions (wfa_dut.c:255-293).
THEOREM MainLoopKeepsListening ==
  ASSUME OrderlyTests, PlainReceivers PROVE Spec => []MainLoopListens
<1>1. Init => MainLoopListens
  BY DEF Init, MainLoopListens
<1>2. SocketInv /\ MainLoopListens /\ [Next]_vars => MainLoopListens'
  <2> SUFFICES ASSUME SocketInv, MainLoopListens, [Next]_vars PROVE MainLoopListens'
    OBVIOUS
  <2> USE DEF MainLoopListens
  <2>1. CASE Select
    BY <2>1 DEF Select, Stale, SocketInv, ListedOpen
  <2>2. CASE TestManager \/ UNCHANGED vars
    BY <2>2 DEF TestManager, Config, SendPing, StopPing, Reset, RecvStart, Send, RecvStop, Begin, BackToSelect, vars
  <2>3. CASE \/ Signal \/ RecvStartReject \/ RecvStartOne \/ RecvStartEnd \/ SendReject \/ SendOne \/ SendEnd
             \/ RecvStopWaited \/ RecvStopReject \/ RecvStopOne \/ RecvStopEnd
    BY <2>3 DEF Signal, RecvStartReject, RecvStartOne, RecvStartEnd, SendReject, SendOne, SendEnd,
         RecvStopWaited, RecvStopReject, RecvStopOne, RecvStopEnd, Leave, Post
  <2>4. CASE Wake \/ Alarm
    BY <2>4 DEF Wake, BackToSelect, Alarm
  <2>5. ASSUME NEW t \in Threads, Worker(t) \/ SendBroken(t) \/ BurstOverrun(t) PROVE MainLoopListens'
    <3>1. mpc' = mpc
      BY <2>5 DEF Worker, Test, CondWait, Take, Find, SendInit, Launch, LongStop, PacedStop, TransacStop, CloseSend,
           Report, ClearSender, RecvInit, RecvExit, TransacExit, SendBroken, BurstOverrun
    <3> QED BY <3>1
  <2> QED BY <2>1, <2>2, <2>3, <2>4, <2>5 DEF Next, Main
<1> QED BY SocketInvariant, <1>1, <1>2, PTL DEF Spec

\* No socket in use is closed or shared, whatever numbers the kernel gives again: not by a
\* stop, a reset or the end of another stream (wfa_tg.c:576-580, 763-770; wfa_thr.c:717-721).
THEOREM SocketsStayOwned ==
  ASSUME OrderlyTests, PlainReceivers PROVE Spec => []SocketsOwned
<1>1. TypeInv /\ TableIndexed /\ OnceInv /\ SocketInv => SocketsOwned
  <2> SUFFICES ASSUME TypeInv, TableIndexed, OnceInv, SocketInv, NEW t \in Owners, NEW u \in Owners
               PROVE  wsock[t] \in openFds /\ (wsock[t] = wsock[u] => t = u)
    BY DEF SocketsOwned
  <2> DEFINE idx(v) == gStreams[wslot[v]].tblidx
  <2>1. \A v \in Owners : /\ v \in Threads
                          /\ Sends(v) \/ (wpc[v] = "recving" /\ tgSockfds[idx(v)] = wsock[v])
    BY DEF Owners, Sends
  <2>2. \A v \in Threads : wpc[v] = "recving" =>
           wslot[v] \in Slots /\ idx(v) = wslot[v] /\ wsock[v] # NoSock
    BY DEF TypeInv, RowHeld, HasRow, OnceInv, HoldsRow, TableIndexed, SocketInv, Receives
  <2>3. wsock[t] \in openFds
    BY <2>1, <2>2 DEF SocketInv, SendersOwn, ListedOpen
  <2>4. ASSUME wsock[t] = wsock[u] PROVE t = u
    <3>1. CASE Sends(t) \/ Sends(u)
      BY <2>1, <2>2, <2>4, <3>1 DEF SocketInv, SendersOwn
    <3>2. CASE ~Sends(t) /\ ~Sends(u)
      <4>1. wpc[t] = "recving" /\ wpc[u] = "recving" /\ wslot[t] = wslot[u]
        BY <2>1, <2>2, <2>4, <3>2 DEF SocketInv, ListedOpen
      <4>2. wid[t] = wid[u]
        BY <4>1, <2>1 DEF OnceInv, HoldsRow, HasRow
      <4> QED BY <4>1, <4>2, <2>1 DEF OnceInv, StartedOnce, HasRow
    <3> QED BY <3>1, <3>2
  <2> QED BY <2>3, <2>4
<1> QED BY SocketInvariant, OnceInvariant, TypeInvariant, TableStaysIndexed, <1>1, PTL

-----------------------------------------------------------------------------
(* Starts are delivered, when all receivers of a test are started before its   *)
(* senders and one Send names them all: the alarm then finds no start to come. *)
(* A sender that starts late may arm the alarm when that of an earlier sender  *)
(* has ended the test; if the code then refuses it (wfa_tg.c:1389, 1589), or   *)
(* it is one of transactions, the alarm is left to the next test.              *)

DeliveryTests ==
  /\ OrderlyTests /\ "recvFirst" \in Habits /\ "oneSend" \in Habits /\ ~Disturbed
  /\ \A p \in Profiles : p.dir = "SEND" /\ p.timed /\ p.delay => p.loop = "long" /\ p.kind \notin Transactions

RowProfiled == \A s \in Slots : gStreams[s].id # 0 => gStreams[s].prof \in Profiles
SendsRow    == \A t \in Threads : wpc[t] \in {"init", "delay"} => MyProf(t).dir = "SEND"

\* A test is under way from its first start to the alarm or Reset that takes all threads back.
\* A sender that starts at once does so in its test.
InTest       == usedThread # 0 \/ Posted
StartsInTest == \A t \in Threads : wpc[t] = "init" \/ (wpc[t] = "delay" /\ ~MyProf(t).delay) => InTest

\* The alarm is pending only in a test, or while somebody sends, for as long as runLoop says so.
AlarmSends == alarm => InTest \/ (runLoop /\ \E t \in Threads : wpc[t] \in Sending)

\* Once a Send is under way, every stream of the test has been started.
Sender(id) == \E s \in Slots : gStreams[s].id = id /\ gStreams[s].prof.dir = "SEND"
Underway ==
  \/ mpc \in {"send", "sendSignal"} \/ alarm
  \/ \E t \in Threads : wpc[t] \in {"init", "delay"} \/ (thr_flag[t] # 0 /\ Sender(thr_flag[t]))
AllSent == Underway => \A id \in fresh : ~Known(id)

\* The threads the starts to come are posted to have nothing to do.
Idling    == {"start", "toWait", "waiting"}
Unused(t) == usedThread <= t /\ (Posted => t # usedThread)
FreeThreads == Awaits # {} => \A t \in Threads : Unused(t) => wpc[t] \in Idling /\ thr_flag[t] = 0

\* A thread that has taken a stream is posted no other.
BusyFlag == \A t \in Threads : wpc[t] \notin Idling \cup Taking => thr_flag[t] = 0

DeliveryInv == RowProfiled /\ SendsRow /\ StartsInTest /\ AlarmSends /\ AllSent /\ FreeThreads /\ BusyFlag

\* Rows with an id keep carrying a configured profile.
LEMMA RowProfiledStep ==
  ASSUME TypeInv, RowProfiled, [Next]_vars PROVE RowProfiled'
<1> USE DEF RowProfiled
<1>1. CASE IdsKept
  BY <1>1 DEF IdsKept, SameRow
<1>2. ASSUME NEW row \in Slots, RowNamed(row) PROVE RowProfiled'
  BY <1>2 DEF RowNamed, SameRow, Cleared
<1>3. CASE RowDropped
  BY <1>3 DEF RowDropped, SameRow
<1> QED BY <1>1, <1>2, <1>3, TableSteps

\* A Send that names as many senders as are fresh names all of them.
LEMMA SendNamesAll ==
  ASSUME DeliveryTests, TypeInv, TableIndexed, RowProfiled,
         NEW ids \in Batches, Among(ids, OfDir(fresh, "SEND")), MaySend(ids)
  PROVE  \A id \in fresh \ Named(ids) : ~Known(id)
<1> SUFFICES ASSUME NEW id \in fresh, id \notin Named(ids), Known(id) PROVE FALSE
  OBVIOUS
<1> DEFINE S == OfDir(fresh, "SEND")
<1>1. OfDir(fresh, "RECV") = {} /\ Len(ids) = Cardinality(S)
  BY DEF DeliveryTests, MaySend, Does
<1>2. IsFiniteSet(S)
  <2>1. IsFiniteSet(Ids)
    BY FS_Interval, ConstantsAssumption DEF Ids
  <2>2. S \in SUBSET Ids
    BY DEF OfDir, TypeInv, TypeOK, ScriptTypeOK
  <2> QED BY <2>1, <2>2, FS_Subset
<1>3. Len(ids) \in Nat /\ ids \in [1 .. Len(ids) -> S] /\ \A i, j \in 1 .. Len(ids) : ids[i] = ids[j] => i = j
  <2>1. PICK n \in 1 .. MaxBatch : ids \in [1 .. n -> Ids]
    BY DEF Batches
  <2>2. Len(ids) = n /\ n \in Nat
    BY <2>1, ConstantsAssumption
  <2> QED BY <2>1, <2>2 DEF Batches, Named, Among, DeliveryTests, OrderlyTests, Does
<1>4. ids \in Injection(1 .. Len(ids), S)
  BY <1>3 DEF Injection, IsInjective
<1>5. Cardinality(1 .. Len(ids)) = Len(ids)
  BY <1>3, FS_Interval
<1>6. ids \in Surjection(1 .. Len(ids), S)
  BY <1>1, <1>2, <1>4, <1>5, FS_Injection
<1>7. id \notin S
  BY <1>3, <1>6 DEF Surjection, Named
<1>8. id # 0
  BY DEF TypeInv, TypeOK, ScriptTypeOK, Ids
<1>9. FindSlot(id) \in Slots /\ gStreams[FindSlot(id)].id = id /\ FindSlot(id) # NoSlot
  BY <1>8, KnownFound, RangeFacts
<1>10. ProfileOf(id).dir \in {"SEND", "RECV"}
  BY <1>8, <1>9, ConstantsAssumption DEF RowProfiled, ProfileOf, Profile
<1> QED BY <1>1, <1>7, <1>9, <1>10 DEF OfDir, Names

\* What the threads' other steps do to what a delivery rests on.
LEMMA SendsRowStep ==
  ASSUME OrderlyTests, TypeInv, TableIndexed, OrderlyInv, SendsRow, [Next]_vars PROVE SendsRow'
<1> USE DEF SendsRow, TypeInv, TypeOK, ThreadTypeOK
<1>1. CASE Reset \/ \E p \in Profiles : Config(p)
  BY <1>1, NewTests DEF Reset, Config, MayConfigure
<1> SUFFICES ASSUME ~Reset, ~ \E p \in Profiles : Config(p) PROVE SendsRow'
  BY <1>1
<1>2. \A t \in Threads : wslot[t] \in Slots /\ wslot'[t] = wslot[t] => MyProf(t)' = MyProf(t)
  BY RowsStay DEF IdsKept, SameRow, MyProf
<1>3. \A t \in Threads : wpc[t] \in {"init", "delay"} => wslot[t] \in Slots
  BY DEF RowHeld, HasRow, SenderStates
<1>4. ASSUME NEW t \in Threads, Find(t) PROVE SendsRow'
  <2> DEFINE s == FindSlot(wid[t])
  <2>1. \A u \in Threads \ {t} : wpc'[u] = wpc[u] /\ wslot'[u] = wslot[u]
    BY <1>4 DEF Find, Move, Again
  <2>2. wpc'[t] \in {"init", "delay"} => s \in Slots /\ wslot'[t] = s /\ gStreams[s].prof.dir = "SEND" /\ gStreams' = gStreams
    BY <1>4, FindSlotType DEF Find, Move, Again
  <2> QED BY <2>1, <2>2, <1>2, <1>3 DEF MyProf
<1>5. ASSUME NEW t \in Threads, SendInit(t) \/ RecvInit(t) PROVE SendsRow'
  <2>1. /\ wpc'[t] \in {"init", "delay"} => wpc[t] = "init" /\ wslot'[t] = wslot[t]
        /\ \A u \in Threads \ {t} : wpc'[u] = wpc[u] /\ wslot'[u] = wslot[u]
    BY <1>5 DEF SendInit, RecvInit, Move, Again, OpenSocket
  <2> QED BY <2>1, <1>2, <1>3
<1>6. ASSUME \A t \in Threads : wpc'[t] \in {"init", "delay"} => wpc[t] = wpc'[t] /\ wslot'[t] = wslot[t] PROVE SendsRow'
  BY <1>2, <1>3, <1>6
<1>7. ASSUME NEW t \in Threads, \/ Test(t) \/ CondWait(t) \/ Take(t) \/ Launch(t) \/ LongStop(t) \/ PacedStop(t)
             \/ TransacStop(t) \/ CloseSend(t)
      PROVE SendsRow'
  BY <1>6, <1>7, LoopType DEF Loops, Test, CondWait, Take, Launch, LongStop, PacedStop, TransacStop, CloseSend, Move
<1>8. ASSUME NEW t \in Threads, \/ Report(t) \/ ClearSender(t) \/ RecvExit(t)
             \/ TransacExit(t) \/ SendBroken(t) \/ BurstOverrun(t)
      PROVE SendsRow'
  BY <1>6, <1>8 DEF Report, ClearSender, RecvExit, TransacExit, SendBroken, BurstOverrun, Move, Again
<1>9. CASE \/ Select \/ Wake \/ RecvStartReject \/ RecvStartOne \/ RecvStartEnd \/ SendReject \/ SendOne \/ SendEnd
           \/ RecvStopWaited \/ RecvStopReject \/ RecvStopOne \/ RecvStopEnd \/ Alarm \/ UNCHANGED vars
  BY <1>6, <1>9 DEF Select, Wake, RecvStartReject, RecvStartOne, RecvStartEnd, SendReject, SendOne, SendEnd,
       RecvStopWaited, RecvStopReject, RecvStopOne, RecvStopEnd, Alarm, vars
<1>10. CASE \/ SendPing \/ (\E id \in Ids : StopPing(id)) \/ Signal
            \/ \E ids \in Batches : RecvStart(ids) \/ Send(ids) \/ RecvStop(ids)
  BY <1>6, <1>10 DEF SendPing, StopPing, RecvStart, Send, RecvStop, Begin, Signal
<1> QED
  BY <1>4, <1>5, <1>7, <1>8, <1>9, <1>10 DEF Next, TestManager, Main, Worker

\* Only the alarm and a Reset end a test.
LEMMA InTestStep ==
  ASSUME TypeInv, [Next]_vars, ~Reset, ~Alarm, InTest PROVE InTest'
<1> USE DEF InTest, Posted, TypeInv, TypeOK, TableTypeOK, FlagTypeOK
<1>1. ASSUME UNCHANGED usedThread, Posted => mpc' = mpc PROVE InTest'
  BY <1>1
<1>2. CASE Signal
  <2>1. usedThread \in Nat /\ usedThread' = usedThread + 1
    BY <1>2, ConstantsAssumption DEF Signal, NextThread
  <2> QED BY <2>1
<1>3. ASSUME NEW t \in Threads, Worker(t) \/ SendBroken(t) \/ BurstOverrun(t) PROVE InTest'
  BY <1>1, <1>3 DEF Worker, Test, CondWait, Take, Find, SendInit, Launch, LongStop, PacedStop, TransacStop, CloseSend,
       Report, ClearSender, RecvInit, RecvExit, TransacExit, SendBroken, BurstOverrun
<1>4. CASE \/ Select \/ Wake \/ RecvStartReject \/ RecvStartOne \/ RecvStartEnd \/ SendReject \/ SendOne \/ SendEnd
           \/ RecvStopWaited \/ RecvStopReject \/ RecvStopOne \/ RecvStopEnd \/ UNCHANGED vars
  BY <1>1, <1>4 DEF Select, Wake, RecvStartReject, RecvStartOne, RecvStartEnd, SendReject, SendOne, SendEnd,
       RecvStopWaited, RecvStopReject, RecvStopOne, RecvStopEnd, vars
<1>5. CASE \/ SendPing \/ (\E id \in Ids : StopPing(id)) \/ (\E p \in Profiles : Config(p))
           \/ \E ids \in Batches : RecvStart(ids) \/ Send(ids) \/ RecvStop(ids)
  BY <1>1, <1>5 DEF MayAsk, SendPing, StopPing, Config, RecvStart, Send, RecvStop, Begin
<1> QED
  BY <1>2, <1>3, <1>4, <1>5 DEF Next, TestManager, Main

\* A stream is taken in its test, and no time passes before it starts, unless it starts late.
LEMMA StartsInTestStep ==
  ASSUME OrderlyTests, TypeInv, OrderlyInv, StartsInTest, [Next]_vars PROVE StartsInTest'
<1> USE DEF StartsInTest, TypeInv, TypeOK, ThreadTypeOK, FlagTypeOK
<1>1. CASE Reset \/ \E p \in Profiles : Config(p)
  BY <1>1, NewTests DEF Reset, Config, MayConfigure
<1>2. CASE Alarm
  BY <1>2 DEF Alarm, SecondPasses, Soon, AtOnce, MyProf, OrderlyTests
<1> SUFFICES ASSUME ~Reset, ~Alarm, ~ \E p \in Profiles : Config(p) PROVE StartsInTest'
  BY <1>1, <1>2
<1>3. \A t \in Threads : wslot[t] \in Slots /\ wslot'[t] = wslot[t] => MyProf(t)' = MyProf(t)
  BY RowsStay DEF IdsKept, SameRow, MyProf
<1>4. \A t \in Threads : wpc[t] \in {"init", "delay"} => wslot[t] \in Slots
  BY DEF RowHeld, HasRow, SenderStates
<1>5. InTest => InTest'
  BY InTestStep
<1>6. ASSUME NEW t \in Threads, Find(t) PROVE StartsInTest'
  <2>1. \A u \in Threads \ {t} : wpc'[u] = wpc[u] /\ wslot'[u] = wslot[u]
    BY <1>6 DEF Find, Move, Again
  <2>2. t < usedThread \/ Posted
    BY <1>6 DEF Find, Move, Again, OrderlyInv, TakesStart, Taking
  <2>3. InTest
    BY <2>2, ConstantsAssumption DEF InTest, Threads
  <2> QED BY <2>1, <2>3, <1>3, <1>4, <1>5
<1>7. ASSUME NEW t \in Threads, SendInit(t) \/ RecvInit(t) PROVE StartsInTest'
  <2>1. /\ wpc'[t] \in {"init", "delay"} => wpc[t] = "init"
        /\ \A u \in Threads \ {t} : wpc'[u] = wpc[u] /\ wslot'[u] = wslot[u]
    BY <1>7 DEF SendInit, RecvInit, Move, Again, OpenSocket
  <2> QED BY <2>1, <1>3, <1>4, <1>5
<1>8. ASSUME \A t \in Threads : wpc'[t] \in {"init", "delay"} => wpc[t] = wpc'[t] /\ wslot'[t] = wslot[t]
      PROVE  StartsInTest'
  BY <1>3, <1>4, <1>5, <1>8
<1>9. ASSUME NEW t \in Threads, \/ Test(t) \/ CondWait(t) \/ Take(t) \/ Launch(t) \/ LongStop(t) \/ PacedStop(t)
             \/ TransacStop(t) \/ CloseSend(t)
      PROVE StartsInTest'
  BY <1>8, <1>9, LoopType DEF Loops, Test, CondWait, Take, Launch, LongStop, PacedStop, TransacStop, CloseSend, Move
<1>10. ASSUME NEW t \in Threads, \/ Report(t) \/ ClearSender(t) \/ RecvExit(t)
              \/ TransacExit(t) \/ SendBroken(t) \/ BurstOverrun(t)
      PROVE StartsInTest'
  BY <1>8, <1>10 DEF Report, ClearSender, RecvExit, TransacExit, SendBroken, BurstOverrun, Move, Again
<1>11. CASE \/ Select \/ Wake \/ RecvStartReject \/ RecvStartOne \/ RecvStartEnd \/ SendReject \/ SendOne \/ SendEnd
            \/ RecvStopWaited \/ RecvStopReject \/ RecvStopOne \/ RecvStopEnd \/ UNCHANGED vars
  BY <1>8, <1>11 DEF Select, Wake, RecvStartReject, RecvStartOne, RecvStartEnd, SendReject, SendOne, SendEnd,
       RecvStopWaited, RecvStopReject, RecvStopOne, RecvStopEnd, vars
<1>12. CASE \/ SendPing \/ (\E id \in Ids : StopPing(id)) \/ Signal
            \/ \E ids \in Batches : RecvStart(ids) \/ Send(ids) \/ RecvStop(ids)
  BY <1>8, <1>12 DEF SendPing, StopPing, RecvStart, Send, RecvStop, Begin, Signal
<1> QED
  BY <1>6, <1>7, <1>9, <1>10, <1>11, <1>12 DEF Next, TestManager, Main, Worker

\* The alarm is armed in a test, or by a sender that enters its loop, and nothing ends the loops before it.
LEMMA AlarmSendsStep ==
  ASSUME DeliveryTests, TypeInv, TableIndexed, OnceInv, RowProfiled, SendsRow, StartsInTest, AlarmSends, [Next]_vars
  PROVE  AlarmSends'
<1> USE DEF AlarmSends, TypeInv, TypeOK, ThreadTypeOK
<1> SUFFICES ASSUME ~Reset, ~Alarm PROVE AlarmSends'
  BY DEF Reset, Alarm
<1>1. InTest => InTest'
  BY InTestStep
<1>2. ASSUME UNCHANGED <<alarm, runLoop>>, \A t \in Threads : wpc[t] \in Sending => wpc'[t] = wpc[t] PROVE AlarmSends'
  BY <1>1, <1>2
<1>3. ASSUME NEW t \in Threads, Launch(t) PROVE AlarmSends'
  <2> DEFINE s == wslot[t]
  <2>1. wpc[t] = "delay" /\ s \in Slots /\ gStreams[s].id = wid[t] /\ wid[t] # 0 /\ MyProf(t).dir = "SEND"
    BY <1>3 DEF Launch, RowHeld, HasRow, SenderStates, OnceInv, HoldsRow, SendsRow
  <2>2. MyProf(t) \in Profiles /\ MyProf(t).loop \in Loops
    BY <2>1, LoopType DEF RowProfiled, MyProf
  <2>3. FindSlot(wid[t]) = s /\ s # NoSlot
    BY <2>1, KnownFound, RangeFacts DEF Known, TableIndexed
  <2>4. Runs(t) <=> ~MyProf(t).zero
    BY <2>3 DEF Runs, ProfileOf, MyProf
  <2>5. ~(wpc[t] \in Sending) /\ \A u \in Threads \ {t} : wpc'[u] = wpc[u]
    BY <1>3, <2>1 DEF Launch, Move, Sending
  <2>6. alarm' = IF MyProf(t).timed THEN ~MyProf(t).zero ELSE alarm
    BY <1>3 DEF Launch, Arm
  <2> SUFFICES ASSUME ~InTest' PROVE AlarmSends'
    OBVIOUS
  <2>7. MyProf(t).delay /\ (alarm => runLoop /\ \E u \in Threads : wpc[u] \in Sending)
    BY <2>1, <1>1 DEF StartsInTest
  <2>8. CASE MyProf(t).kind \in {"FILE", "IPTV"} /\ ~MyProf(t).zero
    <3>1. CASE runLoop' = TRUE /\ wpc'[t] = MyProf(t).loop
      BY <2>2, <3>1 DEF Loops, Sending
    <3>2. CASE MayRefuse(t) /\ runLoop' = runLoop
      <4>1. alarm' = alarm
        BY <2>1, <2>2, <2>4, <2>6, <2>8, <2>7, <3>2 DEF MayRefuse, DeliveryTests
      <4> QED BY <2>5, <2>7, <3>2, <4>1
    <3>3. \/ runLoop' = TRUE /\ wpc'[t] = MyProf(t).loop
          \/ MayRefuse(t) /\ runLoop' = runLoop
      BY <1>3, <2>8 DEF Launch, Move, Transactions
    <3> QED BY <3>1, <3>2, <3>3
  <2>9. CASE MyProf(t).kind \in {"FILE", "IPTV"} /\ MyProf(t).zero
    <3>1. runLoop' = runLoop
      BY <1>3, <2>4, <2>9 DEF Launch, Transactions
    <3>2. alarm' => alarm
      BY <2>6, <2>9
    <3> QED BY <2>5, <2>7, <3>1, <3>2
  <2>10. CASE MyProf(t).kind \in Transactions
    <3>1. runLoop' = runLoop
      BY <1>3, <2>10 DEF Launch, Transactions
    <3>2. alarm' = alarm
      BY <2>1, <2>2, <2>6, <2>10, <2>7 DEF DeliveryTests
    <3> QED BY <2>5, <2>7, <3>1, <3>2
  <2>11. MyProf(t).kind \in {"FILE", "IPTV"} \cup Transactions
    BY <2>2, ConstantsAssumption DEF Profile, Kinds, Transactions
  <2> QED BY <2>8, <2>9, <2>10, <2>11
<1>4. ASSUME NEW t \in Threads, LongStop(t) \/ PacedStop(t) PROVE AlarmSends'
  BY <1>1, <1>4 DEF LongStop, PacedStop
<1>5. ASSUME NEW t \in Threads, SendBroken(t) \/ BurstOverrun(t) PROVE AlarmSends'
  BY <1>5 DEF SendBroken, BurstOverrun, DeliveryTests
<1>6. ASSUME NEW t \in Threads, \/ Test(t) \/ CondWait(t) \/ Take(t) \/ Find(t) \/ SendInit(t) \/ TransacStop(t)
      PROVE AlarmSends'
  BY <1>2, <1>6 DEF Test, CondWait, Take, Find, SendInit, TransacStop, Move, Again, Sending
<1>7. ASSUME NEW t \in Threads, \/ CloseSend(t) \/ Report(t) \/ ClearSender(t) \/ RecvInit(t) \/ RecvExit(t)
             \/ TransacExit(t)
      PROVE AlarmSends'
  BY <1>2, <1>7 DEF CloseSend, Report, ClearSender, RecvInit, RecvExit, TransacExit, Move, Again, Sending
<1>8. CASE \/ Select \/ Wake \/ RecvStartReject \/ RecvStartOne \/ RecvStartEnd \/ SendReject \/ SendOne \/ SendEnd
           \/ RecvStopWaited \/ RecvStopReject \/ RecvStopOne \/ RecvStopEnd \/ UNCHANGED vars
           \/ \E p \in Profiles : Config(p)
  BY <1>2, <1>8 DEF Select, Wake, RecvStartReject, RecvStartOne, RecvStartEnd, SendReject, SendOne, SendEnd,
       RecvStopWaited, RecvStopReject, RecvStopOne, RecvStopEnd, vars, Config
<1>9. CASE \/ SendPing \/ (\E id \in Ids : StopPing(id)) \/ Signal
           \/ \E ids \in Batches : RecvStart(ids) \/ Send(ids) \/ RecvStop(ids)
  BY <1>2, <1>9 DEF SendPing, StopPing, DeliveryTests, OrderlyTests, Does, RecvStart, Send, RecvStop, Begin, Signal, Sending
<1> QED
  BY <1>3, <1>4, <1>5, <1>6, <1>7, <1>8, <1>9 DEF Next, TestManager, Main, Worker

\* No step begins to send, or arms the alarm, with a stream of the test still to be started.
LEMMA AllSentStep ==
  ASSUME DeliveryTests, TypeInv, TableIndexed, OrderlyInv, RowProfiled, AlarmSends, AllSent, [Next]_vars
  PROVE  AllSent'
<1> USE DEF AllSent, TypeInv, TypeOK, ThreadTypeOK, FlagTypeOK
<1>1. ASSUME NEW p \in Profiles, Config(p) PROVE AllSent'
  <2>1. \A t \in Threads : wpc'[t] = "waiting" /\ wpc[t] = "waiting" /\ thr_flag'[t] = 0
    BY <1>1, NewTests DEF Config, MayConfigure, DeliveryTests
  <2>2. mpc' = "select" /\ alarm' = alarm /\ ~alarm
    BY <1>1, <2>1 DEF Config, MayConfigure, MayAsk, BackToSelect, AlarmSends, InTest, Posted, Sending, DeliveryTests, OrderlyTests, Does
  <2> QED BY <2>1, <2>2 DEF Underway
<1>2. CASE Reset
  BY <1>2 DEF Reset
<1> SUFFICES ASSUME ~Reset, ~ \E p \in Profiles : Config(p) PROVE AllSent'
  BY <1>1, <1>2
<1>3. IdsKept /\ \A id : Known(id)' <=> Known(id)
  BY RowsStay
<1>4. \A id : Sender(id)' <=> Sender(id)
  BY <1>3 DEF Sender, IdsKept, SameRow
<1>5. ASSUME NEW ids \in Batches, Send(ids) PROVE AllSent'
  <2>1. fresh' = fresh \ Named(ids) /\ Among(ids, OfDir(fresh, "SEND")) /\ MaySend(ids)
    BY <1>5 DEF Send, Note, DeliveryTests, OrderlyTests, Does
  <2> QED BY <2>1, <1>3, SendNamesAll
<1>6. ASSUME fresh' \subseteq fresh, mpc' \in {"send", "sendSignal"} => Underway, alarm' => Underway,
             \A t \in Threads : wpc'[t] \in {"init", "delay"} => Underway,
             \A t \in Threads : thr_flag'[t] # 0 /\ Sender(thr_flag'[t]) => Underway
      PROVE  AllSent'
  BY <1>3, <1>4, <1>6 DEF Underway
<1>7. ASSUME NEW ids \in Batches, RecvStart(ids) \/ RecvStop(ids) PROVE AllSent'
  <2>1. fresh' \subseteq fresh /\ mpc' \notin {"send", "sendSignal"} /\ UNCHANGED <<alarm, wpc, thr_flag>>
    BY <1>7 DEF RecvStart, RecvStop, Begin, Note
  <2> QED BY <2>1, <1>6 DEF Underway
<1>8. CASE RecvStartOne
  <2>1. fresh' = fresh /\ UNCHANGED <<alarm, wpc>> /\ Names(Current, "RECV") /\ mpc' \notin {"send", "sendSignal"}
    BY <1>8 DEF RecvStartOne, Post
  <2>2. thr_flag' = thr_flag \/ thr_flag' = [thr_flag EXCEPT ![usedThread] = Current]
    BY <1>8 DEF RecvStartOne, Post
  <2>3. Current # 0
    BY <1>8, IdFacts DEF RecvStartOne, Ids
  <2>4. ~Sender(Current)
    BY <2>1, <2>3, FindSlotType DEF Names, ProfileOf, Sender, TableIndexed
  <2>5. \A t \in Threads : thr_flag'[t] \in {thr_flag[t], Current}
    BY <2>2
  <2> QED BY <2>1, <2>4, <2>5, <1>6 DEF Underway
<1>9. CASE SendOne \/ SendEnd \/ SendReject \/ Signal
  <2>1. fresh' = fresh /\ alarm' = alarm
    BY <1>9 DEF SendOne, SendEnd, SendReject, Signal
  <2>2. CASE SendOne
    <3>1. Underway
      BY <2>2 DEF SendOne, Underway
    <3> QED BY <2>1, <3>1, <1>6
  <2>3. CASE SendEnd \/ SendReject
    BY <2>1, <2>3, <1>6 DEF SendEnd, SendReject, Underway
  <2>4. CASE Signal
    <3>1. /\ mpc' \in {"send", "sendSignal"} => mpc \in {"send", "sendSignal"}
          /\ \A t \in Threads : wpc'[t] \in {wpc[t], "start"}
          /\ thr_flag' = thr_flag
      BY <2>4 DEF Signal
    <3> QED BY <2>1, <3>1, <1>6 DEF Underway
  <2> QED BY <1>9, <2>2, <2>3, <2>4
<1>10. CASE \/ Select \/ Wake \/ RecvStartReject \/ RecvStartEnd
            \/ RecvStopWaited \/ RecvStopReject \/ RecvStopOne \/ RecvStopEnd \/ UNCHANGED vars
  <2>1. /\ fresh' = fresh /\ UNCHANGED <<alarm, wpc, thr_flag>>
        /\ mpc' \in {"send", "sendSignal"} => mpc' = mpc
    BY <1>10 DEF Select, Wake, BackToSelect, RecvStartReject, RecvStartEnd,
       RecvStopWaited, RecvStopReject, RecvStopOne, RecvStopEnd, Leave, vars
  <2> QED BY <2>1, <1>6 DEF Underway
<1>11. CASE Alarm \/ SendPing \/ \E id \in Ids : StopPing(id)
  <2>1. /\ UNCHANGED <<fresh, mpc, wpc>>
        /\ alarm' => alarm
        /\ \A t \in Threads : thr_flag'[t] \in {0, thr_flag[t]}
    BY <1>11 DEF Alarm, SendPing, StopPing, DeliveryTests, OrderlyTests, Does
  <2> QED BY <2>1, <1>6 DEF Underway
<1>12. ASSUME NEW t \in Threads, Find(t) PROVE AllSent'
  <2> DEFINE s == FindSlot(wid[t])
  <2>1. /\ UNCHANGED <<fresh, alarm, mpc>>
        /\ thr_flag' = [thr_flag EXCEPT ![t] = 0]
        /\ \A u \in Threads \ {t} : wpc'[u] = wpc[u]
        /\ wpc'[t] \in {"init", "delay"} => s # NoSlot /\ gStreams[s].prof.dir = "SEND"
        /\ thr_flag[t] # 0 /\ wid[t] = thr_flag[t]
    BY <1>12 DEF Find, Move, Again, OrderlyInv, TakesStart, Taking
  <2>2. wpc'[t] \in {"init", "delay"} => Underway
    BY <2>1, FindSlotType DEF Underway, Sender
  <2>3. \A u \in Threads : thr_flag'[u] \in {0, thr_flag[u]}
    BY <2>1
  <2> QED BY <2>1, <2>2, <2>3, <1>6 DEF Underway
<1>14. ASSUME NEW t \in Threads, Take(t) PROVE AllSent'
  <2>1. /\ UNCHANGED <<fresh, alarm, mpc, thr_flag>>
        /\ \A u \in Threads : wpc'[u] \in {"init", "delay"} => wpc[u] \in {"init", "delay"}
    BY <1>14 DEF Take, Move
  <2> QED BY <2>1, <1>6 DEF Underway
<1>13. ASSUME NEW t \in Threads,
              \/ Test(t) \/ CondWait(t) \/ SendInit(t) \/ Launch(t) \/ LongStop(t) \/ PacedStop(t)
              \/ TransacStop(t) \/ CloseSend(t) \/ Report(t) \/ ClearSender(t) \/ RecvInit(t) \/ RecvExit(t)
              \/ TransacExit(t) \/ SendBroken(t) \/ BurstOverrun(t)
       PROVE  AllSent'
  <2>1. fresh' = fresh /\ mpc' = mpc /\ \A u \in Threads : thr_flag'[u] \in {0, thr_flag[u]}
    BY <1>13, ThreadStep DEF ThreadKeeps
  <2>2. /\ alarm' => alarm \/ wpc[t] = "delay"
        /\ \A u \in Threads : wpc'[u] \in {"init", "delay"} => wpc[u] \in {"init", "delay"}
    <3> USE DEF Move, Again
    <3>1. CASE Test(t) \/ CondWait(t) \/ SendInit(t)
      BY <3>1 DEF Test, CondWait, SendInit
    <3>2. CASE Launch(t)
      BY <3>2, LoopType DEF Launch, Loops
    <3>3. CASE LongStop(t) \/ PacedStop(t) \/ TransacStop(t) \/ CloseSend(t)
      BY <3>3 DEF LongStop, PacedStop, TransacStop, CloseSend
    <3>4. CASE Report(t) \/ ClearSender(t)
      BY <3>4 DEF Report, ClearSender
    <3>5. CASE RecvInit(t) \/ RecvExit(t) \/ TransacExit(t) \/ SendBroken(t) \/ BurstOverrun(t)
      BY <3>5 DEF RecvInit, RecvExit, TransacExit, SendBroken, BurstOverrun
    <3> QED BY <1>13, <3>1, <3>2, <3>3, <3>4, <3>5
  <2> QED BY <2>1, <2>2, <1>6 DEF Underway
<1> QED
  BY <1>5, <1>7, <1>8, <1>9, <1>10, <1>11, <1>12, <1>13, <1>14
     DEF Next, TestManager, Main, Worker

\* Between two resets of the table no row comes to await a start that did not.
LEMMA AwaitsShrink ==
  ASSUME OrderlyTests, TypeInv, OrderlyInv, [Next]_vars, ~Reset, ~ \E p \in Profiles : Config(p)
  PROVE  Awaits' \subseteq Awaits
<1>1. IdsKept
  BY RowsStay
<1>2. ASSUME fresh' \subseteq fresh, \A id : Left(id)' => Left(id) \/ id \in fresh
      PROVE  Awaits' \subseteq Awaits
  BY <1>1, <1>2 DEF Awaits, IdsKept, SameRow
<1>3. ASSUME NEW ids \in Batches, RecvStart(ids) \/ Send(ids) PROVE Awaits' \subseteq Awaits
  <2>1. PICK d \in {"RECV", "SEND"} : Among(ids, OfDir(fresh, d))
    BY <1>3 DEF RecvStart, Send
  <2>2. asked' = ids /\ next' = 1 /\ fresh' \subseteq fresh
    BY <1>3 DEF RecvStart, Send, Begin, Note, OrderlyTests, Does
  <2>3. \A id : Left(id)' => id \in fresh
    BY <2>1, <2>2, StartedIds DEF Left
  <2> QED BY <2>2, <2>3, <1>2
<1>4. CASE \/ RecvStartReject \/ RecvStartEnd \/ SendReject \/ SendEnd \/ RecvStopReject
           \/ Select \/ Wake \/ RecvStopWaited \/ RecvStopOne \/ RecvStopEnd \/ \E ids \in Batches : RecvStop(ids)
  <2>1. mpc' \notin Starting /\ fresh' = fresh
    BY <1>4 DEF RecvStartReject, RecvStartEnd, SendReject, SendEnd, RecvStopReject, Leave, Select, Wake,
                BackToSelect, RecvStopWaited, RecvStopOne, RecvStopEnd, RecvStop, Begin, Starting
  <2> QED BY <2>1, <1>2 DEF Left
<1>5. CASE RecvStartOne \/ SendOne
  <2>1. mpc \in Starting /\ UNCHANGED <<asked, next, fresh>>
    BY <1>5 DEF RecvStartOne, SendOne, Post, Starting
  <2> QED BY <2>1, <1>2 DEF Left
<1>6. CASE Signal
  <2>1. mpc \in Starting /\ next' = next + 1 /\ UNCHANGED <<asked, fresh>>
    BY <1>6 DEF Signal, Starting
  <2>2. \A id : Left(id)' => Left(id)
    BY <2>1 DEF Left, TypeInv, TypeOK, MainTypeOK
  <2> QED BY <2>1, <2>2, <1>2
<1>7. CASE Alarm \/ SendPing \/ (\E id \in Ids : StopPing(id)) \/ UNCHANGED vars
  <2>1. UNCHANGED <<mainVars, fresh>>
    BY <1>7 DEF Alarm, SendPing, StopPing, OrderlyTests, Does, vars
  <2> QED BY <2>1, <1>2 DEF Left
<1>8. ASSUME NEW t \in Threads, Worker(t) \/ SendBroken(t) \/ BurstOverrun(t) PROVE Awaits' \subseteq Awaits
  <2>1. UNCHANGED <<mainVars, fresh>>
    <3>1. CASE Take(t) \/ Find(t)
      BY <3>1 DEF Take, Find
    <3>2. CASE ~Take(t) /\ ~Find(t)
      BY <1>8, <3>2, ThreadStep DEF Worker, ThreadKeeps
    <3> QED BY <3>1, <3>2
  <2> QED BY <2>1, <1>2 DEF Left
<1> QED BY <1>3, <1>4, <1>5, <1>6, <1>7, <1>8 DEF Next, TestManager, Main

\* A start is posted to a thread that has nothing to do.
LEMMA PostsToFree ==
  ASSUME TypeInv, OrderlyInv, FreeThreads, RecvStartOne \/ SendOne
  PROVE  usedThread \in Threads => wpc[usedThread] \in Idling /\ thr_flag[usedThread] = 0
<1>1. mpc \in {"recvStart", "send"} /\ More /\ Names(Current, IF mpc = "recvStart" THEN "RECV" ELSE "SEND")
  BY DEF RecvStartOne, SendOne
<1>2. PICK q \in Seq(Ids) : q = asked
  BY DEF TypeInv, TypeOK, MainTypeOK
<1>3. next \in 1 .. Len(asked)
  BY <1>1, <1>2 DEF More, TypeInv, TypeOK, MainTypeOK
<1>4. PICK s \in Slots : gStreams[s].id = Current
  BY <1>1, <1>3 DEF OrderlyInv, AskedKnown, BusyMain, Starting, Known, Current
<1>5. s \in Awaits
  BY <1>1, <1>3, <1>4 DEF Awaits, Left, Starting, Current
<1>6. usedThread <= usedThread /\ ~Posted
  BY <1>1 DEF Posted, TypeInv, TypeOK, FlagTypeOK
<1> QED BY <1>5, <1>6 DEF FreeThreads, Unused

\* The threads the starts to come will be posted to stay idle.
LEMMA FreeThreadsStep ==
  ASSUME DeliveryTests, TypeInv, TableIndexed, OrderlyInv, AllSent, FreeThreads, [Next]_vars
  PROVE  FreeThreads'
<1> USE DEF DeliveryTests
<1>1. CASE Reset \/ \E p \in Profiles : Config(p)
  <2>1. \A t \in Threads : wpc'[t] = "waiting" /\ thr_flag'[t] = 0
    BY <1>1, NewTests DEF Reset, Config, MayConfigure
  <2> QED BY <2>1 DEF FreeThreads, Idling
<1> SUFFICES ASSUME ~Reset, ~ \E p \in Profiles : Config(p) PROVE FreeThreads'
  BY <1>1
<1>2. Awaits' \subseteq Awaits
  BY AwaitsShrink
<1>3. ASSUME \A t \in Threads : Unused(t)' /\ wpc[t] \in Idling /\ thr_flag[t] = 0 =>
               Unused(t) /\ wpc'[t] \in Idling /\ thr_flag'[t] = 0,
             \A t \in Threads : Unused(t)' => Unused(t)
      PROVE  FreeThreads'
  BY <1>2, <1>3 DEF FreeThreads
<1>4. CASE RecvStartOne \/ SendOne
  <2>1. fault' = "none"
    BY OrderlyStep DEF OrderlyInv
  <2>2. /\ thr_flag' = [thr_flag EXCEPT ![usedThread] = Current] /\ UNCHANGED <<wpc, usedThread>>
        /\ Posted' /\ ~Posted
    BY <1>4, <2>1 DEF RecvStartOne, SendOne, Post, Posted, OrderlyInv
  <2> QED BY <2>2, <1>3 DEF Unused
<1>5. CASE Signal
  <2>1. /\ usedThread' = usedThread + 1 /\ Posted /\ ~Posted' /\ thr_flag' = thr_flag
        /\ wpc' = [wpc EXCEPT ![usedThread] = IF @ = "waiting" THEN "start" ELSE @]
    BY <1>5 DEF Signal, Posted, NextThread
  <2>2. \A t \in Threads : Unused(t)' => Unused(t) /\ wpc'[t] = wpc[t]
    BY <2>1, ConstantsAssumption DEF Unused, Threads, TypeInv, TypeOK, FlagTypeOK, ThreadTypeOK
  <2> QED BY <2>1, <2>2, <1>3
<1>6. CASE Alarm
  <2>1. alarm /\ MainRests
    BY <1>6 DEF Alarm, SecondPasses, OrderlyTests
  <2>2. \A s \in Slots : gStreams[s].id \notin fresh
    BY <2>1 DEF AllSent, Underway, Known
  <2>3. Awaits = {}
    BY <2>1, <2>2 DEF Awaits, Left, MainRests, Starting
  <2> QED BY <2>3, <1>2 DEF FreeThreads
<1>7. CASE \/ RecvStartReject \/ RecvStartEnd \/ SendReject \/ SendEnd \/ RecvStopReject
           \/ Select \/ Wake \/ RecvStopWaited \/ RecvStopOne \/ RecvStopEnd
           \/ \E ids \in Batches : RecvStart(ids) \/ Send(ids) \/ RecvStop(ids)
  <2>1. UNCHANGED <<wpc, usedThread, thr_flag>> /\ ~Posted
    BY <1>7 DEF RecvStartReject, RecvStartEnd, SendReject, SendEnd, RecvStopReject, Select, Wake,
                RecvStopWaited, RecvStopOne, RecvStopEnd, RecvStart, Send, RecvStop, Begin, MayAsk, Posted
  <2> QED BY <2>1, <1>3 DEF Unused
<1>8. CASE SendPing \/ (\E id \in Ids : StopPing(id)) \/ UNCHANGED vars
  <2>1. UNCHANGED <<wpc, usedThread, thr_flag, mpc>>
    BY <1>8 DEF SendPing, StopPing, OrderlyTests, Does, vars
  <2> QED BY <2>1, <1>3 DEF Unused, Posted
<1>9. ASSUME NEW t \in Threads, Worker(t) \/ SendBroken(t) \/ BurstOverrun(t) PROVE FreeThreads'
  <2>1. UNCHANGED <<usedThread, mpc>> /\ \A u \in Threads : thr_flag'[u] \in {0, thr_flag[u]}
    <3>1. CASE Take(t) \/ Find(t)
      BY <3>1 DEF Take, Find, TypeInv, TypeOK, FlagTypeOK
    <3>2. CASE ~Take(t) /\ ~Find(t)
      BY <1>9, <3>2, ThreadStep DEF Worker, ThreadKeeps, TypeInv, TypeOK, FlagTypeOK
    <3> QED BY <3>1, <3>2
  <2>2. \A u \in Threads : wpc[u] \in Idling /\ thr_flag[u] = 0 => wpc'[u] \in Idling
    <3> USE DEF Idling, Move, Again, Sending, TypeInv, TypeOK, ThreadTypeOK
    <3>1. CASE Test(t) \/ CondWait(t) \/ Take(t) \/ Find(t) \/ SendInit(t)
      BY <3>1 DEF Test, CondWait, Take, Find, SendInit
    <3>2. CASE Launch(t) \/ LongStop(t) \/ PacedStop(t) \/ TransacStop(t) \/ CloseSend(t)
      BY <3>2 DEF Launch, LongStop, PacedStop, TransacStop, CloseSend
    <3>3. CASE Report(t) \/ ClearSender(t)
      BY <3>3 DEF Report, ClearSender
    <3>4. CASE RecvInit(t) \/ RecvExit(t) \/ TransacExit(t) \/ SendBroken(t) \/ BurstOverrun(t)
      BY <3>4 DEF RecvInit, RecvExit, TransacExit, SendBroken, BurstOverrun
    <3> QED BY <1>9, <3>1, <3>2, <3>3, <3>4 DEF Worker
  <2> QED BY <2>1, <2>2, <1>3 DEF Unused, Posted
<1> QED BY <1>4, <1>5, <1>6, <1>7, <1>8, <1>9 DEF Next, TestManager, Main

\* No start is posted to a thread that has taken one.
LEMMA BusyFlagStep ==
  ASSUME OrderlyTests, TypeInv, OrderlyInv, FreeThreads, BusyFlag, [Next]_vars
  PROVE  BusyFlag'
<1> USE DEF BusyFlag, Taking
<1>1. CASE Reset \/ Alarm \/ \E p \in Profiles : Config(p)
  <2>1. \A t \in Threads : thr_flag'[t] = 0
    BY <1>1, NewTests DEF Reset, Alarm, Config, MayConfigure
  <2> QED BY <2>1
<1>2. ASSUME \A t \in Threads : thr_flag'[t] \in {0, thr_flag[t]},
             \A t \in Threads : wpc'[t] \notin Idling \cup Taking =>
               thr_flag'[t] = 0 \/ wpc[t] \notin Idling \cup Taking
      PROVE  BusyFlag'
  BY <1>2
<1>3. CASE RecvStartOne \/ SendOne
  <2>1. wpc' = wpc /\ (thr_flag' = thr_flag \/ (usedThread \in Threads /\ thr_flag' = [thr_flag EXCEPT ![usedThread] = Current]))
    BY <1>3, ConstantsAssumption DEF RecvStartOne, SendOne, Post, Threads, TypeInv, TypeOK, FlagTypeOK
  <2>2. usedThread \in Threads => wpc[usedThread] \in Idling
    BY <1>3, PostsToFree
  <2> QED BY <2>1, <2>2 DEF TypeInv, TypeOK, FlagTypeOK
<1>4. CASE Signal
  <2>1. thr_flag' = thr_flag /\ wpc' = [wpc EXCEPT ![usedThread] = IF @ = "waiting" THEN "start" ELSE @]
    BY <1>4 DEF Signal
  <2> QED BY <2>1 DEF Idling, TypeInv, TypeOK, ThreadTypeOK
<1>5. CASE \/ RecvStartReject \/ RecvStartEnd \/ SendReject \/ SendEnd \/ RecvStopReject
           \/ Select \/ Wake \/ RecvStopWaited \/ RecvStopOne \/ RecvStopEnd
           \/ \E ids \in Batches : RecvStart(ids) \/ Send(ids) \/ RecvStop(ids)
  <2>1. UNCHANGED <<wpc, thr_flag>>
    BY <1>5 DEF RecvStartReject, RecvStartEnd, SendReject, SendEnd, RecvStopReject, Select, Wake,
                RecvStopWaited, RecvStopOne, RecvStopEnd, RecvStart, Send, RecvStop, Begin
  <2> QED BY <2>1
<1>6. CASE SendPing \/ (\E id \in Ids : StopPing(id)) \/ UNCHANGED vars
  <2>1. UNCHANGED <<wpc, thr_flag>>
    BY <1>6 DEF SendPing, StopPing, vars
  <2> QED BY <2>1
<1>10. ASSUME NEW t \in Threads, Take(t) PROVE BusyFlag'
  <2>1. thr_flag' = thr_flag /\ \A u \in Threads : wpc'[u] # wpc[u] => wpc'[u] = "taken"
    BY <1>10 DEF Take, Move, TypeInv, TypeOK, ThreadTypeOK
  <2> QED BY <2>1
<1>7. ASSUME NEW t \in Threads, Find(t) PROVE BusyFlag'
  <2>1. thr_flag' = [thr_flag EXCEPT ![t] = 0] /\ \A u \in Threads \ {t} : wpc'[u] = wpc[u]
    BY <1>7 DEF Find, Move, Again, TypeInv, TypeOK, ThreadTypeOK
  <2> QED BY <2>1 DEF TypeInv, TypeOK, FlagTypeOK
<1>8. ASSUME NEW t \in Threads, Test(t) \/ CondWait(t) PROVE BusyFlag'
  <2>1. /\ thr_flag' = thr_flag
        /\ \E st \in Idling \cup Taking : wpc' = [wpc EXCEPT ![t] = st]
    BY <1>8 DEF Test, CondWait, Move, Idling
  <2> QED BY <2>1 DEF TypeInv, TypeOK, ThreadTypeOK
<1>9. ASSUME NEW t \in Threads,
             \/ SendInit(t) \/ Launch(t) \/ LongStop(t) \/ PacedStop(t)
             \/ TransacStop(t) \/ CloseSend(t) \/ Report(t) \/ ClearSender(t) \/ RecvInit(t) \/ RecvExit(t)
             \/ TransacExit(t) \/ SendBroken(t) \/ BurstOverrun(t)
      PROVE  BusyFlag'
  <2>1. ThreadKeeps(t)
    BY <1>9, ThreadStep
  <2>2. wpc[t] \notin Idling \cup Taking
    <3> USE DEF Idling, Move, Again, Sending
    <3>1. CASE SendInit(t) \/ Launch(t) \/ LongStop(t) \/ PacedStop(t) \/ TransacStop(t) \/ CloseSend(t)
      BY <3>1 DEF SendInit, Launch, LongStop, PacedStop, TransacStop, CloseSend
    <3>2. CASE Report(t) \/ ClearSender(t)
      BY <3>2 DEF Report, ClearSender
    <3>3. CASE RecvInit(t) \/ RecvExit(t) \/ TransacExit(t) \/ SendBroken(t) \/ BurstOverrun(t)
      BY <3>3 DEF RecvInit, RecvExit, TransacExit, SendBroken, BurstOverrun
    <3> QED BY <1>9, <3>1, <3>2, <3>3
  <2>3. \A u \in Threads : thr_flag'[u] \in {0, thr_flag[u]} /\ (u # t => wpc'[u] = wpc[u])
    BY <2>1 DEF ThreadKeeps, TypeInv, TypeOK, FlagTypeOK
  <2> QED BY <2>2, <2>3, <1>2
<1> QED BY <1>1, <1>3, <1>4, <1>5, <1>6, <1>7, <1>8, <1>9, <1>10
     DEF Next, TestManager, Main, Worker

\* DeliveryInv holds of every run of tests in which deliveries are relied on.
LEMMA DeliveryInvariant ==
  ASSUME DeliveryTests PROVE Spec => []DeliveryInv
<1>1. Init => DeliveryInv
  <2> SUFFICES ASSUME Init PROVE DeliveryInv
    OBVIOUS
  <2>1. RowProfiled /\ SendsRow /\ StartsInTest /\ AlarmSends
    BY DEF Init, RowProfiled, SendsRow, StartsInTest, AlarmSends, Cleared
  <2>2. AllSent
    BY DEF Init, AllSent
  <2>3. FreeThreads /\ BusyFlag
    BY DEF Init, FreeThreads, BusyFlag, Idling
  <2> QED BY <2>1, <2>2, <2>3 DEF DeliveryInv
<1>2. TypeInv /\ TableIndexed /\ OrderlyInv /\ OnceInv /\ DeliveryInv /\ [Next]_vars => DeliveryInv'
  <2> SUFFICES ASSUME TypeInv, TableIndexed, OrderlyInv, OnceInv, DeliveryInv, [Next]_vars PROVE DeliveryInv'
    OBVIOUS
  <2>1. OrderlyTests /\ RowProfiled /\ SendsRow /\ StartsInTest /\ AlarmSends /\ AllSent /\ FreeThreads /\ BusyFlag
    BY DEF DeliveryTests, DeliveryInv
  <2>2. RowProfiled' /\ SendsRow' /\ StartsInTest'
    BY <2>1, RowProfiledStep, SendsRowStep, StartsInTestStep
  <2>3. AlarmSends'
    BY <2>1, AlarmSendsStep
  <2>4. AllSent'
    BY <2>1, AllSentStep
  <2>5. FreeThreads'
    BY <2>1, FreeThreadsStep
  <2>6. BusyFlag'
    BY <2>1, BusyFlagStep
  <2> QED BY <2>2, <2>3, <2>4, <2>5, <2>6 DEF DeliveryInv
<1>3. OrderlyTests
  BY DEF DeliveryTests
<1>4. Spec => []OrderlyInv /\ []OnceInv
  BY <1>3, OrderlyInvariant, OnceInvariant
<1> QED BY <1>1, <1>2, <1>4, TypeInvariant, TableStaysIndexed, PTL DEF Spec

\* The start posted to a thread stays until that thread has taken it, when the receivers
\* of a test run before one Send names all its senders, the timed ones of wfaSendLongFile
\* and no transactions (wfa_tg.c:440, 719;
\* wfa_thr.c:146-149, 637-638, 1071).
THEOREM StartsReachThreads ==
  ASSUME DeliveryTests PROVE Spec => StartsDelivered
<1> DEFINE Kept(t) == thr_flag[t] # 0 =>
      \/ thr_flag'[t] = thr_flag[t]
      \/ wpc[t] = "taken" /\ wid'[t] = thr_flag[t]
<1>1. ASSUME TypeInv, TableIndexed, OrderlyInv, DeliveryInv, NoLostWakeup, [Next]_vars, NEW u \in Threads
      PROVE  Kept(u)
  <2> USE DEF TypeInv, TypeOK, FlagTypeOK
  <2>1. CASE Reset \/ \E p \in Profiles : Config(p)
    BY <1>1, <2>1, NewTests DEF Reset, Config, MayConfigure, DeliveryTests
  <2>2. CASE Alarm
    <3>1. wpc[u] \notin {"start", "toWait"} \cup Taking /\ ~Posted
      BY <1>1, <2>2 DEF Alarm, SecondPasses, MainRests, Soon, AtOnce, Taking, Posted, DeliveryTests, OrderlyTests
    <3>2. thr_flag[u] # 0 => wpc[u] # "waiting"
      BY <1>1, <3>1 DEF NoLostWakeup, Posted, OrderlyInv
    <3> QED BY <1>1, <3>1, <3>2 DEF DeliveryInv, BusyFlag, Idling
  <2>3. CASE RecvStartOne \/ SendOne
    <3>1. thr_flag' = thr_flag \/ (usedThread \in Threads /\ thr_flag' = [thr_flag EXCEPT ![usedThread] = Current])
      BY <1>1, <2>3, ConstantsAssumption DEF RecvStartOne, SendOne, Post, Threads
    <3>2. usedThread \in Threads => thr_flag[usedThread] = 0
      BY <1>1, <2>3, PostsToFree DEF DeliveryInv
    <3> QED BY <1>1, <3>1, <3>2
  <2>4. CASE \/ RecvStartReject \/ RecvStartEnd \/ SendReject \/ SendEnd \/ RecvStopReject \/ Signal
             \/ Select \/ Wake \/ RecvStopWaited \/ RecvStopOne \/ RecvStopEnd
             \/ \E ids \in Batches : RecvStart(ids) \/ Send(ids) \/ RecvStop(ids)
    BY <1>1, <2>4 DEF RecvStartReject, RecvStartEnd, SendReject, SendEnd, RecvStopReject, Signal, Select, Wake,
                RecvStopWaited, RecvStopOne, RecvStopEnd, RecvStart, Send, RecvStop, Begin
  <2>5. CASE SendPing \/ (\E id \in Ids : StopPing(id)) \/ UNCHANGED vars
    BY <1>1, <2>5 DEF SendPing, StopPing, vars
  <2>8. CASE \E t \in Threads : Take(t)
    BY <2>8 DEF Take
  <2>6. ASSUME NEW t \in Threads, Find(t) PROVE Kept(u)
    <3> DEFINE s == FindSlot(wid[t])
    <3>1. thr_flag[t] # 0 /\ Known(thr_flag[t]) /\ wpc[t] = "taken" /\ wid[t] = thr_flag[t]
      BY <1>1, <2>6 DEF Find, Move, Again, OrderlyInv, TakesStart, Taking, FlagKnown
    <3>2. s \in Slots /\ s # NoSlot /\ gStreams[s].id = thr_flag[t]
      BY <1>1, <3>1, KnownFound, RangeFacts
    <3>3. gStreams[s].prof.dir # "NONE"
      BY <1>1, <3>1, <3>2, ConstantsAssumption DEF DeliveryInv, RowProfiled
    <3>4. wid' = wid /\ thr_flag' = [thr_flag EXCEPT ![t] = 0]
      BY <1>1, <2>6, <3>2, <3>3 DEF Find
    <3> QED BY <1>1, <3>1, <3>4 DEF ThreadTypeOK
  <2>7. ASSUME NEW t \in Threads,
               \/ Test(t) \/ CondWait(t) \/ SendInit(t) \/ Launch(t) \/ LongStop(t) \/ PacedStop(t)
               \/ TransacStop(t) \/ CloseSend(t) \/ Report(t) \/ ClearSender(t) \/ RecvInit(t) \/ RecvExit(t)
               \/ TransacExit(t) \/ SendBroken(t) \/ BurstOverrun(t)
        PROVE  Kept(u)
    <3>1. ThreadKeeps(t)
      BY <1>1, <2>7, ThreadStep
    <3>2. wpc[t] \in {"recvInit", "recving", "rtransac"} => thr_flag[t] = 0
      BY <1>1 DEF DeliveryInv, BusyFlag, Idling, Taking
    <3> QED BY <1>1, <3>1, <3>2 DEF ThreadKeeps
  <2> QED BY <1>1, <2>1, <2>2, <2>3, <2>4, <2>5, <2>6, <2>7, <2>8 DEF Next, TestManager, Main, Worker
<1>2. TypeInv /\ TableIndexed /\ OrderlyInv /\ DeliveryInv /\ NoLostWakeup /\ [Next]_vars =>
        [\A t \in Threads : Kept(t)]_vars
  BY <1>1
<1>3. Spec => []OrderlyInv
  BY OrderlyInvariant DEF DeliveryTests
<1> QED BY <1>2, <1>3, DeliveryInvariant, TypeInvariant, TableStaysIndexed, WakeupNeverLost, PTL
     DEF Spec, StartsDelivered
=============================================================================
