------------------------- MODULE TrafficAgentProofs -------------------------
(***************************************************************************)
(* Proofs about TrafficAgent for every value of its constants: the types,  *)
(* the hand-over of a stream to its thread without a lost wakeup, the      *)
(* thread recorded as the one to report, and the table of streams.         *)
(***************************************************************************)
EXTENDS TrafficAgent, TLAPS

\* What the types rest on: a start being posted has a thread to go to, and a
\* thread past the lookup of its stream holds a row of the table.
SenderStates == {"delay", "rest", "transac", "flush", "report", "clear"} \cup Sending
HasRow       == {"init", "recvInit", "recving", "rtransac"} \cup SenderStates
PostInRange  == mpc \in {"recvStartSignal", "sendSignal"} => usedThread \in Threads
RowHeld      == \A t \in Threads : wpc[t] \in HasRow => wslot[t] \in Slots
TypeInv      == TypeOK /\ PostInRange /\ RowHeld

USE DEF tableVars, flagVars, threadVars, mainVars, scriptVars

\* A lookup by id returns a row of the table with that id, or NULL.
LEMMA FindSlotType ==
  ASSUME NEW id
  PROVE  /\ FindSlot(id) \in Slots \cup {NoSlot}
         /\ FindSlot(id) # NoSlot => FindSlot(id) \in Slots /\ gStreams[FindSlot(id)].id = id
<1>1. CASE \E s \in Slots : FirstWith(id, s)
  <2>1. FindSlot(id) \in Slots /\ FirstWith(id, FindSlot(id))
    BY <1>1, Zenon DEF FindSlot
  <2> QED BY <2>1 DEF FirstWith
<1>2. CASE ~ \E s \in Slots : FirstWith(id, s)
  BY <1>2 DEF FindSlot
<1> QED BY <1>1, <1>2

\* The row index range excludes NULL and holds row 0; thread 0 exists.
LEMMA RangeFacts ==
  /\ NoSlot \notin Slots /\ 0 \in Slots /\ 0 \in Threads
  /\ 0 \in 0 .. MaxId /\ 0 \in 0 .. NumThreads /\ 0 \in 0 .. MaxStreams
  /\ Ids \subseteq 0 .. MaxId /\ Threads \subseteq 0 .. NumThreads
  /\ \A t \in Threads : t + 1 \in 0 .. NumThreads
BY ConstantsAssumption DEF NoSlot, Slots, Threads, Ids

\* The ids of a command are a sequence of stream ids.
LEMMA BatchType == \A ids \in Batches : ids \in Seq(Ids)
<1> SUFFICES ASSUME NEW ids \in Batches PROVE ids \in Seq(Ids)
  OBVIOUS
<1>1. PICK n \in 1 .. MaxBatch : ids \in [1 .. n -> Ids]
  BY DEF Batches
<1> QED BY <1>1, ConstantsAssumption

\* The process starts in a typed state.
LEMMA InitType == Init => TypeInv
<1> SUFFICES ASSUME Init PROVE TypeInv
  OBVIOUS
<1> USE DEF Init
<1>1. TableTypeOK
  BY RangeFacts DEF TableTypeOK, Row, Cleared, NoProfile, Profile, Loops
<1>2. FlagTypeOK
  BY RangeFacts DEF FlagTypeOK
<1>3. SocketTypeOK
  BY DEF SocketTypeOK
<1>4. ThreadTypeOK
  BY RangeFacts DEF ThreadTypeOK, WorkerStates
<1>5. MainTypeOK /\ ScriptTypeOK
  BY DEF MainTypeOK, ScriptTypeOK, MainStates, Commands
<1>6. PostInRange /\ RowHeld
  BY DEF PostInRange, RowHeld, HasRow, SenderStates, Sending
<1> QED BY <1>1, <1>2, <1>3, <1>4, <1>5, <1>6 DEF TypeInv, TypeOK
\* The rows the handlers write are rows of the table.
LEMMA RowFacts ==
  /\ Cleared \in Row
  /\ \A s \in Slots, id \in 0 .. MaxId, p \in Profiles : NewRow(s, id, p) \in Row
  /\ \A r \in Row : /\ [r EXCEPT !.active = TRUE] \in Row
                    /\ [r EXCEPT !.active = FALSE] \in Row
                    /\ ClearedBytes(r) \in Row
<1>1. Cleared \in Row
  BY RangeFacts DEF Cleared, NoProfile, Row, Profile, Loops
<1>2. ASSUME NEW s \in Slots, NEW id \in 0 .. MaxId, NEW p \in Profiles PROVE NewRow(s, id, p) \in Row
  BY ConstantsAssumption DEF NewRow, Row
<1>3. ASSUME NEW r \in Row PROVE /\ [r EXCEPT !.active = TRUE] \in Row
                                 /\ [r EXCEPT !.active = FALSE] \in Row
  BY DEF Row
<1>4. ASSUME NEW r \in Row PROVE ClearedBytes(r) \in Row
  <2>1. [r.prof EXCEPT !.kind = "NONE"] \in Profile
    BY DEF Row, Profile
  <2> QED BY <2>1, RangeFacts DEF ClearedBytes, Row
<1> QED BY <1>1, <1>2, <1>3, <1>4

\* A stream id handed out, or named in a command, is one of Ids.
LEMMA IdFacts ==
  /\ TableTypeOK /\ streamId < MaxId => NextId \in Ids /\ NextId \in 0 .. MaxId
  /\ MainTypeOK /\ More => Current \in Ids /\ Current \in 0 .. MaxId
  /\ \A ids \in Batches : Named(ids) \subseteq Ids
<1>1. TableTypeOK /\ streamId < MaxId => NextId \in Ids /\ NextId \in 0 .. MaxId
  BY ConstantsAssumption DEF TableTypeOK, NextId, Ids
<1>2. MainTypeOK /\ More => Current \in Ids /\ Current \in 0 .. MaxId
  BY ConstantsAssumption DEF MainTypeOK, More, Current, Ids
<1>3. \A ids \in Batches : Named(ids) \subseteq Ids
  BY DEF Batches, Named
<1> QED BY <1>1, <1>2, <1>3

\* A thread about to send holds a row with a send loop.
LEMMA LoopType ==
  ASSUME TypeInv, NEW t \in Threads, wpc[t] = "delay" PROVE MyProf(t).loop \in Loops
BY DEF MyProf, TypeInv, TypeOK, TableTypeOK, RowHeld, HasRow, SenderStates, Row, Profile

\* Every action keeps every variable in its range.
LEMMA TypeStep == TypeInv /\ [Next]_vars => TypeInv'
<1> SUFFICES ASSUME TypeInv, [Next]_vars PROVE TypeInv'
  OBVIOUS
<1> USE DEF TypeInv, TypeOK
<1>1. ASSUME NEW p \in Profiles, Config(p) PROVE TypeInv'
  <2>1. FlagTypeOK' /\ SocketTypeOK' /\ ThreadTypeOK'
    BY <1>1 DEF Config, BackToSelect, FlagTypeOK, SocketTypeOK, ThreadTypeOK
  <2>2. TableTypeOK'
    <3> DEFINE rows == IF slotCnt \in {0, MaxStreams} THEN [s \in Slots |-> Cleared] ELSE gStreams
               row  == IF slotCnt = MaxStreams THEN 0 ELSE slotCnt
    <3>1. row \in Slots /\ row + 1 \in 0 .. MaxStreams
      BY ConstantsAssumption DEF Slots, TableTypeOK
    <3>2. rows \in [Slots -> Row]
      BY RowFacts DEF TableTypeOK
    <3>3. gStreams' = [rows EXCEPT ![row] = NewRow(row, NextId, p)] /\ slotCnt' = row + 1 /\ streamId' = NextId
      BY <1>1 DEF Config
    <3>4. NextId \in 0 .. MaxId /\ NewRow(row, NextId, p) \in Row
      BY <1>1, <3>1, RowFacts, IdFacts DEF Config
    <3> HIDE DEF rows, row
    <3> QED BY <3>1, <3>2, <3>3, <3>4 DEF TableTypeOK
  <2>3. ScriptTypeOK'
    BY <1>1, IdFacts DEF Config, Note, TableTypeOK, ScriptTypeOK
  <2>4. MainTypeOK'
    BY <1>1 DEF Config, BackToSelect, MainStates, MainTypeOK
  <2>5. PostInRange'
    BY <1>1, RangeFacts DEF Config, BackToSelect, FlagTypeOK, PostInRange
  <2>6. RowHeld'
    BY <1>1 DEF Config, BackToSelect, HasRow, SenderStates, Sending, ThreadTypeOK, RowHeld
  <2> QED BY <2>1, <2>2, <2>3, <2>4, <2>5, <2>6
<1>2. CASE SendPing
  <2>1. FlagTypeOK' /\ SocketTypeOK' /\ ThreadTypeOK' /\ ScriptTypeOK' /\ RowHeld'
    BY <1>2 DEF SendPing, BackToSelect, FlagTypeOK, SocketTypeOK, ThreadTypeOK, ScriptTypeOK,
          RowHeld
  <2>2. TableTypeOK'
    BY <1>2, IdFacts DEF SendPing, TableTypeOK
  <2>3. MainTypeOK'
    BY <1>2 DEF SendPing, BackToSelect, MainStates, MainTypeOK
  <2>4. PostInRange'
    BY <1>2, RangeFacts DEF SendPing, BackToSelect, FlagTypeOK, PostInRange
  <2> QED BY <2>1, <2>2, <2>3, <2>4
<1>3. ASSUME NEW id \in Ids, StopPing(id) PROVE TypeInv'
  <2>1. TableTypeOK' /\ SocketTypeOK' /\ ThreadTypeOK' /\ ScriptTypeOK' /\ RowHeld'
    BY <1>3 DEF StopPing, BackToSelect, TableTypeOK, SocketTypeOK, ThreadTypeOK, ScriptTypeOK,
          RowHeld
  <2>2. FlagTypeOK'
    BY <1>3, RangeFacts DEF StopPing, BackToSelect, FlagTypeOK
  <2>3. MainTypeOK'
    BY <1>3 DEF StopPing, BackToSelect, MainStates, MainTypeOK
  <2>4. PostInRange'
    BY <1>3, RangeFacts DEF StopPing, BackToSelect, FlagTypeOK, PostInRange
  <2> QED BY <2>1, <2>2, <2>3, <2>4
<1>4. CASE Reset
  <2>1. ThreadTypeOK' /\ RowHeld'
    BY <1>4 DEF Reset, BackToSelect, ThreadTypeOK, RowHeld
  <2>2. TableTypeOK'
    BY <1>4, RowFacts, RangeFacts DEF Reset, TableTypeOK
  <2>3. FlagTypeOK'
    BY <1>4, RangeFacts DEF Reset, BackToSelect, FlagTypeOK
  <2>4. SocketTypeOK'
    BY <1>4, RangeFacts DEF Reset, BackToSelect, SocketTypeOK
  <2>5. ScriptTypeOK'
    BY <1>4 DEF Reset, BackToSelect, Commands, Note, Answered, ScriptTypeOK
  <2>6. MainTypeOK'
    BY <1>4 DEF Reset, BackToSelect, MainStates, MainTypeOK
  <2>7. PostInRange'
    BY <1>4, RangeFacts DEF Reset, BackToSelect, FlagTypeOK, PostInRange
  <2> QED BY <2>1, <2>2, <2>3, <2>4, <2>5, <2>6, <2>7
<1>5. ASSUME NEW ids \in Batches, RecvStart(ids) PROVE TypeInv'
  <2>1. TableTypeOK' /\ FlagTypeOK' /\ SocketTypeOK' /\ ThreadTypeOK' /\ RowHeld'
    BY <1>5 DEF RecvStart, Begin, TableTypeOK, FlagTypeOK, SocketTypeOK, ThreadTypeOK, RowHeld
  <2>2. MainTypeOK'
    BY <1>5, BatchType DEF RecvStart, Begin, MainStates, MainTypeOK
  <2>3. ScriptTypeOK'
    BY <1>5, IdFacts DEF RecvStart, Begin, Commands, Note, ScriptTypeOK
  <2>4. PostInRange'
    BY <1>5, RangeFacts DEF RecvStart, Begin, FlagTypeOK, PostInRange
  <2> QED BY <2>1, <2>2, <2>3, <2>4
<1>6. ASSUME NEW ids \in Batches, Send(ids) PROVE TypeInv'
  <2>1. TableTypeOK' /\ FlagTypeOK' /\ SocketTypeOK' /\ ThreadTypeOK' /\ RowHeld'
    BY <1>6 DEF Send, Begin, TableTypeOK, FlagTypeOK, SocketTypeOK, ThreadTypeOK, RowHeld
  <2>2. MainTypeOK'
    BY <1>6, BatchType DEF Send, Begin, MainStates, MainTypeOK
  <2>3. ScriptTypeOK'
    BY <1>6, IdFacts DEF Send, Begin, Commands, Note, ScriptTypeOK
  <2>4. PostInRange'
    BY <1>6, RangeFacts DEF Send, Begin, FlagTypeOK, PostInRange
  <2> QED BY <2>1, <2>2, <2>3, <2>4
<1>7. ASSUME NEW ids \in Batches, RecvStop(ids) PROVE TypeInv'
  <2>1. TableTypeOK' /\ FlagTypeOK' /\ SocketTypeOK' /\ ThreadTypeOK' /\ RowHeld'
    BY <1>7 DEF RecvStop, Begin, TableTypeOK, FlagTypeOK, SocketTypeOK, ThreadTypeOK, RowHeld
  <2>2. MainTypeOK'
    BY <1>7, BatchType DEF RecvStop, Begin, MainStates, MainTypeOK
  <2>3. ScriptTypeOK'
    BY <1>7 DEF RecvStop, Begin, Commands, Note, Answered, ScriptTypeOK
  <2>4. PostInRange'
    BY <1>7, RangeFacts DEF RecvStop, Begin, FlagTypeOK, PostInRange
  <2> QED BY <2>1, <2>2, <2>3, <2>4
<1>8. CASE Select
  <2>1. TableTypeOK' /\ FlagTypeOK' /\ SocketTypeOK' /\ ThreadTypeOK' /\ ScriptTypeOK' /\
           RowHeld'
    BY <1>8 DEF Select, TableTypeOK, FlagTypeOK, SocketTypeOK, ThreadTypeOK, ScriptTypeOK,
          RowHeld
  <2>2. MainTypeOK'
    BY <1>8 DEF Select, MainStates, MainTypeOK
  <2>3. PostInRange'
    BY <1>8, RangeFacts DEF Select, FlagTypeOK, PostInRange
  <2> QED BY <2>1, <2>2, <2>3
<1>9. CASE Wake
  <2>1. TableTypeOK' /\ FlagTypeOK' /\ SocketTypeOK' /\ ThreadTypeOK' /\ ScriptTypeOK' /\
           RowHeld'
    BY <1>9 DEF Wake, BackToSelect, TableTypeOK, FlagTypeOK, SocketTypeOK, ThreadTypeOK,
          ScriptTypeOK, RowHeld
  <2>2. MainTypeOK'
    BY <1>9 DEF Wake, BackToSelect, MainStates, MainTypeOK
  <2>3. PostInRange'
    BY <1>9, RangeFacts DEF Wake, BackToSelect, FlagTypeOK, PostInRange
  <2> QED BY <2>1, <2>2, <2>3
<1>10. CASE Signal
  <2>1. TableTypeOK' /\ SocketTypeOK' /\ ScriptTypeOK'
    BY <1>10 DEF Signal, TableTypeOK, SocketTypeOK, ScriptTypeOK
  <2>2. FlagTypeOK'
    BY <1>10, RangeFacts DEF Signal, NextThread, FlagTypeOK, PostInRange
  <2>3. ThreadTypeOK'
    BY <1>10, RangeFacts DEF Signal, WorkerStates, ThreadTypeOK
  <2>4. MainTypeOK'
    BY <1>10 DEF Signal, MainStates, MainTypeOK
  <2>5. PostInRange'
    BY <1>10, RangeFacts DEF Signal, FlagTypeOK, PostInRange
  <2>6. RowHeld'
    BY <1>10 DEF Signal, HasRow, SenderStates, Sending, ThreadTypeOK, RowHeld
  <2> QED BY <2>1, <2>2, <2>3, <2>4, <2>5, <2>6
<1>11. CASE RecvStartReject
  <2>1. TableTypeOK' /\ FlagTypeOK' /\ SocketTypeOK' /\ ThreadTypeOK' /\ ScriptTypeOK' /\
           RowHeld'
    BY <1>11 DEF RecvStartReject, Leave, TableTypeOK, FlagTypeOK, SocketTypeOK, ThreadTypeOK,
          ScriptTypeOK, RowHeld
  <2>2. MainTypeOK'
    BY <1>11 DEF RecvStartReject, Leave, MainStates, MainTypeOK
  <2>3. PostInRange'
    BY <1>11, RangeFacts DEF RecvStartReject, Leave, FlagTypeOK, PostInRange
  <2> QED BY <2>1, <2>2, <2>3
<1>12. CASE RecvStartOne
  <2>1. SocketTypeOK' /\ ThreadTypeOK' /\ ScriptTypeOK' /\ RowHeld'
    BY <1>12 DEF RecvStartOne, SocketTypeOK, ThreadTypeOK, ScriptTypeOK, RowHeld
  <2>2. TableTypeOK'
    BY <1>12, FindSlotType, RowFacts DEF RecvStartOne, Names, Activate, TableTypeOK
  <2>3. FlagTypeOK'
    BY <1>12, IdFacts DEF RecvStartOne, Post, Threads, MainTypeOK, FlagTypeOK
  <2>4. MainTypeOK'
    BY <1>12 DEF RecvStartOne, Post, mainVars, MainStates, MainTypeOK
  <2>5. PostInRange'
    BY <1>12, ConstantsAssumption DEF RecvStartOne, Post, mainVars, Threads, FlagTypeOK,
          PostInRange
  <2> QED BY <2>1, <2>2, <2>3, <2>4, <2>5
<1>13. CASE RecvStartEnd
  <2>1. TableTypeOK' /\ FlagTypeOK' /\ SocketTypeOK' /\ ThreadTypeOK' /\ RowHeld'
    BY <1>13 DEF RecvStartEnd, Leave, TableTypeOK, FlagTypeOK, SocketTypeOK, ThreadTypeOK,
          RowHeld
  <2>2. MainTypeOK'
    BY <1>13 DEF RecvStartEnd, Leave, MainStates, MainTypeOK
  <2>3. PostInRange'
    BY <1>13, RangeFacts DEF RecvStartEnd, Leave, FlagTypeOK, PostInRange
  <2>4. ScriptTypeOK'
    BY <1>13 DEF RecvStartEnd, Leave, Commands, Note, Answered, ScriptTypeOK
  <2> QED BY <2>1, <2>2, <2>3, <2>4
<1>14. CASE SendReject
  <2>1. TableTypeOK' /\ FlagTypeOK' /\ SocketTypeOK' /\ ThreadTypeOK' /\ RowHeld'
    BY <1>14 DEF SendReject, Leave, TableTypeOK, FlagTypeOK, SocketTypeOK, ThreadTypeOK, RowHeld
  <2>2. MainTypeOK'
    BY <1>14 DEF SendReject, Leave, MainStates, MainTypeOK
  <2>3. ScriptTypeOK'
    BY <1>14 DEF SendReject, Leave, Commands, Note, Answered, ScriptTypeOK
  <2>4. PostInRange'
    BY <1>14, RangeFacts DEF SendReject, Leave, FlagTypeOK, PostInRange
  <2> QED BY <2>1, <2>2, <2>3, <2>4
<1>15. CASE SendOne
  <2>1. SocketTypeOK' /\ ThreadTypeOK' /\ ScriptTypeOK' /\ RowHeld'
    BY <1>15 DEF SendOne, SocketTypeOK, ThreadTypeOK, ScriptTypeOK, RowHeld
  <2>2. TableTypeOK'
    BY <1>15, FindSlotType, RowFacts DEF SendOne, Names, Activate, TableTypeOK
  <2>3. FlagTypeOK'
    BY <1>15, IdFacts DEF SendOne, Post, Threads, MainTypeOK, FlagTypeOK
  <2>4. MainTypeOK'
    BY <1>15 DEF SendOne, Post, mainVars, MainStates, MainTypeOK
  <2>5. PostInRange'
    BY <1>15, ConstantsAssumption DEF SendOne, Post, mainVars, Threads, FlagTypeOK, PostInRange
  <2> QED BY <2>1, <2>2, <2>3, <2>4, <2>5
<1>16. CASE SendEnd
  <2>1. TableTypeOK' /\ FlagTypeOK' /\ SocketTypeOK' /\ ThreadTypeOK' /\ ScriptTypeOK' /\
           RowHeld'
    BY <1>16 DEF SendEnd, Leave, TableTypeOK, FlagTypeOK, SocketTypeOK, ThreadTypeOK,
          ScriptTypeOK, RowHeld
  <2>2. MainTypeOK'
    BY <1>16 DEF SendEnd, Leave, MainStates, MainTypeOK
  <2>3. PostInRange'
    BY <1>16, RangeFacts DEF SendEnd, Leave, FlagTypeOK, PostInRange
  <2> QED BY <2>1, <2>2, <2>3
<1>17. CASE RecvStopWaited
  <2>1. TableTypeOK' /\ FlagTypeOK' /\ SocketTypeOK' /\ ThreadTypeOK' /\ ScriptTypeOK' /\
           RowHeld'
    BY <1>17 DEF RecvStopWaited, TableTypeOK, FlagTypeOK, SocketTypeOK, ThreadTypeOK,
          ScriptTypeOK, RowHeld
  <2>2. MainTypeOK'
    BY <1>17 DEF RecvStopWaited, MainStates, MainTypeOK
  <2>3. PostInRange'
    BY <1>17, RangeFacts DEF RecvStopWaited, FlagTypeOK, PostInRange
  <2> QED BY <2>1, <2>2, <2>3
<1>18. CASE RecvStopReject
  <2>1. TableTypeOK' /\ FlagTypeOK' /\ SocketTypeOK' /\ ThreadTypeOK' /\ RowHeld'
    BY <1>18 DEF RecvStopReject, Leave, TableTypeOK, FlagTypeOK, SocketTypeOK, ThreadTypeOK,
          RowHeld
  <2>2. MainTypeOK'
    BY <1>18 DEF RecvStopReject, Leave, MainStates, MainTypeOK
  <2>3. ScriptTypeOK'
    BY <1>18 DEF RecvStopReject, Leave, Commands, Note, Answered, ScriptTypeOK
  <2>4. PostInRange'
    BY <1>18, RangeFacts DEF RecvStopReject, Leave, FlagTypeOK, PostInRange
  <2> QED BY <2>1, <2>2, <2>3, <2>4
<1>19. CASE RecvStopOne
  <2>1. TableTypeOK' /\ ThreadTypeOK' /\ ScriptTypeOK' /\ RowHeld'
    BY <1>19 DEF RecvStopOne, Unlist, TableTypeOK, ThreadTypeOK, ScriptTypeOK, RowHeld
  <2>2. FlagTypeOK'
    BY <1>19, RangeFacts DEF RecvStopOne, Unlist, FlagTypeOK
  <2>3. SocketTypeOK'
    BY <1>19, RangeFacts DEF RecvStopOne, Unlist, SocketTypeOK
  <2>4. MainTypeOK'
    BY <1>19 DEF RecvStopOne, Unlist, MainStates, MainTypeOK
  <2>5. PostInRange'
    BY <1>19, RangeFacts DEF RecvStopOne, Unlist, FlagTypeOK, PostInRange
  <2> QED BY <2>1, <2>2, <2>3, <2>4, <2>5
<1>20. CASE RecvStopEnd
  <2>1. FlagTypeOK' /\ SocketTypeOK' /\ ThreadTypeOK' /\ RowHeld'
    BY <1>20 DEF RecvStopEnd, Leave, FlagTypeOK, SocketTypeOK, ThreadTypeOK, RowHeld
  <2>2. TableTypeOK'
    BY <1>20, RangeFacts DEF RecvStopEnd, Leave, TableTypeOK
  <2>3. MainTypeOK'
    <3>1. CASE FindSlot(asked[Len(asked)]) = NoSlot
      BY <1>20, <3>1 DEF RecvStopEnd, MainStates, MainTypeOK
    <3>2. CASE FindSlot(asked[Len(asked)]) # NoSlot
      BY <1>20, <3>2 DEF RecvStopEnd, Leave, MainStates, MainTypeOK
    <3> QED BY <3>1, <3>2
  <2>4. ScriptTypeOK'
    BY <1>20 DEF RecvStopEnd, Leave, Commands, Note, Answered, ScriptTypeOK
  <2>5. PostInRange'
    BY <1>20, RangeFacts DEF RecvStopEnd, Leave, FlagTypeOK, PostInRange
  <2> QED BY <2>1, <2>2, <2>3, <2>4, <2>5
<1>21. CASE Alarm
  <2>1. SocketTypeOK' /\ ThreadTypeOK' /\ MainTypeOK' /\ ScriptTypeOK' /\ RowHeld'
    BY <1>21 DEF Alarm, SocketTypeOK, ThreadTypeOK, MainTypeOK, ScriptTypeOK, RowHeld
  <2>2. TableTypeOK'
    BY <1>21, RangeFacts DEF Alarm, TableTypeOK
  <2>3. FlagTypeOK'
    BY <1>21, RangeFacts DEF Alarm, FlagTypeOK
  <2>4. PostInRange'
    BY <1>21, RangeFacts DEF Alarm, FlagTypeOK, PostInRange
  <2> QED BY <2>1, <2>2, <2>3, <2>4
<1>22. ASSUME NEW t \in Threads, Test(t) PROVE TypeInv'
  <2>1. TableTypeOK' /\ FlagTypeOK' /\ SocketTypeOK' /\ MainTypeOK' /\ ScriptTypeOK' /\
           PostInRange'
    BY <1>22 DEF Test, Move, TableTypeOK, FlagTypeOK, SocketTypeOK, MainTypeOK, ScriptTypeOK,
          PostInRange
  <2>2. ThreadTypeOK'
    BY <1>22, RangeFacts DEF Test, Move, WorkerStates, ThreadTypeOK
  <2>3. RowHeld'
    BY <1>22 DEF Test, Move, HasRow, SenderStates, Sending, ThreadTypeOK, RowHeld
  <2> QED BY <2>1, <2>2, <2>3
<1>23. ASSUME NEW t \in Threads, CondWait(t) PROVE TypeInv'
  <2>1. TableTypeOK' /\ FlagTypeOK' /\ SocketTypeOK' /\ MainTypeOK' /\ ScriptTypeOK' /\
           PostInRange'
    BY <1>23 DEF CondWait, Move, TableTypeOK, FlagTypeOK, SocketTypeOK, MainTypeOK,
          ScriptTypeOK, PostInRange
  <2>2. ThreadTypeOK'
    BY <1>23, RangeFacts DEF CondWait, Move, WorkerStates, ThreadTypeOK
  <2>3. RowHeld'
    BY <1>23 DEF CondWait, Move, HasRow, SenderStates, Sending, ThreadTypeOK, RowHeld
  <2> QED BY <2>1, <2>2, <2>3
<1>24. ASSUME NEW t \in Threads, Take(t) PROVE TypeInv'
  <2>1. /\ TableTypeOK' /\ FlagTypeOK' /\ SocketTypeOK' /\ MainTypeOK' /\ ScriptTypeOK'
        /\ PostInRange'
    BY <1>24 DEF Take, Move, TableTypeOK, FlagTypeOK, SocketTypeOK, MainTypeOK, ScriptTypeOK,
          PostInRange
  <2>2. ThreadTypeOK'
    BY <1>24, RangeFacts DEF Take, Move, WorkerStates, ThreadTypeOK, FlagTypeOK
  <2>3. RowHeld'
    BY <1>24 DEF Take, Move, HasRow, SenderStates, Sending, ThreadTypeOK, RowHeld
  <2> QED BY <2>1, <2>2, <2>3
<1>39. ASSUME NEW t \in Threads, Find(t) PROVE TypeInv'
  <2>1. TableTypeOK' /\ ScriptTypeOK' /\ PostInRange'
    BY <1>39 DEF Find, Move, Again, TableTypeOK, ScriptTypeOK, PostInRange
  <2>2. FlagTypeOK'
    BY <1>39, RangeFacts DEF Find, Move, Again, FlagTypeOK
  <2>3. ThreadTypeOK'
    <3>1. FindSlot(wid[t]) \in Slots \cup {NoSlot}
      BY FindSlotType DEF ThreadTypeOK
    <3> QED BY <1>39, <3>1, RangeFacts DEF Find, Move, Again, WorkerStates, ThreadTypeOK
  <2>4. SocketTypeOK'
    BY <1>39, RangeFacts DEF Find, Move, Again, SocketTypeOK
  <2>5. MainTypeOK'
    BY <1>39 DEF Find, Move, Again, MainStates, MainTypeOK
  <2>6. RowHeld'
    BY <1>39, FindSlotType DEF Find, Move, Again, HasRow, SenderStates, Sending, ThreadTypeOK,
          RowHeld
  <2> QED BY <2>1, <2>2, <2>3, <2>4, <2>5, <2>6
<1>25. ASSUME NEW t \in Threads, SendInit(t) PROVE TypeInv'
  <2>1. TableTypeOK' /\ MainTypeOK' /\ ScriptTypeOK' /\ PostInRange'
    BY <1>25 DEF SendInit, Move, Again, OpenSocket, TableTypeOK, MainTypeOK, ScriptTypeOK,
          PostInRange
  <2>2. FlagTypeOK'
    BY <1>25, RangeFacts DEF SendInit, Move, Again, OpenSocket, FlagTypeOK
  <2>3. SocketTypeOK'
    BY <1>25 DEF SendInit, Again, OpenSocket, FreeFds, SocketTypeOK
  <2>4. ThreadTypeOK'
    BY <1>25, RangeFacts DEF SendInit, Move, Again, OpenSocket, WorkerStates, ThreadTypeOK
  <2>5. RowHeld'
    BY <1>25 DEF SendInit, Move, Again, OpenSocket, HasRow, SenderStates, Sending, ThreadTypeOK,
          RowHeld
  <2> QED BY <2>1, <2>2, <2>3, <2>4, <2>5
<1>26. ASSUME NEW t \in Threads, Launch(t) PROVE TypeInv'
  <2>1. TableTypeOK' /\ SocketTypeOK' /\ MainTypeOK' /\ ScriptTypeOK' /\ PostInRange'
    BY <1>26 DEF Launch, Move, Arm, TableTypeOK, SocketTypeOK, MainTypeOK, ScriptTypeOK,
          PostInRange
  <2>2. FlagTypeOK'
    BY <1>26 DEF Launch, Arm, FlagTypeOK, ThreadTypeOK, Profile
  <2>3. ThreadTypeOK'
    BY <1>26, LoopType DEF Launch, Move, Loops, WorkerStates, ThreadTypeOK
  <2>4. RowHeld'
    BY <1>26 DEF Launch, Move, Arm, HasRow, SenderStates, Sending, ThreadTypeOK, RowHeld
  <2> QED BY <2>1, <2>2, <2>3, <2>4
<1>27. ASSUME NEW t \in Threads, LongStop(t) PROVE TypeInv'
  <2>1. TableTypeOK' /\ SocketTypeOK' /\ MainTypeOK' /\ ScriptTypeOK' /\ PostInRange'
    BY <1>27 DEF LongStop, Move, TableTypeOK, SocketTypeOK, MainTypeOK, ScriptTypeOK,
          PostInRange
  <2>2. FlagTypeOK'
    BY <1>27, RangeFacts DEF LongStop, Move, FlagTypeOK
  <2>3. ThreadTypeOK'
    BY <1>27, RangeFacts DEF LongStop, Move, WorkerStates, ThreadTypeOK
  <2>4. RowHeld'
    BY <1>27 DEF LongStop, Move, HasRow, SenderStates, Sending, ThreadTypeOK, RowHeld
  <2> QED BY <2>1, <2>2, <2>3, <2>4
<1>28. ASSUME NEW t \in Threads, PacedStop(t) PROVE TypeInv'
  <2>1. TableTypeOK' /\ FlagTypeOK' /\ SocketTypeOK' /\ MainTypeOK' /\ ScriptTypeOK' /\
           PostInRange'
    BY <1>28 DEF PacedStop, Move, TableTypeOK, FlagTypeOK, SocketTypeOK, MainTypeOK,
          ScriptTypeOK, PostInRange
  <2>2. ThreadTypeOK'
    BY <1>28, RangeFacts DEF PacedStop, Move, WorkerStates, ThreadTypeOK
  <2>3. RowHeld'
    BY <1>28 DEF PacedStop, Move, HasRow, SenderStates, Sending, ThreadTypeOK, RowHeld
  <2> QED BY <2>1, <2>2, <2>3
<1>29. ASSUME NEW t \in Threads, SendBroken(t) PROVE TypeInv'
  <2>1. TableTypeOK' /\ SocketTypeOK' /\ MainTypeOK' /\ ScriptTypeOK' /\ PostInRange'
    BY <1>29 DEF SendBroken, Move, TableTypeOK, SocketTypeOK, MainTypeOK, ScriptTypeOK,
          PostInRange
  <2>2. FlagTypeOK'
    BY <1>29, RangeFacts DEF SendBroken, Move, FlagTypeOK
  <2>3. ThreadTypeOK'
    BY <1>29, RangeFacts DEF SendBroken, Move, WorkerStates, ThreadTypeOK
  <2>4. RowHeld'
    BY <1>29 DEF SendBroken, Move, HasRow, SenderStates, Sending, ThreadTypeOK, RowHeld
  <2> QED BY <2>1, <2>2, <2>3, <2>4
<1>30. ASSUME NEW t \in Threads, BurstOverrun(t) PROVE TypeInv'
  <2>1. TableTypeOK' /\ FlagTypeOK' /\ SocketTypeOK' /\ MainTypeOK' /\ ScriptTypeOK' /\
           PostInRange'
    BY <1>30 DEF BurstOverrun, Move, TableTypeOK, FlagTypeOK, SocketTypeOK, MainTypeOK,
          ScriptTypeOK, PostInRange
  <2>2. ThreadTypeOK'
    BY <1>30, RangeFacts DEF BurstOverrun, Move, WorkerStates, ThreadTypeOK
  <2>3. RowHeld'
    BY <1>30 DEF BurstOverrun, Move, HasRow, SenderStates, Sending, ThreadTypeOK, RowHeld
  <2> QED BY <2>1, <2>2, <2>3
<1>31. ASSUME NEW t \in Threads, TransacStop(t) PROVE TypeInv'
  <2>1. TableTypeOK' /\ SocketTypeOK' /\ MainTypeOK' /\ ScriptTypeOK' /\ PostInRange'
    BY <1>31 DEF TransacStop, Move, TableTypeOK, SocketTypeOK, MainTypeOK, ScriptTypeOK,
          PostInRange
  <2>2. FlagTypeOK'
    BY <1>31, RangeFacts DEF TransacStop, Move, FlagTypeOK
  <2>3. ThreadTypeOK'
    BY <1>31, RangeFacts DEF TransacStop, Move, WorkerStates, ThreadTypeOK
  <2>4. RowHeld'
    BY <1>31 DEF TransacStop, Move, HasRow, SenderStates, Sending, ThreadTypeOK, RowHeld
  <2> QED BY <2>1, <2>2, <2>3, <2>4
<1>32. ASSUME NEW t \in Threads, CloseSend(t) PROVE TypeInv'
  <2>1. TableTypeOK' /\ FlagTypeOK' /\ MainTypeOK' /\ ScriptTypeOK' /\ PostInRange'
    BY <1>32 DEF CloseSend, Move, TableTypeOK, FlagTypeOK, MainTypeOK, ScriptTypeOK, PostInRange
  <2>2. SocketTypeOK'
    BY <1>32, RangeFacts DEF CloseSend, Move, SocketTypeOK
  <2>3. ThreadTypeOK'
    BY <1>32, RangeFacts DEF CloseSend, Move, WorkerStates, ThreadTypeOK
  <2>4. RowHeld'
    BY <1>32 DEF CloseSend, Move, HasRow, SenderStates, Sending, ThreadTypeOK, RowHeld
  <2> QED BY <2>1, <2>2, <2>3, <2>4
<1>33. ASSUME NEW t \in Threads, Report(t) PROVE TypeInv'
  <2>1. FlagTypeOK' /\ MainTypeOK' /\ PostInRange'
    BY <1>33 DEF Report, Move, Again, Answered, FlagTypeOK, MainTypeOK, PostInRange
  <2>2. TableTypeOK'
    BY <1>33, RowFacts DEF Report, TableTypeOK
  <2>3. SocketTypeOK'
    BY <1>33, RangeFacts DEF Report, Move, Again, Answered, SocketTypeOK
  <2>4. ThreadTypeOK'
    BY <1>33, RangeFacts DEF Report, Move, Again, Answered, WorkerStates, ThreadTypeOK
  <2>5. ScriptTypeOK'
    BY <1>33 DEF Report, Move, Again, Answered, Commands, Note, Answered, ScriptTypeOK
  <2>6. RowHeld'
    BY <1>33 DEF Report, Move, Again, Answered, HasRow, SenderStates, Sending, ThreadTypeOK,
          RowHeld
  <2> QED BY <2>1, <2>2, <2>3, <2>4, <2>5, <2>6
<1>34. ASSUME NEW t \in Threads, ClearSender(t) PROVE TypeInv'
  <2>1. TableTypeOK' /\ MainTypeOK' /\ ScriptTypeOK' /\ PostInRange'
    BY <1>34 DEF ClearSender, Move, Again, TableTypeOK, MainTypeOK, ScriptTypeOK, PostInRange
  <2>2. FlagTypeOK'
    BY <1>34, RangeFacts DEF ClearSender, Move, Again, FlagTypeOK
  <2>3. SocketTypeOK'
    BY <1>34, RangeFacts DEF ClearSender, Move, Again, SocketTypeOK
  <2>4. ThreadTypeOK'
    BY <1>34, RangeFacts DEF ClearSender, Move, Again, WorkerStates, ThreadTypeOK
  <2>5. RowHeld'
    BY <1>34 DEF ClearSender, Move, Again, HasRow, SenderStates, Sending, ThreadTypeOK, RowHeld
  <2> QED BY <2>1, <2>2, <2>3, <2>4, <2>5
<1>35. ASSUME NEW t \in Threads, RecvInit(t) PROVE TypeInv'
  <2>1. TableTypeOK' /\ MainTypeOK' /\ ScriptTypeOK' /\ PostInRange'
    BY <1>35 DEF RecvInit, Move, Again, OpenSocket, TableTypeOK, MainTypeOK, ScriptTypeOK,
          PostInRange
  <2>2. FlagTypeOK'
    BY <1>35, RangeFacts DEF RecvInit, Move, Again, FlagTypeOK, ThreadTypeOK
  <2>3. SocketTypeOK'
    BY <1>35 DEF RecvInit, Move, Again, OpenSocket, FreeFds, SocketTypeOK
  <2>4. ThreadTypeOK'
    BY <1>35, RangeFacts DEF RecvInit, Move, Again, OpenSocket, WorkerStates, ThreadTypeOK
  <2>5. RowHeld'
    BY <1>35 DEF RecvInit, Move, Again, OpenSocket, HasRow, SenderStates, Sending, ThreadTypeOK,
          RowHeld
  <2> QED BY <2>1, <2>2, <2>3, <2>4, <2>5
<1>36. ASSUME NEW t \in Threads, RecvExit(t) PROVE TypeInv'
  <2>1. TableTypeOK' /\ MainTypeOK' /\ ScriptTypeOK' /\ PostInRange'
    BY <1>36 DEF RecvExit, Move, Again, TableTypeOK, MainTypeOK, ScriptTypeOK, PostInRange
  <2>2. FlagTypeOK'
    BY <1>36, RangeFacts DEF RecvExit, Move, Again, FlagTypeOK
  <2>3. SocketTypeOK'
    BY <1>36, RangeFacts DEF RecvExit, Move, Again, SocketTypeOK
  <2>4. ThreadTypeOK'
    BY <1>36, RangeFacts DEF RecvExit, Move, Again, WorkerStates, ThreadTypeOK
  <2>5. RowHeld'
    BY <1>36 DEF RecvExit, Move, Again, HasRow, SenderStates, Sending, ThreadTypeOK, RowHeld
  <2> QED BY <2>1, <2>2, <2>3, <2>4, <2>5
<1>37. ASSUME NEW t \in Threads, TransacExit(t) PROVE TypeInv'
  <2>1. TableTypeOK' /\ MainTypeOK' /\ ScriptTypeOK' /\ PostInRange'
    BY <1>37 DEF TransacExit, Move, Again, TableTypeOK, MainTypeOK, ScriptTypeOK, PostInRange
  <2>2. FlagTypeOK'
    BY <1>37, RangeFacts DEF TransacExit, Move, Again, FlagTypeOK
  <2>3. SocketTypeOK'
    BY <1>37, RangeFacts DEF TransacExit, Move, Again, SocketTypeOK
  <2>4. ThreadTypeOK'
    BY <1>37, RangeFacts DEF TransacExit, Move, Again, WorkerStates, ThreadTypeOK
  <2>5. RowHeld'
    BY <1>37 DEF TransacExit, Move, Again, HasRow, SenderStates, Sending, ThreadTypeOK, RowHeld
  <2> QED BY <2>1, <2>2, <2>3, <2>4, <2>5
<1>38. CASE UNCHANGED vars
  BY <1>38 DEF vars, TableTypeOK, FlagTypeOK, SocketTypeOK, ThreadTypeOK, MainTypeOK,
        ScriptTypeOK, PostInRange, RowHeld
<1> QED
  BY <1>1, <1>2, <1>3, <1>4, <1>5, <1>6, <1>7, <1>8, <1>9, <1>10, <1>11, <1>12, <1>13, <1>14,
        <1>15, <1>16, <1>17, <1>18, <1>19, <1>20, <1>21, <1>22, <1>23, <1>24, <1>25, <1>26,
        <1>27, <1>28, <1>29, <1>30, <1>31, <1>32, <1>33, <1>34, <1>35, <1>36, <1>37, <1>38,
        <1>39
     DEF Next, TestManager, Main, Worker

\* Every variable keeps its range, however the test manager behaves.
THEOREM TypeCorrect == Spec => []TypeOK
<1>1. TypeInv => TypeOK
  BY DEF TypeInv
<1> QED BY InitType, TypeStep, <1>1, PTL DEF Spec

\* TypeInv, the inductive form of TypeOK, holds of every run.
LEMMA TypeInvariant == Spec => []TypeInv
BY InitType, TypeStep, PTL DEF Spec

-----------------------------------------------------------------------------
(* The hand-over of a stream to its thread. *)

\* A posted start is never slept through: whatever the order of the post, the
\* thread's test of its flag, its wait and the signal, a thread that waits with its
\* flag set has the signal still coming (wfa_tg.c:440-443, wfa_thr.c:619-636).
THEOREM WakeupNeverLost == Spec => []NoLostWakeup
<1>1. Init => NoLostWakeup
  BY DEF Init, NoLostWakeup
<1>2. TypeInv /\ NoLostWakeup /\ [Next]_vars => NoLostWakeup'
  <2> SUFFICES ASSUME TypeInv, NoLostWakeup, [Next]_vars, NEW u \in Threads,
                      thr_flag'[u] # 0, wpc'[u] \in {"toWait", "waiting"}, fault' = "none"
               PROVE  mpc' \in {"recvStartSignal", "sendSignal"} /\ u = usedThread'
    BY DEF NoLostWakeup
  <2> USE DEF NoLostWakeup
  <2>1. CASE TestManager \/ UNCHANGED vars
    BY <2>1 DEF TestManager, Config, SendPing, StopPing, Reset, RecvStart, Send, RecvStop,
                Begin, MayAsk, BackToSelect, vars
  <2>2. CASE Signal
    BY <2>2 DEF Signal, Locked, TypeInv, TypeOK, FlagTypeOK, ThreadTypeOK, PostInRange
  <2>3. CASE RecvStartOne \/ SendOne
    BY <2>3 DEF RecvStartOne, SendOne, Post, TypeInv, TypeOK, FlagTypeOK
  <2>4. CASE \/ Select \/ Wake \/ RecvStartReject \/ RecvStartEnd \/ SendReject \/ SendEnd
             \/ RecvStopWaited \/ RecvStopReject \/ RecvStopOne \/ RecvStopEnd
    BY <2>4 DEF Select, Wake, BackToSelect, RecvStartReject, RecvStartEnd, SendReject, SendEnd,
                RecvStopWaited, RecvStopReject, RecvStopOne, RecvStopEnd, Leave
  <2>5. CASE Alarm
    BY <2>5 DEF Alarm
  <2>6. ASSUME NEW t \in Threads, Test(t) \/ CondWait(t) \/ Take(t) \/ Find(t)
        PROVE  mpc' \in {"recvStartSignal", "sendSignal"} /\ u = usedThread'
    BY <2>6 DEF Test, CondWait, Take, Find, Move, Again, TypeInv, TypeOK, FlagTypeOK, ThreadTypeOK
  <2>7. ASSUME NEW t \in Threads, Launch(t)
        PROVE  mpc' \in {"recvStartSignal", "sendSignal"} /\ u = usedThread'
    BY <2>7, LoopType DEF Launch, Loops, Move, TypeInv, TypeOK, ThreadTypeOK
  <2>8. ASSUME NEW t \in Threads,
               \/ SendInit(t) \/ LongStop(t) \/ PacedStop(t) \/ TransacStop(t) \/ CloseSend(t)
               \/ Report(t) \/ ClearSender(t) \/ SendBroken(t) \/ BurstOverrun(t)
        PROVE  mpc' \in {"recvStartSignal", "sendSignal"} /\ u = usedThread'
    BY <2>8 DEF SendInit, LongStop, PacedStop, TransacStop, CloseSend, Report, ClearSender,
                SendBroken, BurstOverrun, Move, Again, TypeInv, TypeOK, ThreadTypeOK
  <2>9. ASSUME NEW t \in Threads, RecvInit(t) \/ RecvExit(t) \/ TransacExit(t)
        PROVE  mpc' \in {"recvStartSignal", "sendSignal"} /\ u = usedThread'
    BY <2>9 DEF RecvInit, RecvExit, TransacExit, Move, Again, TypeInv, TypeOK, FlagTypeOK,
                ThreadTypeOK
  <2> QED BY <2>1, <2>2, <2>3, <2>4, <2>5, <2>6, <2>7, <2>8, <2>9 DEF Next, Main, Worker
<1> QED BY TypeInvariant, <1>1, <1>2, PTL DEF Spec

-----------------------------------------------------------------------------
(* The thread that reports. *)

\* The thread recorded in sendThrId is one that is still to send the response and
\* clear the record, so a RecvStop that waits for the record waits for a thread
\* that is on its way (wfa_tg.c:525, wfa_thr.c:664, 918-923).
THEOREM RecordedSends == Spec => []RecordedIsSending
<1>1. Init => RecordedIsSending
  BY DEF Init, RecordedIsSending
<1>2. TypeInv /\ RecordedIsSending /\ [Next]_vars => RecordedIsSending'
  <2> SUFFICES ASSUME TypeInv, RecordedIsSending, [Next]_vars PROVE RecordedIsSending'
    OBVIOUS
  <2> USE DEF RecordedIsSending, TypeInv, TypeOK, FlagTypeOK, ThreadTypeOK, Sending
  <2>1. CASE TestManager \/ UNCHANGED vars
    BY <2>1 DEF TestManager, Config, SendPing, StopPing, Reset, RecvStart, Send, RecvStop,
                Begin, MayAsk, BackToSelect, vars
  <2>2. CASE Signal
    BY <2>2 DEF Signal
  <2>3. CASE \/ Select \/ Wake \/ RecvStartOne \/ SendOne \/ Alarm
             \/ RecvStartReject \/ RecvStartEnd \/ SendReject \/ SendEnd
             \/ RecvStopWaited \/ RecvStopReject \/ RecvStopOne \/ RecvStopEnd
    BY <2>3 DEF Select, Wake, RecvStartOne, SendOne, Alarm, RecvStartReject, RecvStartEnd, SendReject,
                SendEnd, RecvStopWaited, RecvStopReject, RecvStopOne, RecvStopEnd
  <2>4. ASSUME NEW t \in Threads,
               \/ Test(t) \/ CondWait(t) \/ Take(t) \/ Find(t) \/ RecvInit(t) \/ RecvExit(t) \/ TransacExit(t)
        PROVE  RecordedIsSending'
    BY <2>4 DEF Test, CondWait, Take, Find, RecvInit, RecvExit, TransacExit, Move, Again
  <2>5. ASSUME NEW t \in Threads, SendInit(t) PROVE RecordedIsSending'
    BY <2>5 DEF SendInit, Move, Again
  <2>6. ASSUME NEW t \in Threads, Launch(t) PROVE RecordedIsSending'
    BY <2>6, LoopType DEF Launch, Move, Loops
  <2>7. ASSUME NEW t \in Threads,
               \/ LongStop(t) \/ PacedStop(t) \/ TransacStop(t) \/ CloseSend(t)
               \/ SendBroken(t) \/ BurstOverrun(t)
        PROVE  RecordedIsSending'
    BY <2>7 DEF LongStop, PacedStop, TransacStop, CloseSend, SendBroken, BurstOverrun, Move
  <2>8. ASSUME NEW t \in Threads, Report(t) \/ ClearSender(t) PROVE RecordedIsSending'
    BY <2>8 DEF Report, ClearSender, IsReporter, Move, Again
  <2> QED BY <2>1, <2>2, <2>3, <2>4, <2>5, <2>6, <2>7, <2>8 DEF Next, Main, Worker
<1> QED BY TypeInvariant, <1>1, <1>2, PTL DEF Spec

-----------------------------------------------------------------------------
(* The table of streams. *)

\* What one step does to the rows: Config fills one row and may clear the others,
\* Reset takes the id of row 0, every other step leaves all but active alone.
SameRow(s) ==
  /\ gStreams'[s].id = gStreams[s].id /\ gStreams'[s].tblidx = gStreams[s].tblidx
  /\ gStreams'[s].prof = gStreams[s].prof
IdsKept == streamId <= streamId' /\ \A s \in Slots : SameRow(s)
RowNamed(row) ==
  /\ streamId' = streamId + 1
  /\ gStreams'[row].id = streamId + 1 /\ gStreams'[row].tblidx = row
  /\ gStreams'[row].prof \in Profiles
  /\ \A s \in Slots \ {row} :
       SameRow(s) \/ gStreams'[s] = Cleared
RowDropped ==
  /\ streamId' = streamId
  /\ gStreams'[0].id = 0 /\ gStreams'[0].prof.kind = "NONE"
  /\ \A s \in Slots \ {0} : SameRow(s)

\* Each step names one row, drops row 0 or keeps ids, indexes and profiles.
LEMMA TableSteps ==
  ASSUME TypeInv, [Next]_vars
  PROVE  \/ IdsKept
         \/ \E p \in Profiles, row \in Slots : Config(p) /\ RowNamed(row)
         \/ Reset /\ RowDropped
<1> USE DEF TypeInv, TypeOK, TableTypeOK
<1>1. ASSUME NEW p \in Profiles, Config(p) PROVE \E row \in Slots : RowNamed(row)
  <2> DEFINE row == IF slotCnt = MaxStreams THEN 0 ELSE slotCnt
  <2>1. row \in Slots
    BY ConstantsAssumption DEF Slots
  <2>2. RowNamed(row)
    BY <1>1, <2>1 DEF Config, RowNamed, SameRow, NewRow, NextId, Cleared, Row
  <2> QED BY <2>1, <2>2
<1>2. ASSUME Reset PROVE RowDropped
  BY <1>2, RangeFacts DEF Reset, RowDropped, SameRow, ClearedBytes, Row, Profile
<1>3. ASSUME UNCHANGED gStreams, streamId' \in {streamId, streamId + 1} PROVE IdsKept
  BY <1>3 DEF IdsKept, SameRow
<1>4. CASE RecvStartOne \/ SendOne
  <2>1. gStreams' = [gStreams EXCEPT ![FindSlot(Current)].active = TRUE] /\ streamId' = streamId
    BY <1>4 DEF RecvStartOne, SendOne, Activate
  <2> QED BY <2>1 DEF IdsKept, SameRow, Row
<1>5. CASE RecvStopEnd
  BY <1>5 DEF RecvStopEnd, IdsKept, SameRow, Row
<1>6. ASSUME NEW t \in Threads, Report(t) PROVE IdsKept
  BY <1>6 DEF Report, IdsKept, SameRow, Row
<1>7. CASE \/ SendPing \/ (\E id \in Ids : StopPing(id))
           \/ (\E ids \in Batches : RecvStart(ids) \/ Send(ids) \/ RecvStop(ids))
           \/ Select \/ Wake \/ Signal \/ RecvStartReject \/ RecvStartEnd \/ SendReject \/ SendEnd
           \/ RecvStopWaited \/ RecvStopReject \/ RecvStopOne \/ Alarm \/ UNCHANGED vars
  BY <1>3, <1>7 DEF SendPing, StopPing, Select, Wake, RecvStart, Send, RecvStop, Begin,
       Signal, RecvStartReject, RecvStartEnd, SendReject, SendEnd, RecvStopWaited, RecvStopReject, RecvStopOne, Alarm,
       NextId, vars
<1>8. ASSUME NEW t \in Threads,
             \/ Test(t) \/ CondWait(t) \/ Take(t) \/ Find(t) \/ SendInit(t) \/ Launch(t) \/ LongStop(t) \/ PacedStop(t)
             \/ TransacStop(t)
      PROVE  IdsKept
  <2>1. UNCHANGED <<gStreams, streamId>>
    BY <1>8 DEF Test, CondWait, Take, Find, SendInit, Launch, LongStop, PacedStop, TransacStop
  <2> QED BY <2>1, <1>3
<1>9. ASSUME NEW t \in Threads,
             \/ CloseSend(t) \/ ClearSender(t) \/ RecvInit(t) \/ RecvExit(t)
             \/ TransacExit(t) \/ SendBroken(t) \/ BurstOverrun(t)
      PROVE  IdsKept
  <2>1. UNCHANGED <<gStreams, streamId>>
    BY <1>9 DEF CloseSend, ClearSender, RecvInit, RecvExit, TransacExit, SendBroken, BurstOverrun
  <2> QED BY <2>1, <1>3
<1> QED
  BY <1>1, <1>2, <1>4, <1>5, <1>6, <1>7, <1>8, <1>9 DEF Next, TestManager, Main, Worker

\* The rows that carry an id are indexed by themselves and carry different ids,
\* after any sequence of configurations, resets and full tables (wfa_tg.c:319-353).
THEOREM TableStaysIndexed == Spec => []TableIndexed
<1>1. Init => TableIndexed
  BY DEF Init, TableIndexed, Cleared
<1>2. TypeInv /\ TableIndexed /\ [Next]_vars => TableIndexed'
  <2> SUFFICES ASSUME TypeInv, TableIndexed, [Next]_vars PROVE TableIndexed'
    OBVIOUS
  <2> USE DEF TableIndexed, TypeInv, TypeOK, TableTypeOK, Row
  <2>1. CASE IdsKept
    BY <2>1, TypeStep DEF IdsKept, SameRow
  <2>2. ASSUME NEW row \in Slots, RowNamed(row) PROVE TableIndexed'
    BY <2>2 DEF RowNamed, SameRow, Cleared
  <2>3. CASE RowDropped
    BY <2>3 DEF RowDropped, SameRow
  <2> QED BY <2>1, <2>2, <2>3, TableSteps
<1> QED BY TypeInvariant, <1>1, <1>2, PTL DEF Spec

\* An id, once handed out, never names another stream (wfa_tg.c:346).
THEOREM IdsStayUnique == Spec => IdsNeverRecycled
<1>1. TypeInv /\ [Next]_vars =>
        [\A s \in Slots : gStreams'[s].id \notin {0, gStreams[s].id} =>
           gStreams'[s].id > streamId]_vars
  BY TableSteps DEF IdsKept, RowNamed, RowDropped, SameRow, Cleared, TypeInv, TypeOK, TableTypeOK
<1> QED BY TypeInvariant, <1>1, PTL DEF Spec, IdsNeverRecycled
=============================================================================
