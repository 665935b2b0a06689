-------------------------- MODULE ControlLinkProofs --------------------------
(***************************************************************************)
(* Proofs about ControlLink for every set of commands and every number of  *)
(* processes that end.                                                     *)
(*                                                                         *)
(* LinkInv counts: what is left of commands behind the agent's socket is   *)
(* one for the command that is awaited and one for each process that       *)
(* ended, and the buffers are made of that many whole responses with       *)
(* nothing but zeros between them.  The types with the bounds of the       *)
(* buffers and the framing follow.  Stage adds which command all of it     *)
(* belongs to as long as no process has ended: with it every step that the *)
(* test manager sees is a step of CommandService.                          *)
(***************************************************************************)
EXTENDS ControlLink, SequenceTheorems, TLAPS

Words == Seq(Nat \X Nat)

\* From its header at s up to e, a whole response and the zeros that follow it.
Whole(buf, s, e) ==
  /\ s \in 1 .. Len(buf) /\ e \in 1 .. Len(buf) + 1
  /\ buf[s][1] # 0 /\ buf[s][2] # 0
  /\ s + buf[s][2] < e
  /\ \A j \in s + buf[s][2] + 1 .. e - 1 : buf[j] = Zero

\* The n responses of a buffer start at p[1], ..., p[n]; what is before the first is zero, and
\* p[n + 1] is the end.
StartsAt(buf, n, p) ==
  /\ p \in [1 .. n + 1 -> 1 .. Len(buf) + 1]
  /\ p[n + 1] = Len(buf) + 1
  /\ \A i, j \in 1 .. n + 1 : i < j => p[i] < p[j]
  /\ \A j \in 1 .. p[1] - 1 : buf[j] = Zero
  /\ \A i \in 1 .. n : Whole(buf, p[i], p[i + 1])

Frames(buf, n) == buf \in Words /\ n \in Nat /\ \E p : StartsAt(buf, n, p)

----------------------------------------------------------------------------
(* Buffers and the responses in them *)

\* Words put behind words.
LEMMA WordsConcat ==
  \A b, c \in Words :
    /\ b \o c \in Words /\ Len(b) \in Nat /\ Len(c) \in Nat /\ Len(b \o c) = Len(b) + Len(c)
    /\ \A j \in 1 .. Len(b) : (b \o c)[j] = b[j]
    /\ \A j \in 1 .. Len(c) : (b \o c)[Len(b) + j] = c[j]
<1> SUFFICES ASSUME NEW b \in Words, NEW c \in Words
             PROVE  /\ b \o c \in Words /\ Len(b) \in Nat /\ Len(c) \in Nat
                    /\ Len(b \o c) = Len(b) + Len(c)
                    /\ \A j \in 1 .. Len(b) : (b \o c)[j] = b[j]
                    /\ \A j \in 1 .. Len(c) : (b \o c)[Len(b) + j] = c[j]
  OBVIOUS
<1> QED BY ConcatProperties DEF Words

\* What is left of words from one on.
LEMMA WordsFrom ==
  ASSUME NEW b \in Words, NEW h \in 1 .. Len(b)
  PROVE  /\ SubSeq(b, h + 1, Len(b)) \in Words
         /\ Len(SubSeq(b, h + 1, Len(b))) = Len(b) - h
         /\ \A j \in 1 .. Len(b) - h : SubSeq(b, h + 1, Len(b))[j] = b[h + j]
<1>1. Len(b) \in Nat /\ \A i \in h + 1 .. Len(b) : b[i] \in Nat \X Nat
  BY DEF Words
<1>2. /\ SubSeq(b, h + 1, Len(b)) \in Seq(Nat \X Nat)
      /\ Len(SubSeq(b, h + 1, Len(b))) = IF h + 1 <= Len(b) THEN Len(b) - (h + 1) + 1 ELSE 0
      /\ \A j \in 1 .. Len(b) - (h + 1) + 1 : SubSeq(b, h + 1, Len(b))[j] = b[h + 1 + j - 1]
  BY <1>1, SubSeqProperties
<1>3. \A j \in 1 .. Len(b) - h : h + 1 + j - 1 = h + j
  BY <1>1
<1> QED BY <1>1, <1>2, <1>3 DEF Words

\* Zeros hold no response.
LEMMA FramesOfZeros ==
  ASSUME NEW k \in Nat PROVE Zeros(k) \in Words /\ Len(Zeros(k)) = k /\ Frames(Zeros(k), 0)
<1>1. Zeros(k) \in Words /\ Len(Zeros(k)) = k /\ \A j \in 1 .. k : Zeros(k)[j] = Zero
  BY DEF Zeros, Zero, Words
<1>2. StartsAt(Zeros(k), 0, [i \in 1 .. 1 |-> k + 1])
  BY <1>1 DEF StartsAt
<1> QED BY <1>1, <1>2 DEF Frames

\* No buffer, no response.
LEMMA FramesOfNone == <<>> \in Words /\ Frames(<<>>, 0) /\ \A n : Frames(<<>>, n) => n = 0
<1>1. StartsAt(<<>>, 0, [i \in 1 .. 1 |-> 1])
  BY DEF StartsAt
<1>2. ASSUME NEW n, Frames(<<>>, n) PROVE n = 0
  BY <1>2 DEF Frames, StartsAt, Whole
<1> QED BY <1>1, <1>2 DEF Frames, Words

\* What stands in b from s up to e stands in d from t on, and zeros behind it up to f.
Moved(b, s, e, d, t, f) ==
  /\ b \in Words /\ d \in Words
  /\ t \in 1 .. Len(d) /\ f \in 1 .. Len(d) + 1 /\ t + (e - s) <= f
  /\ \A j \in 0 .. e - s - 1 : d[t + j] = b[s + j]
  /\ \A j \in t + (e - s) .. f - 1 : d[j] = Zero

\* A response stays whole where it is moved.
LEMMA WholeMoved ==
  ASSUME NEW b, NEW s, NEW e, Whole(b, s, e), NEW d, NEW t, NEW f, Moved(b, s, e, d, t, f)
  PROVE  Whole(d, t, f)
<1>1. /\ b \in Words /\ d \in Words /\ Len(b) \in Nat /\ Len(d) \in Nat
      /\ s \in 1 .. Len(b) /\ e \in 1 .. Len(b) + 1
      /\ t \in 1 .. Len(d) /\ f \in 1 .. Len(d) + 1 /\ t + (e - s) <= f
  <2>1. b \in Words /\ d \in Words
    BY DEF Moved
  <2>2. Len(b) \in Nat /\ Len(d) \in Nat
    BY <2>1 DEF Words
  <2> QED BY <2>1, <2>2 DEF Whole, Moved
<1>2. b[s][2] \in Nat
  <2>1. b[s] \in Nat \X Nat
    BY <1>1 DEF Words
  <2> QED BY <2>1
<1>3. s + b[s][2] < e
  BY DEF Whole
<1>4. d[t] = b[s]
  <2>1. 0 \in 0 .. e - s - 1
    BY <1>1, <1>2, <1>3
  <2>2. d[t + 0] = b[s + 0]
    BY <2>1 DEF Moved
  <2> QED BY <2>2, <1>1
<1>5. ASSUME NEW j \in t + b[s][2] + 1 .. f - 1 PROVE d[j] = Zero
  <2>1. CASE j - t < e - s
    <3>1. j - t \in 0 .. e - s - 1 /\ s + (j - t) \in s + b[s][2] + 1 .. e - 1 /\ t + (j - t) = j
      BY <1>1, <1>2, <1>3, <2>1, SMTT(30)
    <3>2. d[t + (j - t)] = b[s + (j - t)]
      BY <3>1 DEF Moved
    <3>3. b[s + (j - t)] = Zero
      BY <3>1 DEF Whole
    <3> QED BY <3>1, <3>2, <3>3
  <2>2. CASE j - t >= e - s
    <3>1. j \in t + (e - s) .. f - 1
      BY <1>1, <1>2, <1>3, <2>2
    <3> QED BY <3>1 DEF Moved
  <2> QED BY <1>1, <1>2, <1>3, <2>1, <2>2
<1>6. t + b[s][2] < f
  BY <1>1, <1>2, <1>3
<1>7. d[t][1] # 0 /\ d[t][2] # 0
  BY <1>4 DEF Whole
<1> QED BY <1>1, <1>4, <1>5, <1>6, <1>7 DEF Whole

\* A buffer and what follows it hold as many responses as they do apart.
LEMMA FramesOfConcat ==
  ASSUME NEW b, NEW m, Frames(b, m), NEW c, NEW n, Frames(c, n)
  PROVE  Frames(b \o c, m + n)
<1>1. /\ b \in Words /\ c \in Words /\ b \o c \in Words /\ m \in Nat /\ n \in Nat
      /\ Len(b) \in Nat /\ Len(c) \in Nat /\ Len(b \o c) = Len(b) + Len(c)
      /\ \A j \in 1 .. Len(b) : (b \o c)[j] = b[j]
      /\ \A j \in 1 .. Len(c) : (b \o c)[Len(b) + j] = c[j]
  BY WordsConcat DEF Frames, Words
<1>2. PICK p : StartsAt(b, m, p)
  BY DEF Frames
<1>3. PICK q : StartsAt(c, n, q)
  BY DEF Frames
<1> DEFINE d == b \o c
           r == [i \in 1 .. m + n + 1 |-> IF i <= m THEN p[i] ELSE Len(b) + q[i - m]]
<1>4. q[1] \in 1 .. Len(c) + 1 /\ \A j \in 1 .. q[1] - 1 : c[j] = Zero
  BY <1>1, <1>3 DEF StartsAt
<1>5. \A j \in Len(b) + 1 .. Len(b) + q[1] - 1 : d[j] = Zero
  <2> SUFFICES ASSUME NEW j \in Len(b) + 1 .. Len(b) + q[1] - 1 PROVE d[j] = Zero
    OBVIOUS
  <2>1. j - Len(b) \in 1 .. q[1] - 1 /\ j - Len(b) \in 1 .. Len(c) /\ Len(b) + (j - Len(b)) = j
    BY <1>1, <1>4
  <2> QED BY <2>1, <1>1, <1>4
<1> HIDE DEF d
<1>6. r \in [1 .. m + n + 1 -> 1 .. Len(d) + 1] /\ r[m + n + 1] = Len(d) + 1
  <2>1. Len(d) = Len(b) + Len(c)
    BY <1>1 DEF d
  <2>2. ASSUME NEW i \in 1 .. m + n + 1 PROVE r[i] \in 1 .. Len(d) + 1
    <3>1. CASE i <= m
      <4>1. i \in 1 .. m + 1
        BY <3>1, <1>1
      <4>2. p[i] \in 1 .. Len(b) + 1
        BY <4>1, <1>2 DEF StartsAt
      <4> QED BY <2>1, <3>1, <4>2, <1>1
    <3>2. CASE i > m
      <4>1. i - m \in 1 .. n + 1
        BY <3>2, <1>1
      <4>2. q[i - m] \in 1 .. Len(c) + 1
        BY <4>1, <1>3 DEF StartsAt
      <4> QED BY <2>1, <3>2, <4>2, <1>1
    <3> QED BY <3>1, <3>2, <1>1
  <2>3. m + n + 1 \in 1 .. m + n + 1 /\ ~(m + n + 1 <= m) /\ m + n + 1 - m = n + 1
    BY <1>1
  <2>4. r[m + n + 1] = Len(b) + q[n + 1]
    <3>1. r[m + n + 1] = Len(b) + q[m + n + 1 - m]
      BY <2>3, <1>1
    <3> QED BY <3>1, <2>3
  <2>5. q[n + 1] = Len(c) + 1
    BY <1>3 DEF StartsAt
  <2> QED BY <2>1, <2>2, <2>4, <2>5, <1>1
<1>7. /\ \A i \in 1 .. m : r[i] = p[i]
      /\ \A i \in 1 .. n + 1 : r[m + i] = Len(b) + q[i]
  BY <1>1
<1> HIDE DEF r
<1>8. ASSUME NEW j \in 1 .. r[1] - 1 PROVE d[j] = Zero
  <2>1. CASE m = 0
    <3>1. p[1] = Len(b) + 1 /\ r[1] = Len(b) + q[1]
      BY <2>1, <1>1, <1>2, <1>7 DEF StartsAt
    <3> QED BY <3>1, <1>1, <1>2, <1>4, <1>5, <1>8, SMTT(30) DEF StartsAt, d
  <2>2. CASE m > 0
    <3>1. r[1] = p[1] /\ p[1] \in 1 .. Len(b) + 1
      BY <2>2, <1>1, <1>2, <1>7 DEF StartsAt
    <3> QED BY <3>1, <1>1, <1>2, <1>8 DEF StartsAt, d
  <2> QED BY <2>1, <2>2, <1>1
<1>9. ASSUME NEW i \in 1 .. m PROVE Whole(d, r[i], r[i + 1])
  <2>1. Whole(b, p[i], p[i + 1]) /\ p[i] \in Nat /\ p[i + 1] \in Nat
    BY <1>1, <1>2, SMTT(30) DEF StartsAt
  <2>2. p[i] \in 1 .. Len(b) /\ p[i + 1] \in 1 .. Len(b) + 1
    BY <2>1 DEF Whole
  <2>3. \A j \in 0 .. p[i + 1] - p[i] - 1 : d[p[i] + j] = b[p[i] + j]
    <3> TAKE j \in 0 .. p[i + 1] - p[i] - 1
    <3>1. p[i] + j \in 1 .. Len(b)
      BY <2>2, <1>1, SMTT(30)
    <3> QED BY <3>1, <1>1 DEF d
  <2>4. /\ d \in Words /\ Len(d) = Len(b) + Len(c) /\ p[i] \in 1 .. Len(d)
        /\ p[i] + (p[i + 1] - p[i]) = p[i + 1]
    BY <1>1, <2>2 DEF d
  <2>5. CASE i < m
    <3>1. r[i] = p[i] /\ r[i + 1] = p[i + 1]
      BY <2>5, <1>1, <1>7
    <3>2. p[i + 1] \in 1 .. Len(d) + 1 /\ p[i + 1] >= p[i] + (p[i + 1] - p[i])
      BY <1>1, <2>2, <2>4
    <3>3. \A j \in p[i] + (p[i + 1] - p[i]) .. p[i + 1] - 1 : d[j] = Zero
      BY <2>2, <2>4
    <3>4. Moved(b, p[i], p[i + 1], d, p[i], p[i + 1])
      BY <2>3, <2>4, <3>2, <3>3, <1>1 DEF Moved
    <3> QED BY <2>1, <3>1, <3>4, WholeMoved
  <2>6. CASE i = m
    <3>1. r[i] = p[i] /\ r[i + 1] = Len(b) + q[1] /\ p[i + 1] = Len(b) + 1
      <4>1. r[m + 1] = Len(b) + q[1]
        BY <1>1, <1>7
      <4>2. p[m + 1] = Len(b) + 1
        BY <1>2 DEF StartsAt
      <4> QED BY <2>6, <4>1, <4>2, <1>1, <1>7
    <3>2. Len(b) + q[1] \in 1 .. Len(d) + 1 /\ p[i] + (p[i + 1] - p[i]) <= Len(b) + q[1]
      BY <1>1, <1>4, <2>2, <2>4, <3>1, SMTT(30)
    <3>3. \A j \in p[i] + (p[i + 1] - p[i]) .. Len(b) + q[1] - 1 : d[j] = Zero
      BY <1>5, <2>4, <3>1
    <3> DEFINE e == Len(b) + q[1]
    <3> HIDE DEF e
    <3>4. Moved(b, p[i], p[i + 1], d, p[i], e)
      <4>1. b \in Words
        BY <1>1
      <4>2. e \in 1 .. Len(d) + 1 /\ p[i] + (p[i + 1] - p[i]) <= e
        BY <3>2 DEF e
      <4>3. \A j \in p[i] + (p[i + 1] - p[i]) .. e - 1 : d[j] = Zero
        <5>1. e - 1 = Len(b) + q[1] - 1
          BY <1>1, <1>4 DEF e
        <5> QED BY <3>3, <5>1
      <4> QED BY <2>3, <2>4, <4>1, <4>2, <4>3 DEF Moved
    <3> QED BY <2>1, <3>1, <3>4, WholeMoved DEF e
  <2> QED BY <2>5, <2>6, <1>1
<1>10. ASSUME NEW i \in 1 .. n PROVE Whole(d, r[m + i], r[m + i + 1])
  <2>1. Whole(c, q[i], q[i + 1])
    BY <1>1, <1>3 DEF StartsAt
  <2>2. q[i] \in 1 .. Len(c) /\ q[i + 1] \in 1 .. Len(c) + 1
    BY <2>1, <1>1 DEF Whole
  <2>3. r[m + i] = Len(b) + q[i] /\ r[m + i + 1] = Len(b) + q[i + 1]
    <3>1. i \in 1 .. n + 1 /\ i + 1 \in 1 .. n + 1 /\ m + (i + 1) = m + i + 1
      BY <1>1
    <3>2. r[m + i] = Len(b) + q[i] /\ r[m + (i + 1)] = Len(b) + q[i + 1]
      BY <3>1, <1>7
    <3> QED BY <3>1, <3>2
  <2> DEFINE s == Len(b) + q[i]
             e == Len(b) + q[i + 1]
  <2>4. \A j \in 0 .. q[i + 1] - q[i] - 1 : d[s + j] = c[q[i] + j]
    <3> TAKE j \in 0 .. q[i + 1] - q[i] - 1
    <3>1. q[i] + j \in 1 .. Len(c) /\ Len(b) + (q[i] + j) = s + j
      BY <2>2, <1>1, SMTT(30)
    <3>2. d[Len(b) + (q[i] + j)] = c[q[i] + j]
      BY <3>1, <1>1 DEF d
    <3> QED BY <3>1, <3>2
  <2>5. d \in Words /\ Len(d) = Len(b) + Len(c)
    BY <1>1 DEF d
  <2>6. s \in 1 .. Len(d) /\ e \in 1 .. Len(d) + 1 /\ s + (q[i + 1] - q[i]) = e
    <3>1. q[i] \in Nat /\ q[i + 1] \in Nat /\ Len(b) \in Nat /\ Len(c) \in Nat
      BY <2>2, <1>1
    <3>2. Len(d) \in Nat /\ s + (q[i + 1] - q[i]) = e
      BY <3>1, <2>5
    <3>3. s \in 1 .. Len(d)
      BY <3>1, <3>2, <2>2, <2>5
    <3>4. e \in 1 .. Len(d) + 1
      BY <3>1, <3>2, <2>2, <2>5
    <3> QED BY <3>2, <3>3, <3>4
  <2>7. \A j \in s + (q[i + 1] - q[i]) .. e - 1 : d[j] = Zero
    BY <2>6
  <2>8. e >= s + (q[i + 1] - q[i])
    BY <2>6
  <2> HIDE DEF s, e
  <2>9. Moved(c, q[i], q[i + 1], d, s, e)
    BY <2>4, <2>5, <2>6, <2>7, <2>8, <1>1 DEF Moved
  <2>10. Whole(d, s, e)
    BY <2>1, <2>9, WholeMoved
  <2> QED BY <2>3, <2>10 DEF s, e
<1>11. ASSUME NEW i \in 1 .. m + n PROVE Whole(d, r[i], r[i + 1])
  <2>1. CASE i <= m
    BY <2>1, <1>1, <1>9
  <2>2. CASE i > m
    <3>1. i - m \in 1 .. n /\ m + (i - m) = i /\ m + (i - m) + 1 = i + 1
      BY <2>2, <1>1
    <3> QED BY <3>1, <1>10
  <2> QED BY <2>1, <2>2, <1>1
<1>12. ASSUME NEW i \in 1 .. m + n + 1, NEW j \in 1 .. m + n + 1, i < j PROVE r[i] < r[j]
  <2>1. CASE j <= m
    <3>1. i \in 1 .. m + 1 /\ j \in 1 .. m + 1 /\ r[i] = p[i] /\ r[j] = p[j]
      BY <2>1, <1>1, <1>7, <1>12
    <3> QED BY <3>1, <1>2, <1>12 DEF StartsAt
  <2>2. CASE i <= m /\ j > m
    <3>1. i \in 1 .. m /\ r[i] = p[i] /\ p[i] \in 1 .. Len(b)
      BY <2>2, <1>1, <1>2, <1>7 DEF StartsAt, Whole
    <3>2. j - m \in 1 .. n + 1 /\ m + (j - m) = j
      BY <2>2, <1>1
    <3>3. r[j] = Len(b) + q[j - m] /\ q[j - m] \in 1 .. Len(c) + 1
      BY <3>2, <1>3, <1>7 DEF StartsAt
    <3> QED BY <3>1, <3>3, <1>1
  <2>3. CASE i > m
    <3>1. /\ i - m \in 1 .. n + 1 /\ m + (i - m) = i /\ i - m < j - m
          /\ j - m \in 1 .. n + 1 /\ m + (j - m) = j
      BY <2>3, <1>1, <1>12
    <3>2. /\ r[i] = Len(b) + q[i - m] /\ q[i - m] \in 1 .. Len(c) + 1
          /\ r[j] = Len(b) + q[j - m] /\ q[j - m] \in 1 .. Len(c) + 1
          /\ q[i - m] < q[j - m]
      BY <3>1, <1>3, <1>7 DEF StartsAt
    <3> QED BY <3>2, <1>1
  <2> QED BY <2>1, <2>2, <2>3, <1>1, <1>12
<1>13. StartsAt(d, m + n, r)
  BY <1>6, <1>8, <1>11, <1>12 DEF StartsAt
<1> QED BY <1>1, <1>13 DEF Frames, d

\* A TLV and the zeros behind it are one response.
LEMMA FramesOfTLV ==
  ASSUME NEW tag \in Nat \ {0}, NEW value \in Words, Len(value) > 0, NEW k \in Nat
  PROVE  /\ Frames(TLV(tag, value) \o Zeros(k), 1)
         /\ Len(TLV(tag, value) \o Zeros(k)) = Len(value) + k + 1
<1> DEFINE head == <<<<tag, Len(value)>>>>
           d == TLV(tag, value) \o Zeros(k)
<1>1. Zeros(k) \in Words /\ Len(Zeros(k)) = k /\ \A j \in 1 .. k : Zeros(k)[j] = Zero
  <2>1. Zeros(k) \in Words /\ Len(Zeros(k)) = k
    BY FramesOfZeros
  <2> QED BY <2>1 DEF Zeros
<1>2. Len(value) \in Nat /\ head \in Words /\ Len(head) = 1 /\ head[1] = <<tag, Len(value)>>
  BY DEF Words
<1>3. TLV(tag, value) = head \o value
  BY DEF TLV
<1> HIDE DEF head
<1>4. /\ TLV(tag, value) \in Words /\ Len(TLV(tag, value)) = Len(value) + 1
      /\ TLV(tag, value)[1] = <<tag, Len(value)>>
  <2>1. /\ head \o value \in Words /\ Len(head \o value) = Len(head) + Len(value)
        /\ \A j \in 1 .. Len(head) : (head \o value)[j] = head[j]
    BY <1>2, WordsConcat
  <2>2. 1 \in 1 .. Len(head)
    BY <1>2
  <2>3. (head \o value)[1] = head[1]
    BY <2>1, <2>2
  <2> QED BY <1>2, <1>3, <2>1, <2>3
<1>5. /\ d \in Words /\ Len(d) = Len(value) + 1 + k
      /\ d[1] = <<tag, Len(value)>>
  <2>1. /\ d \in Words /\ Len(d) = Len(TLV(tag, value)) + Len(Zeros(k))
        /\ \A j \in 1 .. Len(TLV(tag, value)) : d[j] = TLV(tag, value)[j]
    BY <1>1, <1>4, WordsConcat
  <2>2. 1 \in 1 .. Len(TLV(tag, value))
    BY <1>2, <1>4
  <2>3. d[1] = TLV(tag, value)[1]
    BY <2>1, <2>2
  <2> QED BY <1>1, <1>2, <1>4, <2>1, <2>3
<1>6. \A j \in Len(value) + 2 .. Len(value) + 1 + k : d[j] = Zero
  <2> TAKE j \in Len(value) + 2 .. Len(value) + 1 + k
  <2>1. j - (Len(value) + 1) \in 1 .. k /\ Len(value) + 1 + (j - (Len(value) + 1)) = j
    BY <1>2
  <2>2. d[Len(value) + 1 + (j - (Len(value) + 1))] = Zeros(k)[j - (Len(value) + 1)]
    <3>1. \A i \in 1 .. Len(Zeros(k)) : d[Len(TLV(tag, value)) + i] = Zeros(k)[i]
      BY <1>1, <1>4, WordsConcat
    <3> HIDE DEF d
    <3>2. d[Len(TLV(tag, value)) + (j - (Len(value) + 1))] = Zeros(k)[j - (Len(value) + 1)]
      BY <3>1, <2>1, <1>1
    <3> QED BY <3>2, <1>4
  <2> QED BY <2>1, <2>2, <1>1
<1> HIDE DEF d
<1> DEFINE p == [i \in 1 .. 2 |-> IF i = 1 THEN 1 ELSE Len(d) + 1]
<1>7. p \in [1 .. 1 + 1 -> 1 .. Len(d) + 1] /\ p[1] = 1 /\ p[1 + 1] = Len(d) + 1
  BY <1>2, <1>5
<1> HIDE DEF p
<1>8. Whole(d, 1, Len(d) + 1)
  <2>1. d[1][1] = tag /\ d[1][2] = Len(value)
    BY <1>5
  <2>2. Len(d) \in Nat /\ Len(d) > 0
    BY <1>2, <1>5
  <2> QED BY <2>1, <2>2, <1>2, <1>5, <1>6 DEF Whole
<1>9. StartsAt(d, 1, p)
  <2>1. \A i, j \in 1 .. 1 + 1 : i < j => i = 1 /\ j = 1 + 1
    OBVIOUS
  <2>2. 1 < Len(d) + 1
    BY <1>2, <1>5
  <2>3. \A i \in 1 .. 1 : Whole(d, p[i], p[i + 1])
    BY <1>7, <1>8
  <2>4. \A j \in 1 .. p[1] - 1 : d[j] = Zero
    BY <1>7
  <2> QED BY <1>7, <2>1, <2>2, <2>3, <2>4 DEF StartsAt
<1> QED BY <1>2, <1>5, <1>9 DEF Frames, d

\* A response as a handler leaves it: none, or one that is whole.
Answer(words) == words = <<>> \/ (Frames(words, 1) /\ Len(words) <= MaxWords)

\* TLV without zeros behind it.
LEMMA NothingBehind == ASSUME NEW b \in Words PROVE b \o Zeros(0) = b
<1>1. Zeros(0) = <<>>
  BY DEF Zeros
<1> QED BY <1>1, ConcatEmptySeq DEF Words

\* What handlers and threads leave to send are such responses.
LEMMA ResponsesAreAnswers ==
  /\ \A c \in Kinds \ {"typo"} : \A words \in Responses(c) : Answer(words)
  /\ Answer(SendReport)
<1>1. \A id, s \in Nat : Entry(id) \in Words /\ Len(Entry(id)) = 2 /\ Status(s) \in Words /\ Len(Status(s)) = 1
  BY DEF Entry, Status, Words, COMPLETE
<1>2. ASSUME NEW tag \in Nat \ {0}, NEW value \in Words, Len(value) \in 1 .. 2 PROVE Answer(TLV(tag, value))
  <2>1. /\ Frames(TLV(tag, value) \o Zeros(0), 1) /\ Len(TLV(tag, value) \o Zeros(0)) = Len(value) + 0 + 1
    BY <1>2, FramesOfTLV
  <2>2. TLV(tag, value) \in Words
    BY <1>2, WordsConcat DEF TLV, Words
  <2>3. Len(TLV(tag, value)) = Len(value) + 1
    BY <2>1, <2>2, NothingBehind
  <2>4. Len(TLV(tag, value)) <= MaxWords
    <3>1. MaxWords = 5
      BY DEF MaxWords, EntryWords
    <3>2. PICK l \in 1 .. 2 : l = Len(value)
      BY <1>2
    <3>3. Len(TLV(tag, value)) = l + 1
      BY <3>2, <2>3
    <3> QED BY <3>1, <3>3
  <2>5. Frames(TLV(tag, value), 1)
    BY <2>1, <2>2, NothingBehind
  <2> QED BY <2>4, <2>5 DEF Answer
<1>3. Answer(TLV(RECV_STOP_RESP, <<Zero, Zero>>) \o Zeros(EntryWords))
  <2>1. <<Zero, Zero>> \in Words /\ Len(<<Zero, Zero>>) = 2
    BY DEF Zero, Words
  <2> DEFINE value == <<Zero, Zero>>
  <2> HIDE DEF value
  <2>2. /\ Frames(TLV(RECV_STOP_RESP, value) \o Zeros(2), 1)
        /\ Len(TLV(RECV_STOP_RESP, value) \o Zeros(2)) = Len(value) + 2 + 1
    <3>1. RECV_STOP_RESP \in Nat \ {0} /\ value \in Words /\ Len(value) = 2
      BY <2>1 DEF RECV_STOP_RESP, value
    <3>2. 2 \in Nat /\ Len(value) > 0
      BY <3>1
    <3> QED BY <3>1, <3>2, FramesOfTLV
  <2>3. Len(TLV(RECV_STOP_RESP, value) \o Zeros(2)) <= MaxWords
    BY <2>1, <2>2 DEF MaxWords, EntryWords, value
  <2> QED BY <2>2, <2>3 DEF Answer, EntryWords, value
<1>4. /\ Answer(TLV(CONFIG_RESP, Entry(1))) /\ Answer(TLV(SEND_RESP, Entry(1)))
      /\ Answer(TLV(RECV_STOP_RESP, Entry(1)))
      /\ Answer(TLV(RECV_START_RESP, Status(COMPLETE))) /\ Answer(TLV(SEND_RESP, Status(INVALID)))
  BY <1>1, <1>2 DEF CONFIG_RESP, SEND_RESP, RECV_START_RESP, RECV_STOP_RESP, COMPLETE, INVALID
<1>5. Answer(<<>>)
  BY DEF Answer
<1>6. ASSUME NEW c \in Kinds \ {"typo"}, NEW words \in Responses(c) PROVE Answer(words)
  BY <1>3, <1>4, <1>5, <1>6 DEF Kinds, Responses
<1> QED BY <1>4, <1>6 DEF SendReport

----------------------------------------------------------------------------
(* The agent's loop over them *)

\* While there is a response, or zeros before it, the header at the front and all it announces
\* are there; to go past it takes one response if it has a handler and none if it is zero.
LEMMA FrameParse ==
  ASSUME NEW b, NEW n, Frames(b, n), Complete(b)
  PROVE  /\ HasHandler(Head(b)[1]) => n > 0 /\ Frames(Rest(b), n - 1)
         /\ ~HasHandler(Head(b)[1]) => Frames(Rest(b), n)
         /\ Len(Rest(b)) < Len(b)
<1>1. b \in Words /\ n \in Nat /\ Len(b) \in Nat /\ Len(b) > 1 /\ b # <<>>
  BY DEF Frames, Words, Complete
<1>2. b[1] \in Nat \X Nat /\ b[1][2] \in Nat /\ Head(b) = b[1] /\ b[1][2] + 1 <= Len(b)
  BY <1>1 DEF Words, Complete
<1> DEFINE h == b[1][2] + 1
           d == Rest(b)
<1>3. /\ h \in Nat /\ h >= 1 /\ h <= Len(b) /\ d \in Words /\ Len(d) = Len(b) - h
      /\ \A j \in 1 .. Len(b) - h : d[j] = b[h + j]
  <2>1. h \in Nat /\ h >= 1 /\ h <= Len(b)
    BY <1>1, <1>2
  <2>2. d = SubSeq(b, h + 1, Len(b))
    <3>1. b[1][2] + 2 = h + 1
      BY <1>2
    <3> QED BY <3>1, <1>2 DEF Rest
  <2>3. h \in 1 .. Len(b)
    BY <2>1, <1>1
  <2> HIDE DEF h, d
  <2> QED BY <2>1, <2>2, <2>3, <1>1, WordsFrom
<1>4. PICK p : StartsAt(b, n, p)
  BY DEF Frames
<1> HIDE DEF h, d
<1>5. ASSUME NEW k \in Nat, k <= n, p[n - k + 1] > h,
             \A j \in h + 1 .. p[n - k + 1] - 1 : b[j] = Zero
      PROVE  Frames(d, k)
  <2> DEFINE a == n - k
             q == [i \in 1 .. k + 1 |-> p[a + i] - h]
  <2>1. a \in Nat /\ a + (k + 1) = n + 1 /\ \A i \in 1 .. k + 1 : a + i \in 1 .. n + 1
    BY <1>1, <1>5
  <2>2. ASSUME NEW i \in 1 .. k + 1
        PROVE  p[a + i] \in h + 1 .. Len(b) + 1 /\ q[i] = p[a + i] - h
    <3>1. a + i \in 1 .. n + 1 /\ a + 1 \in 1 .. n + 1 /\ (i > 1 => a + 1 < a + i)
      BY <2>1
    <3>2. p[a + i] \in 1 .. Len(b) + 1 /\ p[a + 1] \in 1 .. Len(b) + 1
          /\ (i > 1 => p[a + 1] < p[a + i])
      BY <3>1, <1>4 DEF StartsAt
    <3>3. p[a + 1] > h
      BY <1>5
    <3>4. p[a + i] \in h + 1 .. Len(b) + 1
      <4>1. CASE i = 1
        BY <4>1, <3>2, <3>3, <1>1, <1>3
      <4>2. CASE i > 1
        BY <4>2, <3>2, <3>3, <1>1, <1>3
      <4> QED BY <4>1, <4>2
    <3> QED BY <3>4
  <2>3. q \in [1 .. k + 1 -> 1 .. Len(d) + 1]
    <3> SUFFICES ASSUME NEW i \in 1 .. k + 1 PROVE p[a + i] - h \in 1 .. Len(d) + 1
      OBVIOUS
    <3>1. p[a + i] \in h + 1 .. Len(b) + 1
      BY <2>2
    <3> HIDE DEF a, q
    <3> QED BY <3>1, <1>1, <1>3
  <2> HIDE DEF q
  <2>4. q[k + 1] = Len(d) + 1
    <3>1. k + 1 \in 1 .. k + 1 /\ p[n + 1] = Len(b) + 1
      BY <1>4 DEF StartsAt
    <3> QED BY <3>1, <2>1, <2>2, <1>1, <1>3
  <2>5. ASSUME NEW i \in 1 .. k + 1, NEW j \in 1 .. k + 1, i < j PROVE q[i] < q[j]
    <3>1. a + i \in 1 .. n + 1 /\ a + j \in 1 .. n + 1 /\ a + i < a + j
      BY <2>1, <2>5
    <3>2. p[a + i] < p[a + j]
      BY <3>1, <1>4 DEF StartsAt
    <3> QED BY <3>2, <2>2, <1>1, <1>3, SMTT(30)
  <2>6. ASSUME NEW j \in 1 .. q[1] - 1 PROVE d[j] = Zero
    <3>1. 1 \in 1 .. k + 1
      OBVIOUS
    <3>2. p[a + 1] \in h + 1 .. Len(b) + 1 /\ q[1] = p[a + 1] - h
      BY <2>2, <3>1
    <3>3. j \in 1 .. Len(b) - h /\ h + j \in h + 1 .. p[a + 1] - 1
      BY <3>2, <2>6, <1>1, <1>3
    <3>4. b[h + j] = Zero
      BY <3>3, <1>5
    <3> QED BY <3>3, <3>4, <1>3
  <2>7. ASSUME NEW i \in 1 .. k PROVE Whole(d, q[i], q[i + 1])
    <3>1. i \in 1 .. k + 1 /\ i + 1 \in 1 .. k + 1 /\ a + i \in 1 .. n /\ a + (i + 1) = a + i + 1
      BY <2>1, <1>1
    <3>2. Whole(b, p[a + i], p[a + i + 1])
      BY <3>1, <1>4 DEF StartsAt
    <3> DEFINE s == p[a + i]
               e == p[a + i + 1]
    <3>3. /\ s \in h + 1 .. Len(b) + 1 /\ e \in h + 1 .. Len(b) + 1
          /\ q[i] = s - h /\ q[i + 1] = e - h
      BY <3>1, <2>2
    <3>4. s \in 1 .. Len(b)
      BY <3>2 DEF Whole
    <3> HIDE DEF s, e
    <3>5. \A j \in 0 .. e - s - 1 : d[q[i] + j] = b[s + j]
      <4> TAKE j \in 0 .. e - s - 1
      <4>1. q[i] + j \in 1 .. Len(b) - h /\ h + (q[i] + j) = s + j
        BY <3>3, <3>4, <1>1, <1>3
      <4> QED BY <4>1, <1>3
    <3>6. /\ q[i] \in 1 .. Len(d) /\ q[i + 1] \in 1 .. Len(d) + 1
          /\ q[i] + (e - s) = q[i + 1]
      BY <3>3, <3>4, <1>1, <1>3
    <3>7. \A j \in q[i] + (e - s) .. q[i + 1] - 1 : d[j] = Zero
      BY <3>6
    <3>8. Moved(b, s, e, d, q[i], q[i + 1])
      BY <3>5, <3>6, <3>7, <1>1, <1>3 DEF Moved
    <3> QED BY <3>2, <3>8, WholeMoved DEF s, e
  <2> HIDE DEF a
  <2>8. StartsAt(d, k, q)
    BY <2>3, <2>4, <2>5, <2>6, <2>7 DEF StartsAt
  <2> QED BY <2>8, <1>3, <1>5 DEF Frames
<1>6. p[1] \in 1 .. Len(b) + 1 /\ (n = 0 => p[1] = Len(b) + 1)
  BY <1>1, <1>4 DEF StartsAt
<1>7. CASE p[1] > 1
  <2>1. b[1] = Zero /\ \A j \in 1 .. p[1] - 1 : b[j] = Zero
    BY <1>4, <1>6, <1>7 DEF StartsAt
  <2>2. ~HasHandler(Head(b)[1]) /\ h = 1
    BY <2>1, <1>2 DEF HasHandler, Zero, h
  <2>3. n - n + 1 = 1 /\ p[n - n + 1] > h /\ \A j \in h + 1 .. p[n - n + 1] - 1 : b[j] = Zero
    BY <2>1, <2>2, <1>1, <1>6, <1>7
  <2>4. Frames(d, n)
    BY <2>3, <1>1, <1>5
  <2> QED BY <2>2, <2>4, <1>1, <1>3 DEF d
<1>8. CASE p[1] = 1
  <2>1. n > 0
    BY <1>1, <1>6, <1>8
  <2>2. Whole(b, 1, p[1 + 1])
    BY <2>1, <1>1, <1>4, <1>8 DEF StartsAt
  <2>3. HasHandler(Head(b)[1])
    BY <2>2, <1>2 DEF Whole, HasHandler
  <2>4. p[2] \in 1 .. Len(b) + 1 /\ h < p[2] /\ \A j \in h + 1 .. p[2] - 1 : b[j] = Zero
    BY <2>2, <1>2 DEF Whole, h
  <2>5. /\ n - 1 \in Nat /\ n - 1 <= n /\ n - (n - 1) + 1 = 2
    BY <2>1, <1>1
  <2>6. p[n - (n - 1) + 1] > h /\ \A j \in h + 1 .. p[n - (n - 1) + 1] - 1 : b[j] = Zero
    BY <2>4, <2>5, <1>3
  <2>7. Frames(d, n - 1)
    BY <2>5, <2>6, <1>5
  <2> QED BY <2>1, <2>3, <2>7, <1>1, <1>3 DEF d
<1> QED BY <1>6, <1>7, <1>8

\* When nothing is complete at the front, nothing is left but a zero.
LEMMA FrameIncomplete ==
  ASSUME NEW b, NEW n, Frames(b, n), ~Complete(b)
  PROVE  n = 0 /\ Len(b) <= 1 /\ \A i \in 1 .. Len(b) : b[i] = Zero
<1>1. b \in Words /\ n \in Nat /\ Len(b) \in Nat
  BY DEF Frames, Words
<1>2. PICK p : StartsAt(b, n, p)
  BY DEF Frames
<1>3. ASSUME n > 0 PROVE FALSE
  <2>1. Whole(b, p[1], p[1 + 1])
    BY <1>1, <1>2, <1>3 DEF StartsAt
  <2>2. \A j \in 1 .. p[1] - 1 : b[j] = Zero
    BY <1>2 DEF StartsAt
  <2>3. /\ p[1] \in 1 .. Len(b) /\ b[p[1]] \in Nat \X Nat
        /\ b[p[1]][2] \in Nat \ {0} /\ p[1] + b[p[1]][2] <= Len(b)
    <3>1. p[1] \in 1 .. Len(b) /\ p[1 + 1] \in 1 .. Len(b) + 1
      BY <2>1 DEF Whole
    <3>2. b[p[1]] \in Nat \X Nat
      BY <3>1, <1>1 DEF Words
    <3> QED BY <3>1, <3>2, <2>1 DEF Whole
  <2>4. Len(b) > 1 /\ Head(b) = b[1]
    BY <2>3, <1>1 DEF Words
  <2>5. Head(b)[2] + 1 <= Len(b)
    <3>1. CASE p[1] = 1
      BY <3>1, <2>3, <2>4, <1>1
    <3>2. CASE p[1] > 1
      BY <3>2, <2>2, <2>3, <2>4, <1>1 DEF Zero
    <3> QED BY <3>1, <3>2, <2>3
  <2> QED BY <2>4, <2>5 DEF Complete
<1>4. n = 0
  BY <1>1, <1>3
<1>5. \A i \in 1 .. Len(b) : b[i] = Zero
  BY <1>1, <1>2, <1>4 DEF StartsAt
<1>6. ASSUME Len(b) > 1 PROVE FALSE
  <2>1. Head(b) = b[1] /\ b[1] = Zero
    BY <1>1, <1>5, <1>6 DEF Words
  <2> QED BY <2>1, <1>1, <1>6 DEF Complete, Zero
<1> QED BY <1>1, <1>4, <1>5, <1>6

----------------------------------------------------------------------------
(* The inductive invariant *)

\* What every variable may be, without what fills the buffers.
Types ==
  /\ awaiting \in Kinds \cup {"none"}
  /\ last \in Answers \cup {"none", "gaveUp", "stray"}
  /\ tmUp \in BOOLEAN /\ knock \in BOOLEAN
  /\ caIn \in Kinds \cup {"none"}
  /\ caPc \in {"down", "select", "parse", "refuse", "dying"}
  /\ gCaSockfd \in Sockets /\ gSock \in Sockets
  /\ dutKnock \in Sockets /\ gxcSockfd \in Sockets
  /\ dutIn \in Seq(Kinds \ {"typo"})
  /\ dutPc \in {"up", "down", "dying"}
  /\ owed \in Nat
  /\ crashes \in 0 .. MaxCrashes

\* There are a whole responses on the link and b in the agent's buffer, which holds none and
\* no word but one zero when the agent waits.
Buffers(a, b) ==
  /\ Frames(toCa, a) /\ Len(toCa) <= MaxWords * a
  /\ Frames(caCmdBuf, b) /\ Len(caCmdBuf) <= 1 + MaxWords * (crashes + 1)
  /\ caPc \in {"select", "refuse"} =>
       b = 0 /\ Len(caCmdBuf) <= 1 /\ \A i \in 1 .. Len(caCmdBuf) : caCmdBuf[i] = Zero
  /\ caPc = "down" => caCmdBuf = <<>>

One(p) == IF p THEN 1 ELSE 0

\* What is left of commands behind the agent's socket: responses, those that threads owe,
\* commands that the device has not read, the line that refuses one.
Behind(a, b) == a + b + owed + Len(dutIn) + One(caPc = "refuse")

\* Only the command that is awaited leaves something, and one for each process that ended:
\* with the agent goes the connection of the command it had.
Budget(a, b) ==
  /\ Behind(a, b) + One(caIn # "none") <= crashes + One(awaiting # "none")
  /\ caPc = "dying" \/ (awaiting # "none" /\ ~tmUp) => Behind(a, b) <= crashes
  /\ awaiting # "none" /\ ~tmUp => caIn = "none"

LinkInv == Types /\ \E a, b \in Nat : Buffers(a, b) /\ Budget(a, b)

\* No response is nothing: the answers of the agent are of the three it knows.
LEMMA AnswersAreKnown == \A buf : AnswerOf(buf) \in Answers
  BY DEF AnswerOf, Answers, Generic, OfEntries

\* Every step keeps the types.
LEMMA TypesKept == Types /\ [Next]_vars => Types'
<1> USE LinkAssumption DEF Types, Sockets
<1> SUFFICES ASSUME Types, [Next]_vars PROVE Types'
  OBVIOUS
<1>0. CASE UNCHANGED vars
  BY <1>0 DEF vars, tmVars, caVars, dutVars, linkVars
<1>1. CASE Connect
  BY <1>1 DEF Connect, tmVars, caVars, dutVars, linkVars
<1>2. CASE Disconnect
  <2>1. tmUp' \in BOOLEAN /\ knock' \in BOOLEAN
    BY <1>2 DEF Disconnect, Hangup, Closed, tmVars, caVars, dutVars, linkVars
  <2>2. gCaSockfd' \in Sockets
    BY <1>2 DEF Disconnect, Hangup, Closed, tmVars, caVars, dutVars, linkVars
  <2> QED BY <1>2, <2>1, <2>2 DEF Disconnect, Hangup, Closed, tmVars, caVars, dutVars, linkVars
<1>3. CASE GiveUp
  <2>1. tmUp' \in BOOLEAN /\ knock' \in BOOLEAN
    BY <1>3 DEF GiveUp, Hangup, Closed, tmVars, caVars, dutVars, linkVars
  <2>2. gCaSockfd' \in Sockets
    BY <1>3 DEF GiveUp, Hangup, Closed, tmVars, caVars, dutVars, linkVars
  <2> QED BY <1>3, <2>1, <2>2 DEF GiveUp, Hangup, Closed, tmVars, caVars, dutVars, linkVars
<1>4. CASE \E c \in Asked : Ask(c)
  BY <1>4 DEF Ask, tmVars, caVars, dutVars, linkVars
<1>5. CASE CaAccept
  <2>1. tmUp' \in BOOLEAN /\ knock' \in BOOLEAN
    BY <1>5 DEF CaAccept, tmVars, caVars, dutVars, linkVars
  <2>2. gCaSockfd' \in Sockets
    BY <1>5 DEF CaAccept, tmVars, caVars, dutVars, linkVars
  <2> QED BY <1>5, <2>1, <2>2 DEF CaAccept, tmVars, caVars, dutVars, linkVars
<1>6. CASE CaEof
  BY <1>6 DEF CaEof, AtSelect, tmVars, caVars, dutVars, linkVars
<1>7. CASE CaForward
  BY <1>7 DEF CaForward, CaRead, AfterSend, AtSelect, Kills, tmVars, caVars, dutVars, linkVars
<1>8. CASE CaReject
  BY <1>8 DEF CaReject, CaRead, AfterSend, AtSelect, tmVars, caVars, dutVars, linkVars
<1>9. CASE CaRefuse
  BY <1>9 DEF CaRefuse, CaSays, Hears, AfterSend, Kills, tmVars, caVars, dutVars, linkVars, Answers
<1>10. CASE CaRecv
  BY <1>10 DEF CaRecv, AtSelect, tmVars, caVars, dutVars, linkVars
<1>11. CASE CaRecvEof
  BY <1>11 DEF CaRecvEof, AtSelect, tmVars, caVars, dutVars, linkVars
<1>12. CASE CaParse
  BY <1>12, AnswersAreKnown
     DEF CaParse, CaSays, Hears, AfterSend, Kills, tmVars, caVars, dutVars, linkVars, Answers
<1>13. CASE DutAccept
  BY <1>13 DEF DutAccept, tmVars, caVars, dutVars, linkVars
<1>14. CASE DutEof
  BY <1>14 DEF DutEof, tmVars, caVars, dutVars, linkVars
<1>15. CASE DutHandle
  BY <1>15 DEF DutHandle, DutSays, AfterSend, Kills, tmVars, caVars, dutVars, linkVars
<1>16. CASE DutDeferred
  BY <1>16 DEF DutDeferred, DutSays, AfterSend, Kills, tmVars, caVars, dutVars, linkVars
<1>17. CASE CaDown
  BY <1>17 DEF CaDown, Closed, tmVars, caVars, dutVars, linkVars
<1>18. CASE CaStart
  BY <1>18 DEF CaStart, tmVars, caVars, dutVars, linkVars
<1>19. CASE DutDown
  BY <1>19 DEF DutDown, Closed, tmVars, caVars, dutVars, linkVars
<1>20. CASE DutStart
  BY <1>20 DEF DutStart, tmVars, caVars, dutVars, linkVars
<1>21. CASE Crash
  BY <1>21 DEF Crash, tmVars, caVars, dutVars, linkVars
<1> QED BY <1>0, <1>1, <1>2, <1>3, <1>4, <1>5, <1>6, <1>7, <1>8, <1>9, <1>10, <1>11, <1>12, <1>13,
          <1>14, <1>15, <1>16, <1>17, <1>18, <1>19, <1>20, <1>21 DEF Next, TM, CA, DUT, WTG

\* Every step keeps what the buffers hold and how much there is of it.
LEMMA LoadKept ==
  ASSUME Types, Types', [Next]_vars, NEW a \in Nat, NEW b \in Nat, Buffers(a, b), Budget(a, b)
  PROVE  \E c, d \in Nat : Buffers(c, d)' /\ Budget(c, d)'
<1> DEFINE Load(c, d) == Buffers(c, d) /\ Budget(c, d)
<1> SUFFICES \E c, d \in Nat : Load(c, d)'
  OBVIOUS
<1>z. Len(dutIn) \in Nat /\ owed \in Nat /\ crashes \in Nat /\ MaxWords = 5
  BY LinkAssumption DEF Types, MaxWords, EntryWords
<1>l. Len(caCmdBuf) \in Nat /\ Len(toCa) \in Nat
  BY DEF Buffers, Frames, Words
<1>0. CASE UNCHANGED vars
  <2>1. Load(a, b)'
    BY <1>0, <1>z DEF vars, tmVars, caVars, dutVars, linkVars, Buffers, Budget, Behind, One
  <2> QED BY <2>1
<1>1. CASE Connect
  <2>1. Buffers(a, b)'
    BY <1>1, <1>z DEF Connect, tmVars, caVars, dutVars, linkVars, Buffers
  <2>2. Budget(a, b)'
    BY <1>1, <1>z DEF Connect, tmVars, caVars, dutVars, linkVars, Types, Buffers, Budget, Behind, One
  <2> QED BY <2>1, <2>2
<1>2. CASE Disconnect
  <2>1. Buffers(a, b)'
    BY <1>2, <1>z DEF Disconnect, Hangup, tmVars, caVars, dutVars, linkVars, Buffers
  <2>2. Budget(a, b)'
    BY <1>2, <1>z
       DEF Disconnect, Hangup, tmVars, caVars, dutVars, linkVars, Types, Buffers, Budget, Behind, One
  <2> QED BY <2>1, <2>2
<1>3. CASE \E c \in Asked : Ask(c)
  <2>1. Buffers(a, b)'
    BY <1>3, <1>z DEF Ask, tmVars, caVars, dutVars, linkVars, Buffers
  <2>2. Budget(a, b)'
    BY <1>3, <1>z DEF Ask, tmVars, caVars, dutVars, linkVars, Types, Buffers, Budget, Behind, One
  <2> QED BY <2>1, <2>2
<1>4. CASE GiveUp
  <2>1. Buffers(a, b)'
    BY <1>4, <1>z DEF GiveUp, Hangup, tmVars, caVars, dutVars, linkVars, Buffers
  <2>2. CASE ~tmUp
    BY <1>4, <1>z, <2>1, <2>2
       DEF GiveUp, Hangup, tmVars, caVars, dutVars, linkVars, Types, Budget, Behind, One
  <2>3. CASE Quiet
    <3>1. a = 0 /\ b = 0
      BY <2>3, FramesOfNone DEF Quiet, Buffers
    <3>2. dutIn = <<>> /\ owed = 0 /\ caPc = "select" /\ caIn = "none"
      BY <2>3 DEF Quiet
    <3>3. Budget(a, b)'
      BY <1>4, <1>z, <3>1, <3>2
         DEF GiveUp, Hangup, tmVars, caVars, dutVars, linkVars, Budget, Behind, One
    <3> QED BY <2>1, <3>3
  <2> QED BY <1>4, <2>2, <2>3 DEF GiveUp
<1>5. CASE CaAccept
  <2>1. Buffers(a, b)'
    BY <1>5, <1>z DEF CaAccept, tmVars, caVars, dutVars, linkVars, Buffers
  <2>2. Budget(a, b)'
    BY <1>5, <1>z DEF CaAccept, tmVars, caVars, dutVars, linkVars, Types, Buffers, Budget, Behind, One
  <2> QED BY <2>1, <2>2
<1>6. CASE CaEof
  <2>1. Buffers(a, b)'
    BY <1>6, <1>z DEF CaEof, AtSelect, tmVars, caVars, dutVars, linkVars, Buffers
  <2>2. Budget(a, b)'
    BY <1>6, <1>z
       DEF CaEof, AtSelect, tmVars, caVars, dutVars, linkVars, Types, Buffers, Budget, Behind, One
  <2> QED BY <2>1, <2>2
<1>7. CASE CaForward
  <2>1. Buffers(a, b)'
    BY <1>7, <1>z DEF CaForward, CaRead, AtSelect, tmVars, caVars, dutVars, linkVars, Buffers
  <2>2. Len(dutIn') <= Len(dutIn) + 1 /\ Len(dutIn') \in Nat
    BY <1>7 DEF CaForward, Types
  <2>3. caPc' = "dying" => Len(dutIn') = Len(dutIn)
    BY <1>7 DEF CaForward, Kills
  <2>4. Budget(a, b)'
    <3>1. caIn # "none" /\ caIn' = "none" /\ caPc = "select" /\ caPc' \in {"select", "dying"}
          /\ UNCHANGED <<awaiting, tmUp, owed, crashes>>
      BY <1>7 DEF CaForward, CaRead, AtSelect, tmVars, caVars, dutVars, linkVars
    <3> QED BY <1>z, <2>2, <2>3, <3>1 DEF Budget, Behind, One
  <2> QED BY <2>1, <2>4
<1>8. CASE CaReject
  <2>1. Buffers(a, b)'
    BY <1>8, <1>z DEF CaReject, CaRead, AtSelect, tmVars, caVars, dutVars, linkVars, Buffers
  <2>2. Budget(a, b)'
    BY <1>8, <1>z
       DEF CaReject, CaRead, AtSelect, tmVars, caVars, dutVars, linkVars, Types, Buffers, Budget, Behind, One
  <2> QED BY <2>1, <2>2
<1>9. CASE CaRefuse
  <2>1. Buffers(a, b)'
    BY <1>9, <1>z DEF CaRefuse, CaSays, Hears, tmVars, caVars, dutVars, linkVars, Buffers
  <2>2. Budget(a, b)'
    BY <1>9, <1>z
       DEF CaRefuse, CaSays, Hears, tmVars, caVars, dutVars, linkVars, Types, Buffers, Budget, Behind, One
  <2> QED BY <2>1, <2>2
<1>10. CASE CaRecv
  <2>1. Frames(Zeros(Len(caCmdBuf)), 0) /\ Len(Zeros(Len(caCmdBuf))) = Len(caCmdBuf)
        /\ Zeros(Len(caCmdBuf)) \in Words /\ toCa \in Words
    BY <1>l, FramesOfZeros DEF Buffers, Frames
  <2>2. b = 0 /\ Len(caCmdBuf) <= 1
    BY <1>10 DEF CaRecv, AtSelect, Buffers
  <2>3. Frames(caCmdBuf', a) /\ Frames(toCa', 0)
    <3>1. Frames(Zeros(Len(caCmdBuf)) \o toCa, 0 + a)
      BY <2>1, FramesOfConcat DEF Buffers
    <3> QED BY <1>10, <3>1, FramesOfNone DEF CaRecv
  <2>4. Len(caCmdBuf') = Len(caCmdBuf) + Len(toCa) /\ Len(toCa') = 0
    BY <1>10, <2>1, WordsConcat DEF CaRecv
  <2>5. a <= crashes + 1
    BY <1>z, <2>2 DEF Budget, Behind, One
  <2>6. Buffers(0, a)'
    BY <1>10, <1>z, <1>l, <2>2, <2>3, <2>4, <2>5 DEF CaRecv, Buffers
  <2>7. Budget(0, a)'
    BY <1>10, <1>z, <2>2 DEF CaRecv, AtSelect, tmVars, caVars, dutVars, linkVars, Budget, Behind, One
  <2> QED BY <2>6, <2>7
<1>11. CASE CaRecvEof
  <2>1. Buffers(a, b)'
    <3>1. b = 0 /\ Frames(<<>>, 0) /\ Len(<<>>) = 0
      BY <1>11, FramesOfNone DEF CaRecvEof, AtSelect, Buffers
    <3> QED BY <1>11, <1>z, <3>1 DEF CaRecvEof, AtSelect, tmVars, caVars, dutVars, linkVars, Buffers
  <2>2. Budget(a, b)'
    BY <1>11, <1>z DEF CaRecvEof, AtSelect, tmVars, caVars, dutVars, linkVars, Budget, Behind, One
  <2> QED BY <2>1, <2>2
<1>12. CASE CaParse
  <2>1. CASE ~Complete(caCmdBuf)
    <3>1. b = 0 /\ Len(caCmdBuf) <= 1 /\ \A i \in 1 .. Len(caCmdBuf) : caCmdBuf[i] = Zero
      BY <2>1, FrameIncomplete DEF Buffers
    <3>2. Buffers(a, b)'
      BY <1>12, <1>z, <2>1, <3>1 DEF CaParse, tmVars, caVars, dutVars, linkVars, Buffers
    <3>3. Budget(a, b)'
      BY <1>12, <1>z, <2>1 DEF CaParse, tmVars, caVars, dutVars, linkVars, Types, Budget, Behind, One
    <3> QED BY <3>2, <3>3
  <2>2. CASE Complete(caCmdBuf) /\ ~HasHandler(Head(caCmdBuf)[1])
    <3>1. Frames(Rest(caCmdBuf), b) /\ Len(Rest(caCmdBuf)) < Len(caCmdBuf)
          /\ Len(Rest(caCmdBuf)) \in Nat
      <4>1. Frames(Rest(caCmdBuf), b) /\ Len(Rest(caCmdBuf)) < Len(caCmdBuf)
        BY <2>2, FrameParse DEF Buffers
      <4>2. Len(Rest(caCmdBuf)) \in Nat
        BY <4>1 DEF Frames, Words
      <4> QED BY <4>1, <4>2
    <3>2. Buffers(a, b)'
      BY <1>12, <1>z, <1>l, <2>2, <3>1 DEF CaParse, tmVars, caVars, dutVars, linkVars, Buffers
    <3>3. Budget(a, b)'
      BY <1>12, <1>z, <2>2 DEF CaParse, tmVars, caVars, dutVars, linkVars, Types, Budget, Behind, One
    <3> QED BY <3>2, <3>3
  <2>3. CASE Complete(caCmdBuf) /\ HasHandler(Head(caCmdBuf)[1])
    <3>1. b > 0 /\ Frames(Rest(caCmdBuf), b - 1) /\ Len(Rest(caCmdBuf)) < Len(caCmdBuf)
          /\ Len(Rest(caCmdBuf)) \in Nat
      <4>1. b > 0 /\ Frames(Rest(caCmdBuf), b - 1) /\ Len(Rest(caCmdBuf)) < Len(caCmdBuf)
        BY <2>3, FrameParse DEF Buffers
      <4>2. Len(Rest(caCmdBuf)) \in Nat
        BY <4>1 DEF Frames, Words
      <4> QED BY <4>1, <4>2
    <3>2. caPc' \in {"parse", "dying"} /\ caCmdBuf' = Rest(caCmdBuf) /\ toCa' = toCa /\ crashes' = crashes
      BY <1>12, <2>3 DEF CaParse, CaSays, tmVars, caVars, dutVars, linkVars
    <3>3. Buffers(a, b - 1)'
      BY <1>z, <1>l, <3>1, <3>2 DEF Buffers
    <3>4. Budget(a, b - 1)'
      BY <1>12, <1>z, <2>3, <3>1, <3>2, SMTT(30)
         DEF CaParse, CaSays, Hears, tmVars, caVars, dutVars, linkVars, Types, Budget, Behind, One
    <3>5. b - 1 \in Nat
      BY <3>1
    <3> QED BY <3>3, <3>4, <3>5
  <2> QED BY <2>1, <2>2, <2>3
<1>13. CASE CaStart
  <2>1. b = 0 /\ caCmdBuf = <<>> /\ Len(caCmdBuf) = 0
    BY <1>13, FramesOfNone DEF CaStart, Buffers
  <2>2. Buffers(a, b)'
    BY <1>13, <1>z, <2>1 DEF CaStart, tmVars, caVars, dutVars, linkVars, Buffers
  <2>3. Budget(a, b)'
    BY <1>13, <1>z DEF CaStart, tmVars, caVars, dutVars, linkVars, Types, Budget, Behind, One
  <2> QED BY <2>2, <2>3
<1>14. CASE DutAccept
  <2>1. Buffers(a, b)'
    BY <1>14, <1>z DEF DutAccept, tmVars, caVars, dutVars, linkVars, Buffers
  <2>2. Budget(a, b)'
    BY <1>14, <1>z DEF DutAccept, tmVars, caVars, dutVars, linkVars, Types, Buffers, Budget, Behind, One
  <2> QED BY <2>1, <2>2
<1>15. CASE DutEof
  <2>1. Buffers(a, b)'
    BY <1>15, <1>z DEF DutEof, tmVars, caVars, dutVars, linkVars, Buffers
  <2>2. Budget(a, b)'
    BY <1>15, <1>z DEF DutEof, tmVars, caVars, dutVars, linkVars, Types, Buffers, Budget, Behind, One
  <2> QED BY <2>1, <2>2
<1>16. CASE DutStart
  <2>1. Buffers(a, b)'
    BY <1>16, <1>z DEF DutStart, tmVars, caVars, dutVars, linkVars, Buffers
  <2>2. Budget(a, b)'
    BY <1>16, <1>z DEF DutStart, tmVars, caVars, dutVars, linkVars, Types, Buffers, Budget, Behind, One
  <2> QED BY <2>1, <2>2
<1>17. CASE DutHandle
  <2>1. Len(dutIn) > 0 /\ Len(dutIn') = 0 /\ Head(dutIn) \in Kinds \ {"typo"}
    BY <1>17 DEF DutHandle, Types
  <2>2. PICK words \in Responses(Head(dutIn)) : DutSays(words)
    BY <1>17 DEF DutHandle
  <2>3. Head(dutIn) = "send" => words = <<>>
    BY <2>2 DEF Responses
  <2>4. owed' = (IF Head(dutIn) = "send" THEN owed + 1 ELSE owed)
        /\ UNCHANGED <<caPc, caCmdBuf, caIn, awaiting, tmUp, crashes>>
    BY <1>17 DEF DutHandle, tmVars, caVars, dutVars, linkVars
  <2>5. CASE words # <<>> /\ gxcSockfd = "open"
    <3>1. Frames(words, 1) /\ Len(words) <= MaxWords /\ Len(words) \in Nat
      <4>1. Answer(words)
        BY <2>1, <2>2, ResponsesAreAnswers
      <4>2. Frames(words, 1) /\ Len(words) <= MaxWords
        BY <2>5, <4>1 DEF Answer
      <4> QED BY <4>2 DEF Frames, Words
    <3>2. toCa' = toCa \o words
      BY <2>2, <2>5 DEF DutSays
    <3>3. Frames(toCa', a + 1) /\ Len(toCa') = Len(toCa) + Len(words)
      BY <3>1, <3>2, FramesOfConcat, WordsConcat DEF Buffers, Frames
    <3>4. Buffers(a + 1, b)'
      BY <1>z, <1>l, <2>4, <3>1, <3>3 DEF Buffers
    <3>5. Budget(a + 1, b)'
      BY <1>z, <2>1, <2>3, <2>4, <2>5 DEF Budget, Behind, One
    <3> QED BY <3>4, <3>5
  <2>6. CASE words = <<>> \/ gxcSockfd # "open"
    <3>1. toCa' = toCa
      BY <2>2, <2>6 DEF DutSays
    <3>2. Buffers(a, b)'
      BY <2>4, <3>1 DEF Buffers
    <3>3. Budget(a, b)'
      BY <1>z, <2>1, <2>4 DEF Budget, Behind, One
    <3> QED BY <3>2, <3>3
  <2> QED BY <2>5, <2>6
<1>18. CASE DutDeferred
  <2>1. owed > 0 /\ owed' = owed - 1 /\ DutSays(SendReport)
        /\ UNCHANGED <<caPc, caCmdBuf, caIn, awaiting, tmUp, crashes, dutIn>>
    BY <1>18 DEF DutDeferred, tmVars, caVars, dutVars, linkVars
  <2>2. SendReport # <<>> /\ Frames(SendReport, 1) /\ Len(SendReport) <= MaxWords /\ Len(SendReport) \in Nat
    <3>1. SendReport # <<>>
      BY DEF SendReport, TLV, Entry
    <3>2. Answer(SendReport)
      BY ResponsesAreAnswers
    <3>3. Frames(SendReport, 1) /\ Len(SendReport) <= MaxWords
      BY <3>1, <3>2 DEF Answer
    <3> QED BY <3>1, <3>3 DEF Frames, Words
  <2>3. CASE gxcSockfd = "open"
    <3>1. toCa' = toCa \o SendReport
      BY <2>1, <2>2, <2>3 DEF DutSays
    <3>2. Frames(toCa', a + 1) /\ Len(toCa') = Len(toCa) + Len(SendReport)
      BY <2>2, <3>1, FramesOfConcat, WordsConcat DEF Buffers, Frames
    <3>3. Buffers(a + 1, b)'
      BY <1>z, <1>l, <2>1, <2>2, <3>2 DEF Buffers
    <3>4. Budget(a + 1, b)'
      BY <1>z, <2>1 DEF Budget, Behind, One
    <3> QED BY <3>3, <3>4
  <2>4. CASE gxcSockfd # "open"
    <3>1. toCa' = toCa
      BY <2>1, <2>4 DEF DutSays
    <3>2. Buffers(a, b)'
      BY <2>1, <3>1 DEF Buffers
    <3>3. Budget(a, b)'
      BY <1>z, <2>1 DEF Budget, Behind, One
    <3> QED BY <3>2, <3>3
  <2> QED BY <2>3, <2>4
<1>19. CASE CaDown
  <2>1. Frames(<<>>, 0) /\ Len(<<>>) = 0
    BY FramesOfNone
  <2>2. Buffers(0, 0)'
    BY <1>19, <1>z, <2>1 DEF CaDown, tmVars, caVars, dutVars, linkVars, Buffers
  <2>3. Budget(0, 0)'
    BY <1>19, <1>z DEF CaDown, tmVars, caVars, dutVars, linkVars, Types, Budget, Behind, One
  <2> QED BY <2>2, <2>3
<1>20. CASE DutDown
  <2>1. Buffers(a, b)'
    BY <1>20 DEF DutDown, tmVars, caVars, dutVars, linkVars, Buffers
  <2>2. Len(dutIn') = 0
    BY <1>20 DEF DutDown
  <2>3. Budget(a, b)'
    BY <1>20, <1>z, <2>2 DEF DutDown, tmVars, caVars, dutVars, linkVars, Budget, Behind, One
  <2> QED BY <2>1, <2>3
<1>21. CASE Crash
  <2>1. Buffers(a, b)'
    BY <1>21, <1>z DEF Crash, tmVars, caVars, dutVars, linkVars, Buffers
  <2>2. Budget(a, b)'
    BY <1>21, <1>z, SMTT(30) DEF Crash, tmVars, caVars, dutVars, linkVars, Types, Buffers, Budget, Behind, One
  <2> QED BY <2>1, <2>2
<1> QED BY <1>0, <1>1, <1>2, <1>3, <1>4, <1>5, <1>6, <1>7, <1>8, <1>9, <1>10, <1>11, <1>12, <1>13,
          <1>14, <1>15, <1>16, <1>17, <1>18, <1>19, <1>20, <1>21 DEF Next, TM, CA, DUT, WTG

\* The invariant holds from the start and every step keeps it.
THEOREM LinkInvariant == Spec => []LinkInv
<1>1. Init => LinkInv
  <2> SUFFICES ASSUME Init PROVE LinkInv
    OBVIOUS
  <2>1. Types
    <3>1. tmUp \in BOOLEAN /\ knock \in BOOLEAN
      BY DEF Init
    <3>2. crashes \in 0 .. MaxCrashes /\ owed \in Nat /\ dutIn \in Seq(Kinds \ {"typo"})
      BY LinkAssumption DEF Init
    <3> QED BY <3>1, <3>2 DEF Init, Types, Sockets
  <2>2. Frames(<<>>, 0) /\ Len(<<>>) = 0
    BY FramesOfNone
  <2>3. Buffers(0, 0)
    BY <2>2 DEF Init, Buffers, MaxWords, EntryWords
  <2>4. Budget(0, 0)
    BY <2>2 DEF Init, Budget, Behind, One
  <2> QED BY <2>1, <2>3, <2>4 DEF LinkInv
<1>2. LinkInv /\ [Next]_vars => LinkInv'
  <2> SUFFICES ASSUME LinkInv, [Next]_vars PROVE LinkInv'
    OBVIOUS
  <2>1. Types'
    BY TypesKept DEF LinkInv
  <2>2. PICK a \in Nat, b \in Nat : Buffers(a, b) /\ Budget(a, b)
    BY DEF LinkInv
  <2>3. \E c, d \in Nat : Buffers(c, d)' /\ Budget(c, d)'
    BY <2>1, <2>2, LoadKept DEF LinkInv
  <2> QED BY <2>1, <2>3 DEF LinkInv
<1> QED BY <1>1, <1>2, PTL DEF Spec

\* The types, and what fills the buffers however often processes end: the link and the
\* agent's buffer hold one response for each process that ended and the one that is awaited
\* (ca/wfa_ca.c main, caCmdBuf[WFA_BUFF_8K]).
THEOREM TypeCorrect == Spec => []TypeOK
<1>1. LinkInv => TypeOK
  <2> SUFFICES ASSUME LinkInv PROVE TypeOK
    OBVIOUS
  <2>1. Types /\ MaxWords = 5 /\ crashes \in Nat
    BY LinkAssumption DEF LinkInv, Types, MaxWords, EntryWords
  <2>2. PICK a \in Nat, b \in Nat : Buffers(a, b) /\ Budget(a, b)
    BY DEF LinkInv
  <2>3. Len(dutIn) \in Nat /\ \A i \in 1 .. Len(dutIn) : dutIn[i] \in Kinds
    BY <2>1 DEF Types
  <2>4. a + b + owed + Len(dutIn) <= crashes + 1
    BY <2>1, <2>2, <2>3 DEF Budget, Behind, One, Types
  <2>5. a <= crashes + 1 /\ owed \in 0 .. crashes + 1 /\ Len(dutIn) <= crashes + 1
    BY <2>1, <2>3, <2>4 DEF Types
  <2>6. /\ toCa \in Words /\ caCmdBuf \in Words /\ Len(toCa) \in Nat
        /\ Len(toCa) <= 5 * a /\ Len(caCmdBuf) <= 1 + 5 * (crashes + 1)
    BY <2>1, <2>2 DEF Buffers, Frames, Words
  <2>7. /\ \A i \in 1 .. Len(toCa) : toCa[i] \in Nat \X Nat
        /\ \A i \in 1 .. Len(caCmdBuf) : caCmdBuf[i] \in Nat \X Nat
    BY <2>6, SMTT(30) DEF Words
  <2>8. Len(toCa) <= (crashes + 1) * MaxWords /\ Len(caCmdBuf) <= 1 + (crashes + 1) * MaxWords
    BY <2>1, <2>5, <2>6
  <2>9. {gCaSockfd, gSock, dutKnock, gxcSockfd} \subseteq Sockets
    BY <2>1 DEF Types
  <2> QED BY <2>1, <2>3, <2>5, <2>7, <2>8, <2>9 DEF Types, TypeOK
<1> QED BY <1>1, LinkInvariant, PTL

\* Between two responses the agent's buffer holds nothing but one zero, so that the next
\* response is read from its header (ca/wfa_ca.c, the loop over caCmdBuf).
THEOREM FramingStaysKept == Spec => []FramingKept
<1>1. LinkInv => FramingKept
  BY DEF LinkInv, Buffers, FramingKept
<1> QED BY <1>1, LinkInvariant, PTL

----------------------------------------------------------------------------
(* The service *)

\* The response that the command c calls for, when it calls for one.
Due(c) ==
  IF c = "send" THEN {SendReport} ELSE IF c \in Kinds \ {"typo"} THEN Responses(c) ELSE {}

\* The buffer holds no response, or only the one that is due.
Holds(buf, c) == Frames(buf, 0) \/ \E k \in Nat, r \in Due(c) : buf = Zeros(k) \o r

\* As long as no process has ended, what is on its way belongs to the command that is
\* awaited, and its answer has a connection to come back on.
Stage ==
  /\ awaiting \in Asked \cup {"none"}
  /\ crashes = 0 =>
       /\ caPc # "dying" /\ dutPc = "up"
       /\ gSock \in {"none", "open"} /\ dutKnock \in {"none", "open"} /\ gxcSockfd \in {"none", "open"}
       /\ tmUp => knock \/ gCaSockfd = "open"
       /\ awaiting # "none" => tmUp /\ (caIn # "none" \/ gCaSockfd = "open")
       /\ caIn \in {"none", awaiting}
       /\ caPc = "refuse" => awaiting = "typo"
       /\ dutIn # <<>> => dutIn = <<awaiting>>
       /\ owed > 0 => awaiting = "send"
       /\ toCa # <<>> => toCa \in Due(awaiting)
       /\ Holds(caCmdBuf, awaiting)

\* Nothing before words.
LEMMA NothingBefore == \A b \in Words : <<>> \o b = b /\ Zeros(0) \o b = b
<1> SUFFICES ASSUME NEW b \in Words PROVE <<>> \o b = b /\ Zeros(0) \o b = b
  OBVIOUS
<1>1. Zeros(0) = <<>>
  BY DEF Zeros
<1> QED BY <1>1, ConcatEmptySeq DEF Words

\* The first words of a TLV: its tag and length, and what its value starts with.
LEMMA TLVStarts ==
  ASSUME NEW tag \in Nat, NEW value \in Words, Len(value) # 0, NEW k \in Nat
  PROVE  /\ TLV(tag, value) \o Zeros(k) \in Words
         /\ Head(TLV(tag, value) \o Zeros(k)) = <<tag, Len(value)>>
         /\ (TLV(tag, value) \o Zeros(k))[2] = value[1]
<1> DEFINE head == <<<<tag, Len(value)>>>>
           t == TLV(tag, value)
           d == t \o Zeros(k)
<1>1. /\ Zeros(k) \in Words /\ Len(Zeros(k)) = k /\ Len(value) \in Nat
      /\ head \in Words /\ Len(head) = 1 /\ head[1] = <<tag, Len(value)>>
  <2>1. Zeros(k) \in Words /\ Len(Zeros(k)) = k
    BY FramesOfZeros
  <2>2. Len(value) \in Nat
    BY DEF Words
  <2>3. head \in Words
    BY <2>2 DEF Words
  <2> QED BY <2>1, <2>2, <2>3
<1>2. t = head \o value
  BY DEF TLV
<1> HIDE DEF head, t
<1>3. t \in Words /\ Len(t) = 1 + Len(value)
  <2>1. t \in Words /\ Len(t) = Len(head) + Len(value)
    BY <1>1, <1>2, WordsConcat
  <2> QED BY <2>1, <1>1
<1>4. t[1] = <<tag, Len(value)>> /\ t[2] = value[1]
  <2>1. \A j \in 1 .. Len(head) : t[j] = head[j]
    BY <1>1, <1>2, WordsConcat
  <2>2. \A j \in 1 .. Len(value) : t[Len(head) + j] = value[j]
    BY <1>1, <1>2, WordsConcat
  <2>3. 1 \in 1 .. Len(head) /\ 1 \in 1 .. Len(value) /\ Len(head) + 1 = 2
    BY <1>1
  <2>4. t[1] = head[1]
    BY <2>1, <2>3
  <2>5. t[Len(head) + 1] = value[1]
    BY <2>2, <2>3
  <2> QED BY <2>3, <2>4, <2>5, <1>1
<1>5. d \in Words /\ Len(d) = Len(t) + Len(Zeros(k)) /\ \A j \in 1 .. Len(t) : d[j] = t[j]
  BY <1>1, <1>3, WordsConcat
<1>6. 1 \in 1 .. Len(t) /\ 2 \in 1 .. Len(t)
  BY <1>1, <1>3
<1>7. d[1] = t[1] /\ d[2] = t[2]
  BY <1>5, <1>6
<1>8. d # <<>>
  BY <1>1, <1>3, <1>5, FramesOfZeros
<1> HIDE DEF d
<1>9. Head(d) = d[1]
  BY <1>5, <1>8 DEF Words
<1> QED BY <1>4, <1>5, <1>7, <1>9 DEF d, t

\* What the handlers make of a response by its tag and its first words.
LEMMA AnswerByTag ==
  ASSUME NEW r
  PROVE  /\ Head(r)[1] = CONFIG_RESP /\ r[2][1] = COMPLETE => AnswerOf(r) = "COMPLETE"
         /\ Head(r)[1] = RECV_START_RESP => AnswerOf(r) = Generic(r[2][1])
         /\ Head(r)[1] \in {SEND_RESP, RECV_STOP_RESP} => AnswerOf(r) = OfEntries(r)
         /\ Head(r)[2] = 2 => OfEntries(r) = IF r[2][1] = COMPLETE THEN "COMPLETE" ELSE "ERROR"
         /\ Head(r)[2] = 1 => OfEntries(r) = "COMPLETE"
<1>0. /\ CONFIG_RESP \notin {RECV_START_RESP, SEND_RESP, RECV_STOP_RESP}
      /\ RECV_START_RESP \notin {SEND_RESP, RECV_STOP_RESP}
  BY DEF CONFIG_RESP, RECV_START_RESP, SEND_RESP, RECV_STOP_RESP
<1>1. Head(r)[1] = CONFIG_RESP /\ r[2][1] = COMPLETE => AnswerOf(r) = "COMPLETE"
  BY <1>0, Zenon DEF AnswerOf
<1>2. Head(r)[1] = RECV_START_RESP => AnswerOf(r) = Generic(r[2][1])
  BY <1>0, Zenon DEF AnswerOf
<1>3. Head(r)[1] \in {SEND_RESP, RECV_STOP_RESP} => AnswerOf(r) = OfEntries(r)
  BY DEF AnswerOf, CONFIG_RESP, RECV_START_RESP, SEND_RESP, RECV_STOP_RESP
<1>4. Head(r)[2] = 2 => OfEntries(r) = IF r[2][1] = COMPLETE THEN "COMPLETE" ELSE "ERROR"
  <2>1. 2 \div 2 = 1 /\ \A i \in 1 .. 1 : 2 + (i - 1) * 2 = 2
    OBVIOUS
  <2> QED BY <2>1 DEF OfEntries, EntryWords
<1>5. Head(r)[2] = 1 => OfEntries(r) = "COMPLETE"
  <2>1. 1 \div 2 = 0
    OBVIOUS
  <2> QED BY <2>1 DEF OfEntries, EntryWords
<1> QED BY <1>1, <1>2, <1>3, <1>4, <1>5

\* The response that is due has a handler, which says what is promised of the command.
LEMMA DueIsPromised ==
  ASSUME NEW c \in Asked, c # "typo", NEW r \in Due(c), r # <<>>
  PROVE  r \in Words /\ HasHandler(Head(r)[1]) /\ AnswerOf(r) \in Promised[c]
<1>1. c \in Kinds
  BY LinkAssumption
<1>2. ASSUME NEW tag \in Nat, NEW value \in Words, Len(value) # 0
      PROVE  /\ TLV(tag, value) \in Words /\ Head(TLV(tag, value)) = <<tag, Len(value)>>
             /\ TLV(tag, value)[2] = value[1]
  <2>1. TLV(tag, value) \in Words
    BY WordsConcat DEF TLV, Words
  <2>2. TLV(tag, value) \o Zeros(0) = TLV(tag, value)
    BY <2>1, NothingBehind
  <2>3. 0 \in Nat /\ Len(value) # 0
    BY <1>2
  <2>4. /\ Head(TLV(tag, value) \o Zeros(0)) = <<tag, Len(value)>>
        /\ (TLV(tag, value) \o Zeros(0))[2] = value[1]
    BY <2>3, TLVStarts
  <2> QED BY <2>1, <2>2, <2>4
<1>3. ASSUME c = "config" PROVE r \in Words /\ Head(r) = <<4, 2>> /\ r[2][1] = COMPLETE
  <2>1. r = TLV(4, Entry(1)) /\ Entry(1) \in Words /\ Len(Entry(1)) = 2 /\ 2 # 0 /\ Entry(1)[1][1] = COMPLETE
    BY <1>3 DEF Kinds, Due, Responses, CONFIG_RESP, Entry, Words, COMPLETE
  <2> QED BY <2>1, <1>2
<1>4. ASSUME c = "recvStart" PROVE r \in Words /\ Head(r) = <<6, 1>> /\ r[2][1] = COMPLETE
  <2>1. r = TLV(6, Status(4)) /\ Status(4) \in Words /\ Len(Status(4)) = 1 /\ 1 # 0 /\ Status(4)[1][1] = COMPLETE
    BY <1>4 DEF Kinds, Due, Responses, RECV_START_RESP, Status, Words, COMPLETE
  <2> QED BY <2>1, <1>2
<1>5. ASSUME c = "send" PROVE r \in Words /\ Head(r) = <<5, 2>> /\ r[2][1] = COMPLETE
  <2>1. r = TLV(5, Entry(1)) /\ Entry(1) \in Words /\ Len(Entry(1)) = 2 /\ 2 # 0 /\ Entry(1)[1][1] = COMPLETE
    BY <1>5 DEF Due, SendReport, SEND_RESP, Entry, Words, COMPLETE
  <2> QED BY <2>1, <1>2
<1>6. ASSUME c = "sendBad" PROVE r \in Words /\ Head(r) = <<5, 1>>
  <2>1. r = TLV(5, Status(2)) /\ Status(2) \in Words /\ Len(Status(2)) = 1 /\ 1 # 0
    BY <1>6 DEF Kinds, Due, Responses, SEND_RESP, INVALID, Status, Words
  <2> QED BY <2>1, <1>2
<1>7. ASSUME c = "recvStop" PROVE r \in Words /\ Head(r) = <<7, 2>> /\ r[2][1] = COMPLETE
  <2>1. r = TLV(7, Entry(1)) /\ Entry(1) \in Words /\ Len(Entry(1)) = 2 /\ 2 # 0 /\ Entry(1)[1][1] = COMPLETE
    BY <1>7 DEF Kinds, Due, Responses, RECV_STOP_RESP, Entry, Words, COMPLETE
  <2> QED BY <2>1, <1>2
<1>8. ASSUME c = "recvStopBad" PROVE r \in Words /\ Head(r) = <<7, 2>> /\ r[2][1] # COMPLETE
  <2> DEFINE value == <<Zero, Zero>>
  <2>1. r = TLV(7, value) \o Zeros(2)
    BY <1>8 DEF Kinds, Due, Responses, RECV_STOP_RESP, EntryWords
  <2>2. value \in Words /\ Len(value) = 2 /\ 2 \in Nat /\ 7 \in Nat /\ Len(value) # 0 /\ value[1] = Zero
    BY DEF Zero, Words
  <2> HIDE DEF value
  <2>3. r \in Words /\ Head(r) = <<7, 2>> /\ r[2] = Zero
    BY <2>1, <2>2, TLVStarts, ZenonT(60)
  <2> QED BY <2>3 DEF Zero, COMPLETE
<1>9. c # "recvStartBad"
  BY DEF Kinds, Due, Responses
<1> USE DEF CONFIG_RESP, SEND_RESP, RECV_START_RESP, RECV_STOP_RESP
<1>10. CASE c = "config"
  BY <1>3, <1>10, AnswerByTag DEF Promised, HasHandler
<1>11. CASE c = "recvStart"
  <2>1. AnswerOf(r) = "COMPLETE"
    <3>1. Generic(COMPLETE) = "COMPLETE"
      <4>1. COMPLETE # ERROR
        BY DEF COMPLETE, ERROR
      <4> QED BY <4>1, Zenon DEF Generic
    <3> QED BY <3>1, <1>4, <1>11, AnswerByTag
  <2> QED BY <1>4, <1>11, <2>1 DEF Promised, HasHandler
<1>12. CASE c \in {"send", "recvStop"}
  BY <1>5, <1>7, <1>12, AnswerByTag DEF Promised, HasHandler
<1>13. CASE c = "sendBad"
  BY <1>6, <1>13, AnswerByTag DEF Promised, HasHandler
<1>14. CASE c = "recvStopBad"
  BY <1>8, <1>14, AnswerByTag DEF Promised, HasHandler
<1> QED BY <1>1, <1>9, <1>10, <1>11, <1>12, <1>13, <1>14 DEF Kinds

\* Zeros are taken off one by one.
LEMMA RestOfZeros ==
  ASSUME NEW k \in Nat, k > 0, NEW r \in Words
  PROVE  /\ Head(Zeros(k) \o r) = Zero
         /\ Rest(Zeros(k) \o r) = Zeros(k - 1) \o r
<1> DEFINE d == Zeros(k) \o r
           e == Zeros(k - 1) \o r
<1>1. /\ Zeros(k) \in Words /\ Len(Zeros(k)) = k /\ k - 1 \in Nat
      /\ Zeros(k - 1) \in Words /\ Len(Zeros(k - 1)) = k - 1
  BY FramesOfZeros
<1>2. (\A j \in 1 .. k : Zeros(k)[j] = Zero) /\ \A j \in 1 .. k - 1 : Zeros(k - 1)[j] = Zero
  BY DEF Zeros
<1>3. /\ d \in Words /\ Len(d) = k + Len(r) /\ Len(r) \in Nat
      /\ \A j \in 1 .. k : d[j] = Zeros(k)[j]
      /\ \A j \in 1 .. Len(r) : d[k + j] = r[j]
  <2>1. /\ d \in Words /\ Len(d) = Len(Zeros(k)) + Len(r) /\ Len(r) \in Nat
        /\ \A j \in 1 .. Len(Zeros(k)) : d[j] = Zeros(k)[j]
        /\ \A j \in 1 .. Len(r) : d[Len(Zeros(k)) + j] = r[j]
    BY <1>1, WordsConcat
  <2> QED BY <2>1, <1>1
<1>4. /\ e \in Words /\ Len(e) = k - 1 + Len(r)
      /\ \A j \in 1 .. k - 1 : e[j] = Zeros(k - 1)[j]
      /\ \A j \in 1 .. Len(r) : e[k - 1 + j] = r[j]
  <2>1. /\ e \in Words /\ Len(e) = Len(Zeros(k - 1)) + Len(r)
        /\ \A j \in 1 .. Len(Zeros(k - 1)) : e[j] = Zeros(k - 1)[j]
        /\ \A j \in 1 .. Len(r) : e[Len(Zeros(k - 1)) + j] = r[j]
    BY <1>1, WordsConcat
  <2> QED BY <2>1, <1>1
<1> HIDE DEF d, e
<1>5. Head(d) = Zero
  <2>1. 1 \in 1 .. k /\ d # <<>>
    BY <1>3
  <2>2. Head(d) = d[1]
    BY <1>3, <2>1 DEF Words
  <2> QED BY <1>2, <1>3, <2>1, <2>2
<1>6. Rest(d) = SubSeq(d, 1 + 1, Len(d))
  BY <1>5 DEF Rest, Zero
<1>7. /\ Rest(d) \in Words /\ Len(Rest(d)) = Len(d) - 1
      /\ \A j \in 1 .. Len(d) - 1 : Rest(d)[j] = d[1 + j]
  <2>1. 1 \in 1 .. Len(d)
    BY <1>3
  <2> QED BY <1>3, <1>6, <2>1, WordsFrom, ZenonT(60)
<1>8. ASSUME NEW j \in 1 .. Len(d) - 1 PROVE Rest(d)[j] = e[j]
  <2>1. Rest(d)[j] = d[1 + j]
    BY <1>7
  <2>2. CASE j <= k - 1
    <3>1. j \in 1 .. k - 1 /\ 1 + j \in 1 .. k
      BY <1>3, <2>2
    <3> QED BY <3>1, <2>1, <1>2, <1>3, <1>4
  <2>3. CASE j > k - 1
    <3>1. j - (k - 1) \in 1 .. Len(r) /\ k + (j - (k - 1)) = 1 + j /\ k - 1 + (j - (k - 1)) = j
      BY <1>3, <2>3
    <3>2. d[k + (j - (k - 1))] = r[j - (k - 1)] /\ e[k - 1 + (j - (k - 1))] = r[j - (k - 1)]
      BY <3>1, <1>3, <1>4
    <3> QED BY <3>1, <3>2, <2>1
  <2> QED BY <2>2, <2>3, <1>3
<1>9. Rest(d) = e
  <2>1. Len(Rest(d)) = Len(e) /\ Len(d) - 1 = Len(e)
    BY <1>3, <1>4, <1>7
  <2> QED BY <1>4, <1>7, <1>8, <2>1, SeqEqual DEF Words
<1> QED BY <1>5, <1>9 DEF d, e

\* Zeros that the agent skips leave the response that is due.
LEMMA SkipHolds ==
  ASSUME NEW buf, NEW c \in Asked \cup {"none"}, Holds(buf, c), Complete(buf), ~HasHandler(Head(buf)[1])
  PROVE  Holds(Rest(buf), c)
<1>1. CASE Frames(buf, 0)
  BY <1>1, FrameParse DEF Holds
<1>2. ASSUME NEW k \in Nat, NEW r \in Due(c), buf = Zeros(k) \o r PROVE Holds(Rest(buf), c)
  <2>1. c \in Asked /\ c # "typo"
    BY <1>2, LinkAssumption DEF Due, Kinds
  <2>2. r \in Words
    BY <2>1, DueIsPromised, FramesOfNone
  <2>3. CASE k = 0
    <3>1. buf = r
      BY <1>2, <2>2, <2>3, NothingBefore
    <3>2. r # <<>>
      BY <3>1 DEF Complete
    <3> QED BY <2>1, <3>1, <3>2, DueIsPromised
  <2>4. CASE k > 0
    <3>1. Rest(Zeros(k) \o r) = Zeros(k - 1) \o r
      BY <2>2, <2>4, RestOfZeros
    <3>2. Rest(buf) = Zeros(k - 1) \o r /\ k - 1 \in Nat
      BY <1>2, <2>4, <3>1
    <3> QED BY <3>2 DEF Holds
  <2> QED BY <2>3, <2>4
<1> QED BY <1>1, <1>2 DEF Holds

\* As long as no process has ended there is one thing on its way at most.
Single ==
  /\ caIn # "none" =>
       awaiting # "none" /\ caPc # "refuse" /\ dutIn = <<>> /\ owed = 0 /\ toCa = <<>> /\ Frames(caCmdBuf, 0)
  /\ caPc = "refuse" =>
       awaiting # "none" /\ dutIn = <<>> /\ owed = 0 /\ toCa = <<>> /\ Frames(caCmdBuf, 0)
  /\ dutIn # <<>> => awaiting # "none" /\ Len(dutIn) = 1 /\ owed = 0 /\ toCa = <<>> /\ Frames(caCmdBuf, 0)
  /\ owed # 0 => awaiting # "none" /\ owed = 1 /\ toCa = <<>> /\ Frames(caCmdBuf, 0)
  /\ toCa # <<>> => awaiting # "none" /\ Frames(caCmdBuf, 0)
  /\ ~Frames(caCmdBuf, 0) => awaiting # "none" /\ caPc # "select" /\ Frames(caCmdBuf, 1)

\* What is on its way is counted, and the count leaves room for one.
LEMMA NothingElse == LinkInv /\ crashes = 0 => Single
<1> SUFFICES ASSUME LinkInv, crashes = 0 PROVE Single
  OBVIOUS
<1>1. PICK a \in Nat, b \in Nat : Buffers(a, b) /\ Budget(a, b)
  BY DEF LinkInv
<1>2. Len(dutIn) \in Nat /\ owed \in Nat /\ (dutIn # <<>> => Len(dutIn) > 0)
  BY DEF LinkInv, Types
<1>3. toCa # <<>> => a > 0
  <2>1. toCa \in Words /\ Len(toCa) <= 5 * a
    BY <1>1 DEF Buffers, Frames, MaxWords, EntryWords
  <2>2. toCa # <<>> => Len(toCa) \in Nat /\ Len(toCa) > 0
    BY <2>1 DEF Words
  <2> QED BY <2>1, <2>2
<1>4. (b = 0 => Frames(caCmdBuf, 0)) /\ (b = 1 => Frames(caCmdBuf, 1)) /\ (caPc = "select" => b = 0)
  BY <1>1 DEF Buffers
<1>5. a + b + owed + Len(dutIn) + One(caPc = "refuse") + One(caIn # "none") <= One(awaiting # "none")
  BY <1>1, <1>2 DEF Budget, Behind, One
<1>o. (\A p : One(p) \in {0, 1}) /\ (awaiting = "none" => One(awaiting # "none") = 0)
  BY DEF One
<1>6. caIn # "none" => caPc # "refuse" /\ Len(dutIn) = 0 /\ owed = 0 /\ a = 0 /\ b = 0 /\ awaiting # "none"
  BY <1>2, <1>5 DEF One
<1>7. caPc = "refuse" => Len(dutIn) = 0 /\ owed = 0 /\ a = 0 /\ b = 0 /\ awaiting # "none"
  BY <1>2, <1>5 DEF One
<1>8. Len(dutIn) > 0 => Len(dutIn) = 1 /\ owed = 0 /\ a = 0 /\ b = 0 /\ awaiting # "none"
  <2>1. PICK l \in Nat : l = Len(dutIn)
    BY <1>2
  <2>2. a + b + owed + l + One(caPc = "refuse") + One(caIn # "none") <= One(awaiting # "none")
    BY <1>5, <2>1
  <2>3. l > 0 => l = 1 /\ owed = 0 /\ a = 0 /\ b = 0 /\ awaiting # "none"
    BY <1>2, <1>o, <2>2
  <2> QED BY <2>1, <2>3
<1>9. owed > 0 => owed = 1 /\ a = 0 /\ b = 0 /\ awaiting # "none"
  BY <1>2, <1>5, <1>o
<1>10. (a > 0 => b = 0 /\ awaiting # "none") /\ (b > 0 => b = 1 /\ awaiting # "none")
  BY <1>2, <1>5 DEF One
<1>11. toCa = <<>> \/ a > 0
  BY <1>3
<1>12. dutIn = <<>> \/ Len(dutIn) > 0
  BY <1>2
<1>13. (owed = 0 \/ owed > 0) /\ (b = 0 \/ b > 0)
  BY <1>2
<1> QED BY <1>4, <1>6, <1>7, <1>8, <1>9, <1>10, <1>11, <1>12, <1>13 DEF Single

\* Every step keeps what is on its way with the command it belongs to.
LEMMA StageKept == ASSUME Types, Types', Single, Stage, [Next]_vars PROVE Stage'
<1>1. "none" \notin Kinds /\ "typo" # "none" /\ "send" # "none" /\ Asked \subseteq Kinds
  BY LinkAssumption DEF Kinds
<1>2. crashes \in Nat /\ owed \in Nat
  BY LinkAssumption DEF Types
<1>3. \A buf, c : Frames(buf, 0) => Holds(buf, c)
  BY DEF Holds
<1>0. CASE UNCHANGED vars
  BY <1>0 DEF vars, tmVars, caVars, dutVars, linkVars, Stage
<1>4. CASE Connect
  BY <1>4, <1>1, <1>2, <1>3 DEF Connect, tmVars, caVars, dutVars, linkVars, Types, Single, Stage
<1>5. CASE Disconnect
  BY <1>5, <1>1, <1>2, <1>3
     DEF Disconnect, Hangup, Closed, tmVars, caVars, dutVars, linkVars, Types, Single, Stage
<1>6. CASE \E c \in Asked : Ask(c)
  <2>1. PICK c \in Asked : Ask(c)
    BY <1>6
  <2> QED BY <2>1, <1>1, <1>2, <1>3 DEF Ask, tmVars, caVars, dutVars, linkVars, Types, Single, Stage
<1>7. CASE GiveUp
  <2>1. CASE crashes = 0
    <3>1. tmUp /\ Quiet
      BY <1>7, <2>1 DEF GiveUp, Stage
    <3>2. caPc = "select" /\ caIn = "none" /\ dutIn = <<>> /\ toCa = <<>> /\ owed = 0
      BY <3>1 DEF Quiet
    <3>3. Frames(caCmdBuf, 0)
      BY <3>2 DEF Single
    <3> QED BY <1>7, <1>3, <2>1, <3>2, <3>3 DEF GiveUp, Hangup, tmVars, caVars, dutVars, linkVars, Stage
  <2>2. CASE crashes # 0
    BY <1>7, <2>2 DEF GiveUp, Hangup, tmVars, caVars, dutVars, linkVars, Stage
  <2> QED BY <2>1, <2>2
<1>8. CASE CaAccept
  BY <1>8, <1>1, <1>2, <1>3 DEF CaAccept, tmVars, caVars, dutVars, linkVars, Types, Single, Stage
<1>9. CASE CaEof
  BY <1>9, <1>1, <1>2, <1>3 DEF CaEof, AtSelect, tmVars, caVars, dutVars, linkVars, Types, Single, Stage
<1>10. CASE CaForward
  <2>1. CASE crashes = 0
    <3>1. /\ caPc = "select" /\ caIn # "none" /\ caIn = awaiting /\ dutIn = <<>> /\ owed = 0 /\ toCa = <<>>
          /\ tmUp /\ gCaSockfd = "open" /\ gSock \in {"none", "open"} /\ Frames(caCmdBuf, 0)
      BY <1>10, <2>1 DEF CaForward, CaRead, AtSelect, Stage, Single
    <3>2. gCaSockfd' = "open" /\ caIn' = "none" /\ gSock' \in {"none", "open"} /\ caPc' = "select"
      BY <1>10, <3>1 DEF CaForward, CaRead, AfterSend, Kills
    <3>3. dutIn' \in {<<>>, <<awaiting>>}
      BY <1>10, <3>1 DEF CaForward
    <3> QED BY <1>10, <1>3, <2>1, <3>1, <3>2, <3>3
      DEF CaForward, tmVars, caVars, dutVars, linkVars, Stage
  <2>2. CASE crashes # 0
    BY <1>10, <2>2 DEF CaForward, tmVars, caVars, dutVars, linkVars, Stage
  <2> QED BY <2>1, <2>2
<1>11. CASE CaReject
  BY <1>11, <1>1, <1>2, <1>3
     DEF CaReject, CaRead, AtSelect, AfterSend, tmVars, caVars, dutVars, linkVars, Types, Single, Stage
<1>12. CASE CaRefuse
  BY <1>12, <1>1, <1>2, <1>3
     DEF CaRefuse, CaSays, Hears, AfterSend, Kills, tmVars, caVars, dutVars, linkVars, Types, Single, Stage
<1>13. CASE CaRecv
  <2>1. toCa # <<>> /\ toCa' = <<>> /\ caPc' = "parse" /\ UNCHANGED <<awaiting, crashes>>
    BY <1>13 DEF CaRecv, tmVars, caVars, dutVars, linkVars
  <2>2. crashes = 0 => Holds(caCmdBuf', awaiting')
    <3>1. caCmdBuf' = Zeros(Len(caCmdBuf)) \o toCa
      BY <1>13 DEF CaRecv
    <3>2. crashes = 0 => toCa \in Due(awaiting) /\ caCmdBuf \in Words
      BY <2>1 DEF Stage, Single, Frames
    <3>3. crashes = 0 => Len(caCmdBuf) \in Nat
      BY <3>2 DEF Words
    <3> QED BY <3>1, <3>2, <3>3, <2>1 DEF Holds
  <2> QED BY <1>13, <1>2, <2>1, <2>2 DEF CaRecv, tmVars, caVars, dutVars, linkVars, Stage
<1>14. CASE CaRecvEof
  BY <1>14, <1>1, <1>2, <1>3
     DEF CaRecvEof, AtSelect, tmVars, caVars, dutVars, linkVars, Types, Single, Stage
<1>15. CASE CaParse
  <2>1. CASE crashes # 0
    BY <1>15, <2>1 DEF CaParse, CaSays, Hears, tmVars, caVars, dutVars, linkVars, Stage
  <2>2. CASE crashes = 0 /\ ~Complete(caCmdBuf)
    <3>1. caPc' = "select" /\ UNCHANGED <<caCmdBuf, awaiting, gCaSockfd>>
      BY <1>15, <2>2 DEF CaParse
    <3> QED BY <1>15, <2>2, <3>1 DEF CaParse, tmVars, caVars, dutVars, linkVars, Stage
  <2>3. CASE crashes = 0 /\ Complete(caCmdBuf) /\ ~HasHandler(Head(caCmdBuf)[1])
    <3>1. caCmdBuf' = Rest(caCmdBuf) /\ UNCHANGED <<awaiting, gCaSockfd, caPc>>
      BY <1>15, <2>3 DEF CaParse
    <3>2. Holds(Rest(caCmdBuf), awaiting)
      BY <2>3, SkipHolds DEF Stage
    <3> QED BY <1>15, <2>3, <3>1, <3>2 DEF CaParse, tmVars, caVars, dutVars, linkVars, Stage
  <2>4. CASE crashes = 0 /\ Complete(caCmdBuf) /\ HasHandler(Head(caCmdBuf)[1])
    <3>1. ~Frames(caCmdBuf, 0)
      <4>1. Frames(caCmdBuf, 0) => 0 > 0
        BY <2>4, FrameParse
      <4> QED BY <4>1
    <3>2. /\ awaiting # "none" /\ caIn = "none" /\ dutIn = <<>> /\ owed = 0 /\ toCa = <<>> /\ caPc = "parse"
          /\ gCaSockfd = "open"
      BY <1>15, <2>4, <3>1 DEF CaParse, Single, Stage
    <3>3. /\ caCmdBuf' = Rest(caCmdBuf) /\ caPc' = "parse" /\ awaiting' = "none" /\ gCaSockfd' = "open"
          /\ UNCHANGED <<tmUp, knock, caIn, gSock, dutKnock, dutIn, toCa, gxcSockfd, dutPc, owed, crashes>>
      BY <1>15, <2>4, <3>2
         DEF CaParse, CaSays, Hears, AfterSend, Kills, tmVars, caVars, dutVars, linkVars
    <3>4. Frames(Rest(caCmdBuf), 0)
      <4>1. Frames(Rest(caCmdBuf), 1 - 1)
        BY <2>4, <3>1, FrameParse DEF Single
      <4> QED BY <4>1
    <3> QED BY <1>3, <2>4, <3>2, <3>3, <3>4 DEF Stage
  <2> QED BY <2>1, <2>2, <2>3, <2>4
<1>16. CASE CaStart
  BY <1>16, <1>1, <1>2, <1>3 DEF CaStart, tmVars, caVars, dutVars, linkVars, Types, Single, Stage
<1>17. CASE DutAccept
  BY <1>17, <1>1, <1>2, <1>3 DEF DutAccept, tmVars, caVars, dutVars, linkVars, Types, Single, Stage
<1>18. CASE DutEof
  BY <1>18, <1>1, <1>2, <1>3 DEF DutEof, tmVars, caVars, dutVars, linkVars, Types, Single, Stage
<1>19. CASE DutStart
  BY <1>19, <1>1, <1>2, <1>3 DEF DutStart, tmVars, caVars, dutVars, linkVars, Types, Single, Stage
<1>20. CASE DutHandle
  <2>1. CASE crashes # 0
    BY <1>20, <2>1 DEF DutHandle, tmVars, caVars, dutVars, linkVars, Stage
  <2>2. CASE crashes = 0
    <3>1. PICK words \in Responses(awaiting) : DutSays(words)
      BY <1>20, <2>2 DEF DutHandle, Stage
    <3>2. /\ dutIn' = <<>> /\ owed' = (IF awaiting = "send" THEN 1 ELSE 0)
          /\ UNCHANGED <<awaiting, tmUp, knock, caIn, caPc, gCaSockfd, gSock, caCmdBuf, dutKnock, crashes>>
      BY <1>20, <2>2 DEF DutHandle, tmVars, caVars, dutVars, linkVars, Single, Stage
    <3>3. toCa = <<>> /\ gxcSockfd \in {"none", "open"} /\ caIn = "none" /\ caPc # "refuse"
      BY <1>20, <2>2 DEF DutHandle, Single, Stage
    <3>a. awaiting \in Kinds \ {"typo"}
      BY <1>20, <2>2 DEF DutHandle, Types, Stage
    <3>4. toCa' \in {<<>>, words} /\ gxcSockfd' = gxcSockfd /\ dutPc' = dutPc
      <4>1. words \in Words
        <5>1. Answer(words)
          BY <3>1, <3>a, ResponsesAreAnswers
        <5> QED BY <5>1, FramesOfNone DEF Answer, Frames
      <4>2. <<>> \o words = words
        BY <4>1, NothingBefore
      <4> QED BY <3>1, <3>3, <4>2 DEF DutSays, AfterSend, Kills
    <3>5. words # <<>> => words \in Due(awaiting)
      BY <3>1, <3>a DEF Due, Responses
    <3> QED BY <2>2, <3>2, <3>3, <3>4, <3>5 DEF Stage
  <2> QED BY <2>1, <2>2
<1>21. CASE DutDeferred
  <2>1. CASE crashes # 0
    BY <1>21, <2>1 DEF DutDeferred, tmVars, caVars, dutVars, linkVars, Stage
  <2>2. CASE crashes = 0
    <3>1. /\ awaiting = "send" /\ owed' = 0 /\ DutSays(SendReport) /\ toCa = <<>>
          /\ gxcSockfd \in {"none", "open"}
          /\ UNCHANGED <<awaiting, tmUp, knock, caIn, caPc, gCaSockfd, gSock, caCmdBuf, dutKnock, dutIn, crashes>>
      BY <1>2, <1>21, <2>2 DEF DutDeferred, tmVars, caVars, dutVars, linkVars, Single, Stage
    <3>2. toCa' \in {<<>>, SendReport} /\ gxcSockfd' = gxcSockfd /\ dutPc' = dutPc
      <4>1. <<>> \o SendReport = SendReport
        <5>1. SendReport \in Words
          BY ResponsesAreAnswers, FramesOfNone DEF Answer, Frames
        <5> QED BY <5>1, NothingBefore
      <4> QED BY <3>1, <4>1 DEF DutSays, AfterSend, Kills
    <3>3. SendReport \in Due(awaiting)
      BY <3>1 DEF Due
    <3> QED BY <2>2, <3>1, <3>2, <3>3 DEF Stage
  <2> QED BY <2>1, <2>2
<1>22. CASE CaDown
  BY <1>22, <1>1, <1>2, <1>3 DEF CaDown, tmVars, caVars, dutVars, linkVars, Types, Single, Stage
<1>23. CASE DutDown
  BY <1>23, <1>1, <1>2, <1>3 DEF DutDown, tmVars, caVars, dutVars, linkVars, Types, Single, Stage
<1>24. CASE Crash
  BY <1>24, <1>1, <1>2, <1>3 DEF Crash, tmVars, caVars, dutVars, linkVars, Types, Single, Stage
<1> QED BY <1>0, <1>4, <1>5, <1>6, <1>7, <1>8, <1>9, <1>10, <1>11, <1>12, <1>13, <1>14, <1>15,
          <1>16, <1>17, <1>18, <1>19, <1>20, <1>21, <1>22, <1>23, <1>24 DEF Next, TM, CA, DUT, WTG

\* What the agent says of a response is promised of the command that is awaited.
LEMMA HeldIsPromised ==
  ASSUME NEW buf, NEW c \in Asked \cup {"none"}, Holds(buf, c), ~Frames(buf, 0),
         Complete(buf), HasHandler(Head(buf)[1])
  PROVE  c \in Asked /\ AnswerOf(buf) \in Promised[c]
<1>1. PICK k \in Nat, r \in Due(c) : buf = Zeros(k) \o r
  BY DEF Holds
<1>2. c \in Asked /\ c # "typo"
  BY <1>1, LinkAssumption DEF Due, Kinds
<1>3. r \in Words
  BY <1>1, <1>2, DueIsPromised, FramesOfNone
<1>4. k = 0
  <2> SUFFICES ASSUME k > 0 PROVE FALSE
    BY <1>1
  <2>1. Head(Zeros(k) \o r) = Zero
    BY <1>1, <1>3, RestOfZeros
  <2>2. Head(buf) = Zero /\ Zero[1] = 0
    BY <2>1, <1>1 DEF Zero
  <2> QED BY <2>2 DEF HasHandler
<1>5. buf = r /\ r # <<>>
  <2>1. buf = r
    BY <1>1, <1>3, <1>4, NothingBefore
  <2> QED BY <2>1 DEF Complete
<1> QED BY <1>1, <1>2, <1>5, DueIsPromised

\* As long as no process has ended, every step asks a command, gives the awaited one an
\* answer that is promised of it, or changes nothing that the test manager sees.
LEMMA StepServes ==
  ASSUME Types, Single, Stage, crashes = 0, [Next]_vars
  PROVE  [Service!Next]_(Service!vars) \/ (GiveUp /\ Deadline /\ Quiet)
<1> USE DEF Service!vars
<1>0. CASE UNCHANGED vars
  BY <1>0 DEF vars, tmVars
<1>1. CASE \E c \in Asked : Ask(c)
  BY <1>1 DEF Ask, Service!Next, Service!Ask
<1>2. CASE GiveUp
  BY <1>2 DEF GiveUp, Stage
<1>3. CASE CaRefuse
  <2>1. awaiting = "typo" /\ gCaSockfd = "open" /\ awaiting \in Asked
    BY <1>3 DEF CaRefuse, Stage, Single
  <2>2. awaiting # "none" /\ awaiting' = "none" /\ last' = "INVALID"
    BY <1>3, <2>1 DEF CaRefuse, CaSays, Hears
  <2>3. Promised[awaiting] = {"INVALID"}
    BY <2>1 DEF Promised
  <2> QED BY <2>2, <2>3 DEF Service!Next, Service!Answer
<1>4. CASE CaParse
  <2>1. CASE ~(Complete(caCmdBuf) /\ HasHandler(Head(caCmdBuf)[1]))
    BY <1>4, <2>1 DEF CaParse
  <2>2. CASE Complete(caCmdBuf) /\ HasHandler(Head(caCmdBuf)[1])
    <3>1. ~Frames(caCmdBuf, 0)
      <4>1. Frames(caCmdBuf, 0) => 0 > 0
        BY <2>2, FrameParse
      <4> QED BY <4>1
    <3>2. awaiting # "none" /\ caIn = "none" /\ gCaSockfd = "open"
      BY <3>1 DEF Single, Stage
    <3>3. awaiting' = "none" /\ last' = AnswerOf(caCmdBuf)
      BY <1>4, <2>2, <3>2 DEF CaParse, CaSays, Hears
    <3>4. AnswerOf(caCmdBuf) \in Promised[awaiting]
      BY <2>2, <3>1, HeldIsPromised DEF Stage
    <3> QED BY <3>2, <3>3, <3>4 DEF Service!Next, Service!Answer
  <2> QED BY <2>1, <2>2
<1>5. CASE CaAccept
  BY <1>5 DEF CaAccept, tmVars, caVars, dutVars, linkVars
<1>6. CASE CaEof
  BY <1>6 DEF CaEof, tmVars, caVars, dutVars, linkVars
<1>7. CASE CaForward
  BY <1>7 DEF CaForward, tmVars, caVars, dutVars, linkVars, CaRead
<1>8. CASE CaReject
  BY <1>8 DEF CaReject, tmVars, caVars, dutVars, linkVars, CaRead
<1>9. CASE CaRecv
  BY <1>9 DEF CaRecv, tmVars, caVars, dutVars, linkVars
<1>10. CASE CaRecvEof
  BY <1>10 DEF CaRecvEof, tmVars, caVars, dutVars, linkVars
<1>11. CASE DutAccept
  BY <1>11 DEF DutAccept, tmVars, caVars, dutVars, linkVars
<1>12. CASE DutEof
  BY <1>12 DEF DutEof, tmVars, caVars, dutVars, linkVars
<1>13. CASE DutHandle
  BY <1>13 DEF DutHandle, tmVars, caVars, dutVars, linkVars
<1>14. CASE DutDeferred
  BY <1>14 DEF DutDeferred, tmVars, caVars, dutVars, linkVars
<1>15. CASE CaDown
  BY <1>15 DEF CaDown, tmVars, caVars, dutVars, linkVars
<1>16. CASE CaStart
  BY <1>16 DEF CaStart, tmVars, caVars, dutVars, linkVars
<1>17. CASE DutDown
  BY <1>17 DEF DutDown, tmVars, caVars, dutVars, linkVars
<1>18. CASE DutStart
  BY <1>18 DEF DutStart, tmVars, caVars, dutVars, linkVars
<1>19. CASE Crash
  BY <1>19 DEF Crash, tmVars, caVars, dutVars, linkVars
<1>20. CASE Connect
  BY <1>20 DEF Connect, tmVars, caVars, dutVars, linkVars
<1>21. CASE Disconnect
  BY <1>21 DEF Disconnect, Hangup, tmVars, caVars, dutVars, linkVars
<1> QED BY <1>0, <1>1, <1>2, <1>3, <1>4, <1>5, <1>6, <1>7, <1>8, <1>9, <1>10, <1>11, <1>12, <1>13,
          <1>14, <1>15, <1>16, <1>17, <1>18, <1>19, <1>20, <1>21 DEF Next, TM, CA, DUT, WTG

\* A process that ended stays counted, and the test manager awaits what it asks.
LEMMA OnlyAsked ==
  ASSUME crashes \in Nat, awaiting \in Asked \cup {"none"}, [Next]_vars
  PROVE  crashes' >= crashes /\ crashes' \in Nat /\ awaiting' \in Asked \cup {"none"}
<1>0. CASE UNCHANGED vars
  BY <1>0 DEF vars, tmVars
<1>1. CASE Crash
  BY <1>1 DEF Crash, tmVars
<1>2. CASE TM
  BY <1>2 DEF TM, Connect, Disconnect, GiveUp, Hangup, Ask, tmVars
<1>3. CASE CA
  BY <1>3
     DEF CA, CaAccept, CaEof, CaForward, CaReject, CaRead, CaRefuse, CaRecv, CaRecvEof, CaParse, CaSays, Hears, tmVars
<1>4. CASE DUT \/ DutDeferred \/ WTG
  BY <1>4
     DEF DUT, DutAccept, DutEof, DutHandle, DutDeferred, WTG, CaDown, CaStart, DutDown, DutStart, tmVars
<1> QED BY <1>0, <1>1, <1>2, <1>3, <1>4 DEF Next

\* The invariant with what belongs to the awaited command.
LEMMA StageInvariant == Spec => [](LinkInv /\ Stage)
<1>1. Init => Stage
  <2> SUFFICES ASSUME Init PROVE Stage
    OBVIOUS
  <2>1. Holds(<<>>, "none")
    BY FramesOfNone DEF Holds
  <2> QED BY <2>1 DEF Init, Stage
<1>2. LinkInv /\ LinkInv' /\ Stage /\ [Next]_vars => Stage'
  <2> SUFFICES ASSUME LinkInv, LinkInv', Stage, [Next]_vars PROVE Stage'
    OBVIOUS
  <2>1. CASE crashes = 0
    BY <2>1, NothingElse, StageKept DEF LinkInv
  <2>2. CASE crashes # 0
    <3>1. crashes \in Nat
      BY LinkAssumption DEF LinkInv, Types
    <3>2. crashes' # 0 /\ awaiting' \in Asked \cup {"none"}
      BY <2>2, <3>1, OnlyAsked DEF Stage
    <3> QED BY <3>1, <3>2 DEF Stage
  <2> QED BY <2>1, <2>2
<1> QED BY <1>1, <1>2, LinkInvariant, PTL DEF Spec

\* Until a process ends the programs do what they promise of every command, and nothing
\* else, whatever is asked and with or without a deadline (ca/wfa_ca.c main, dut/wfa_dut.c
\* main, lib/wfa_ca_resp.c).
THEOREM ServedUntilCrash ==
  Spec => [][crashes = 0 => [Service!Next]_(Service!vars) \/ (GiveUp /\ Deadline /\ Quiet)]_vars
<1>1. LinkInv /\ Stage /\ [Next]_vars
        => [crashes = 0 => [Service!Next]_(Service!vars) \/ (GiveUp /\ Deadline /\ Quiet)]_vars
  BY NothingElse, StepServes DEF LinkInv
<1> QED BY <1>1, StageInvariant, PTL DEF Spec

\* Programs that do not end and a test manager that waits for every answer implement the
\* service, but for the promise that an answer comes at all.
THEOREM ServiceImplemented ==
  ASSUME MaxCrashes = 0, ~Deadline
  PROVE  Spec => Service!Init /\ [][Service!Next]_(Service!vars)
<1>1. Init => Service!Init
  BY DEF Init, Service!Init
<1>2. LinkInv /\ Stage /\ [Next]_vars => [Service!Next]_(Service!vars)
  <2> SUFFICES ASSUME LinkInv, Stage, [Next]_vars PROVE [Service!Next]_(Service!vars)
    OBVIOUS
  <2>1. crashes = 0
    BY DEF LinkInv, Types
  <2> QED BY <2>1, NothingElse, StepServes DEF LinkInv
<1> QED BY <1>1, <1>2, StageInvariant, PTL DEF Spec
=============================================================================
