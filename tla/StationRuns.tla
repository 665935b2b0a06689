----------------------------- MODULE StationRuns -----------------------------
(***************************************************************************)
(* Lemmas about what the steps of a handler do to the supplicant, the      *)
(* interface and the files, one after the other (Station!Run): what stays, *)
(* and which setting is in use when the network is on again.               *)
(***************************************************************************)
EXTENDS Station, WellFoundedInduction, SequenceTheorems, TLAPS

(* Handlers' steps, one after the other *)

\* Induction over the natural numbers, as a property of a set.
LEMMA Induction ==
  ASSUME NEW T, 0 \in T, \A n \in Nat : n \in T => n + 1 \in T
  PROVE  Nat \subseteq T
<1> SUFFICES ASSUME Nat \ T # {} PROVE FALSE
  OBVIOUS
<1>1. PICK m \in Nat \ T : \A n \in Nat \ T : ~(<<n, m>> \in OpToRel(<, Nat))
  <2> DEFINE R == OpToRel(<, Nat)
  <2>1. IsWellFoundedOn(R, Nat)
    BY NatLessThanWellFounded
  <2> HIDE DEF R
  <2>2. \E m \in Nat \ T : \A n \in Nat \ T : ~(<<n, m>> \in R)
    BY <2>1, WFMin
  <2> QED BY <2>2 DEF R
<1>2. CASE m = 0
  BY <1>1, <1>2
<1>3. CASE m # 0
  <2>0. m \in Nat
    BY <1>1
  <2>1. m - 1 \in Nat /\ m - 1 < m /\ (m - 1) + 1 = m
    BY <1>3, <2>0
  <2>2. <<m - 1, m>> \in OpToRel(<, Nat)
    BY <1>1, <2>1 DEF OpToRel
  <2>3. m - 1 \in T
    BY <1>1, <2>1, <2>2
  <2> QED BY <1>1, <2>1, <2>3
<1> QED BY <1>2, <1>3

\* The states that a run of steps goes through.
IsRun(h, s, steps) == h = [n \in 0 .. Len(steps) |-> IF n = 0 THEN s ELSE Apply(h[n - 1], steps[n])]

\* There is such a run, of the first steps and so of all of them, and it leads to Run.
LEMMA RunExists ==
  ASSUME NEW s, NEW steps, Len(steps) \in Nat
  PROVE  \E h : IsRun(h, s, steps) /\ Run(s, steps) = h[Len(steps)]
<1> DEFINE Prefix(h, m) == h = [n \in 0 .. m |-> IF n = 0 THEN s ELSE Apply(h[n - 1], steps[n])]
           T == {m \in Nat : \E h : Prefix(h, m)}
<1>1. 0 \in T
  <2>1. Prefix([n \in 0 .. 0 |-> s], 0)
    OBVIOUS
  <2> QED BY <2>1
<1>2. ASSUME NEW m \in Nat, m \in T PROVE m + 1 \in T
  <2>1. PICK h : Prefix(h, m)
    BY <1>2
  <2> DEFINE g == [n \in 0 .. m + 1 |-> IF n = m + 1 THEN Apply(h[m], steps[m + 1]) ELSE h[n]]
  <2>2. ASSUME NEW n \in 0 .. m + 1 PROVE g[n] = IF n = 0 THEN s ELSE Apply(g[n - 1], steps[n])
    <3>1. CASE n = m + 1
      <4>1. g[n] = Apply(h[m], steps[m + 1]) /\ n # 0 /\ n - 1 = m /\ g[m] = h[m]
        BY <3>1
      <4> QED BY <3>1, <4>1
    <3>2. CASE n # m + 1
      <4>1. n \in 0 .. m /\ g[n] = h[n] /\ h[n] = IF n = 0 THEN s ELSE Apply(h[n - 1], steps[n])
        BY <2>1, <3>2
      <4>2. n # 0 => n - 1 \in 0 .. m /\ n - 1 # m + 1 /\ g[n - 1] = h[n - 1]
        BY <4>1
      <4> HIDE DEF g
      <4> QED BY <4>1, <4>2
    <3> QED BY <3>1, <3>2
  <2>3. Prefix(g, m + 1)
    <3>1. g = [n \in 0 .. m + 1 |-> g[n]]
      OBVIOUS
    <3> HIDE DEF g
    <3> QED BY <2>2, <3>1
  <2> HIDE DEF g
  <2>4. \E k : Prefix(k, m + 1)
    <3> HIDE DEF Prefix
    <3> QED BY <2>3
  <2> QED BY <2>4
<1>3. Len(steps) \in T
  <2> HIDE DEF T
  <2> QED BY <1>1, <1>2, Induction
<1>4. \E h : IsRun(h, s, steps)
  BY <1>3 DEF IsRun
<1> DEFINE f == CHOOSE h : IsRun(h, s, steps)
<1>5. IsRun(f, s, steps)
  BY <1>4
<1>6. Run(s, steps) = f[Len(steps)]
  BY DEF Run, IsRun
<1> QED BY <1>5, <1>6

\* What each step makes of what the one before it left holds after the run.
LEMMA RunThrough ==
  ASSUME NEW J, NEW s \in J[0], NEW steps, Len(steps) \in Nat,
         \A j \in 1 .. Len(steps) : \A x \in J[j - 1] : Apply(x, steps[j]) \in J[j]
  PROVE  Run(s, steps) \in J[Len(steps)]
<1>1. PICK h : IsRun(h, s, steps) /\ Run(s, steps) = h[Len(steps)]
  BY RunExists
<1> DEFINE T == {n \in Nat : n <= Len(steps) => h[n] \in J[n]}
<1>2. 0 \in T
  BY <1>1 DEF IsRun
<1>3. ASSUME NEW n \in Nat, n \in T PROVE n + 1 \in T
  <2>1. CASE n + 1 <= Len(steps)
    <3>1. h[n] \in J[n] /\ n + 1 \in 0 .. Len(steps) /\ n + 1 \in 1 .. Len(steps) /\ (n + 1) - 1 = n
      BY <1>3, <2>1
    <3>2. h[n + 1] = Apply(h[n], steps[n + 1])
      BY <1>1, <3>1 DEF IsRun
    <3>3. Apply(h[n], steps[n + 1]) \in J[n + 1]
      BY <3>1
    <3> QED BY <3>2, <3>3
  <2> QED BY <2>1
<1>4. Len(steps) \in T
  <2> HIDE DEF T
  <2> QED BY <1>2, <1>3, Induction
<1> QED BY <1>1, <1>4

\* What every step keeps, the run keeps.
LEMMA RunKeeps ==
  ASSUME NEW J, NEW s \in J, NEW steps, Len(steps) \in Nat,
         \A x \in J : \A j \in 1 .. Len(steps) : Apply(x, steps[j]) \in J
  PROVE  Run(s, steps) \in J
<1> DEFINE F == [n \in Nat |-> J]
<1>1. /\ \A n \in Nat : F[n] = J
      /\ \A j \in 1 .. Len(steps) : F[j - 1] = J /\ F[j] = J
  OBVIOUS
<1> HIDE DEF F
<1>2. s \in F[0] /\ \A j \in 1 .. Len(steps) : \A x \in F[j - 1] : Apply(x, steps[j]) \in F[j]
  BY <1>1
<1>3. Run(s, steps) \in F[Len(steps)]
  BY <1>2, RunThrough
<1> QED BY <1>1, <1>3

\* No step, and one step.
LEMMA RunShort ==
  ASSUME NEW s, NEW e
  PROVE  Run(s, <<>>) = s /\ Run(s, <<e>>) = Apply(s, e)
<1>1. PICK h : IsRun(h, s, <<>>) /\ Run(s, <<>>) = h[Len(<<>>)]
  <2>1. Len(<<>>) \in Nat
    OBVIOUS
  <2> QED BY <2>1, RunExists
<1>2. PICK g : IsRun(g, s, <<e>>) /\ Run(s, <<e>>) = g[Len(<<e>>)]
  <2>1. Len(<<e>>) \in Nat
    OBVIOUS
  <2> QED BY <2>1, RunExists
<1>3. Run(s, <<>>) = s
  BY <1>1 DEF IsRun
<1>4. g[0] = s /\ g[1] = Apply(g[0], e)
  BY <1>2 DEF IsRun
<1>5. Len(<<e>>) = 1
  OBVIOUS
<1> QED BY <1>2, <1>3, <1>4, <1>5

\* The steps of two sequences, one behind the other.
LEMMA RunConcat ==
  ASSUME NEW s, NEW S, NEW t \in Seq(S), NEW u \in Seq(S)
  PROVE  Run(s, t \o u) = Run(Run(s, t), u)
<1>1. /\ Len(t) \in Nat /\ Len(u) \in Nat /\ Len(t \o u) = Len(t) + Len(u) /\ Len(t \o u) \in Nat
      /\ \A j \in 1 .. Len(t) : (t \o u)[j] = t[j]
      /\ \A j \in 1 .. Len(u) : (t \o u)[Len(t) + j] = u[j]
  <2>1. t \o u \in Seq(S) /\ Len(t \o u) = Len(t) + Len(u)
    BY ConcatProperties
  <2>2. \A j \in 1 .. Len(t) + Len(u) : (t \o u)[j] = IF j <= Len(t) THEN t[j] ELSE u[j - Len(t)]
    BY ConcatProperties
  <2>3. Len(t) \in Nat /\ Len(u) \in Nat
    OBVIOUS
  <2>4. ASSUME NEW j \in 1 .. Len(t) PROVE (t \o u)[j] = t[j]
    BY <2>2, <2>3
  <2>5. ASSUME NEW j \in 1 .. Len(u) PROVE (t \o u)[Len(t) + j] = u[j]
    <3>1. Len(t) + j \in 1 .. Len(t) + Len(u) /\ ~(Len(t) + j <= Len(t)) /\ (Len(t) + j) - Len(t) = j
      BY <2>3
    <3> QED BY <2>2, <3>1
  <2> QED BY <2>1, <2>3, <2>4, <2>5
<1>2. PICK h : IsRun(h, s, t \o u) /\ Run(s, t \o u) = h[Len(t \o u)]
  BY <1>1, RunExists
<1>3. PICK g : IsRun(g, s, t) /\ Run(s, t) = g[Len(t)]
  BY <1>1, RunExists
<1>4. PICK k : IsRun(k, Run(s, t), u) /\ Run(Run(s, t), u) = k[Len(u)]
  BY <1>1, RunExists
<1> DEFINE T == {n \in Nat : n <= Len(t) => h[n] = g[n]}
           U == {n \in Nat : n <= Len(u) => h[Len(t) + n] = k[n]}
<1>5. Len(t) \in T
  <2>1. 0 \in T
    BY <1>1, <1>2, <1>3 DEF IsRun
  <2>2. ASSUME NEW n \in Nat, n \in T PROVE n + 1 \in T
    <3>1. CASE n + 1 <= Len(t)
      <4>1. /\ h[n] = g[n] /\ n + 1 \in 0 .. Len(t) /\ n + 1 \in 1 .. Len(t) /\ n + 1 \in 0 .. Len(t \o u)
            /\ (n + 1) - 1 = n /\ n + 1 # 0
        BY <1>1, <2>2, <3>1
      <4>2. h[n + 1] = Apply(h[n], (t \o u)[n + 1])
        BY <1>2, <4>1 DEF IsRun
      <4>3. g[n + 1] = Apply(g[n], t[n + 1])
        BY <1>3, <4>1 DEF IsRun
      <4> QED BY <1>1, <4>1, <4>2, <4>3
    <3> QED BY <3>1
  <2> HIDE DEF T
  <2> QED BY <1>1, <2>1, <2>2, Induction
<1>6. Len(u) \in U
  <2>1. 0 \in U
    <3>1. h[Len(t)] = g[Len(t)]
      BY <1>1, <1>5
    <3>2. k[0] = Run(s, t)
      BY <1>1, <1>4 DEF IsRun
    <3> QED BY <1>1, <1>3, <3>1, <3>2
  <2>2. ASSUME NEW n \in Nat, n \in U PROVE n + 1 \in U
    <3>1. CASE n + 1 <= Len(u)
      <4>1. /\ h[Len(t) + n] = k[n] /\ n + 1 \in 0 .. Len(u) /\ n + 1 \in 1 .. Len(u) /\ n + 1 # 0
            /\ Len(t) + (n + 1) \in 0 .. Len(t \o u) /\ Len(t) + (n + 1) # 0
            /\ (n + 1) - 1 = n /\ (Len(t) + (n + 1)) - 1 = Len(t) + n
        BY <1>1, <2>2, <3>1
      <4>2. h[Len(t) + (n + 1)] = Apply(h[Len(t) + n], (t \o u)[Len(t) + (n + 1)])
        BY <1>2, <4>1 DEF IsRun
      <4>3. k[n + 1] = Apply(k[n], u[n + 1])
        BY <1>4, <4>1 DEF IsRun
      <4> QED BY <1>1, <4>1, <4>2, <4>3
    <3> QED BY <3>1
  <2> HIDE DEF U
  <2> QED BY <1>1, <2>1, <2>2, Induction
<1> QED BY <1>1, <1>2, <1>4, <1>6

(* What a run of steps does to the station *)

Wpas(V) == [set : [Settings -> V], used : [Settings -> V], enabled : BOOLEAN]
States(V) == [wpa : Wpas(V), up : BOOLEAN, files : Nat, e2efp : BOOLEAN, alive : BOOLEAN]

\* The steps of a handler for the interface i: those of the system, and the settings of
\* the supplicant's network.
SystemOps == {"reassociate", "down", "up", "open", "upload", "uploaded", "fault"}
SystemSteps(i) == {Step(op, i) : op \in SystemOps} \cup {Step(op, "none") : op \in SystemOps}
SetsOn(i, V) == {Set(i, k, v) : k \in Settings, v \in V}
SwitchesOn(i) == {Step("disable", i), Step("enable", i)}

\* The network is enabled and uses what it was told, but for what wfaStaSetEapSIM sets last.
InUse(w) ==
  /\ w.enabled
  /\ \A k \in Settings : w.used[k] # w.set[k] => k = "key_mgmt" /\ w.set.eap = "SIM"

\* The state r is s with at most the value of one key changed.
Changed(V, s, r, k, v) ==
  /\ r \in States(V) /\ r = [s EXCEPT !.wpa = r.wpa]
  /\ r.wpa.used = s.wpa.used /\ r.wpa.enabled = s.wpa.enabled
  /\ \A l \in Settings \ {k} : r.wpa.set[l] = s.wpa.set[l]
  /\ <<k, v>> \notin Rejected => r.wpa.set[k] = v

\* A setting changes one value, if the supplicant takes it.
LEMMA SetStep ==
  ASSUME NEW V, NEW s \in States(V), NEW k \in Settings, NEW v \in V
  PROVE  Changed(V, s, Apply(s, Set(WFA_STAUT_IF, k, v)), k, v)
<1> DEFINE e == Set(WFA_STAUT_IF, k, v)
           w == IF <<k, v>> \notin Rejected THEN [s.wpa EXCEPT !.set[k] = v] ELSE s.wpa
<1>1. /\ s.wpa \in Wpas(V) /\ s.wpa.set \in [Settings -> V]
      /\ s = [wpa |-> s.wpa, up |-> s.up, files |-> s.files, e2efp |-> s.e2efp, alive |-> s.alive]
  BY DEF States, Wpas
<1>2. Apply(s, e) = [s EXCEPT !.wpa = w]
  <2>1. e.op = "set" /\ e.intf = WFA_STAUT_IF /\ e.key = k /\ e.value = v
    BY DEF Set
  <2>2. Supplicant(s.wpa, e) = w
    BY <2>1 DEF Supplicant
  <2> HIDE DEF e, w
  <2> QED BY <2>1, <2>2 DEF Apply, SupplicantOps
<1>3. /\ w \in Wpas(V) /\ w.used = s.wpa.used /\ w.enabled = s.wpa.enabled
      /\ \A l \in Settings \ {k} : w.set[l] = s.wpa.set[l]
      /\ <<k, v>> \notin Rejected => w.set[k] = v
  BY <1>1 DEF Wpas
<1> HIDE DEF e, w
<1>4. [s EXCEPT !.wpa = w] \in States(V) /\ [s EXCEPT !.wpa = w].wpa = w
  BY <1>3 DEF States
<1> QED BY <1>2, <1>3, <1>4 DEF Changed, e

\* The state r is s but for what does not concern the supplicant and the interface.
Aside(V, s, r) == r \in States(V) /\ r.wpa = s.wpa /\ r.up = s.up

\* The steps on the process and its files leave supplicant and interface alone.
LEMMA FieldSteps ==
  ASSUME NEW V, NEW s \in States(V), NEW b \in BOOLEAN
  PROVE  /\ Aside(V, s, s)
         /\ Aside(V, s, [s EXCEPT !.alive = b])
         /\ Aside(V, s, [s EXCEPT !.files = s.files + 1]) /\ [s EXCEPT !.files = s.files + 1].alive = s.alive
         /\ Aside(V, s, [s EXCEPT !.e2efp = b]) /\ [s EXCEPT !.e2efp = b].alive = s.alive
<1>1. Aside(V, s, s)
  BY DEF Aside
<1>2. Aside(V, s, [s EXCEPT !.alive = b])
  BY DEF States, Aside
<1>3. Aside(V, s, [s EXCEPT !.files = s.files + 1]) /\ [s EXCEPT !.files = s.files + 1].alive = s.alive
  BY DEF States, Aside
<1>4. Aside(V, s, [s EXCEPT !.e2efp = b]) /\ [s EXCEPT !.e2efp = b].alive = s.alive
  BY DEF States, Aside
<1> QED BY <1>1, <1>2, <1>3, <1>4

\* A step on another interface does nothing to the station.
LEMMA ElsewhereStep ==
  ASSUME NEW V, NEW s \in States(V), NEW i, i # WFA_STAUT_IF,
         NEW e \in SystemSteps(i) \cup SetsOn(i, V) \cup SwitchesOn(i)
  PROVE  Aside(V, s, Apply(s, e))
<1>1. /\ s = [wpa |-> s.wpa, up |-> s.up, files |-> s.files, e2efp |-> s.e2efp, alive |-> s.alive]
      /\ s.wpa \in Wpas(V) /\ s.up \in BOOLEAN /\ s.files \in Nat /\ s.e2efp \in BOOLEAN /\ s.alive \in BOOLEAN
  BY DEF States
<1>2. e.intf # WFA_STAUT_IF
  BY DEF SystemSteps, SetsOn, SwitchesOn, Step, Set, WFA_STAUT_IF
<1>3. \/ Apply(s, e) = s
      \/ Apply(s, e) = [s EXCEPT !.alive = FALSE] \/ Apply(s, e) = [s EXCEPT !.files = s.files + 1]
      \/ Apply(s, e) = [s EXCEPT !.e2efp = TRUE] \/ Apply(s, e) = [s EXCEPT !.e2efp = FALSE]
  BY <1>2 DEF Apply, SupplicantOps
<1>4. /\ Aside(V, s, s) /\ Aside(V, s, [s EXCEPT !.alive = FALSE])
      /\ Aside(V, s, [s EXCEPT !.files = s.files + 1])
      /\ Aside(V, s, [s EXCEPT !.e2efp = TRUE]) /\ Aside(V, s, [s EXCEPT !.e2efp = FALSE])
  BY Zenon, FieldSteps
<1> QED BY Zenon, <1>3, <1>4

\* A step of the system leaves the network in use; only "down" takes the interface down,
\* and only a fault ends the process.
LEMMA SystemStep ==
  ASSUME NEW V, NEW s \in States(V), NEW i, NEW e \in SystemSteps(i)
  PROVE  LET r == Apply(s, e)
         IN  /\ r \in States(V)
             /\ InUse(s.wpa) => InUse(r.wpa)
             /\ s.up /\ e.op # "down" => r.up
             /\ s.alive /\ e.op # "fault" => r.alive
<1>1. /\ s = [wpa |-> s.wpa, up |-> s.up, files |-> s.files, e2efp |-> s.e2efp, alive |-> s.alive]
      /\ s.wpa \in Wpas(V) /\ s.up \in BOOLEAN /\ s.files \in Nat /\ s.e2efp \in BOOLEAN /\ s.alive \in BOOLEAN
  BY DEF States
<1>2. PICK op \in SystemOps, j \in {i, "none"} : e = Step(op, j)
  BY DEF SystemSteps
<1>3. e.op = op /\ e.intf = j
  BY <1>2 DEF Step
<1>4. CASE op = "reassociate"
  <2>1. Apply(s, e) = IF j # WFA_STAUT_IF THEN s ELSE [s EXCEPT !.wpa = Supplicant(s.wpa, e)]
    BY <1>3, <1>4 DEF Apply, SupplicantOps
  <2>2. Supplicant(s.wpa, e) = IF s.wpa.enabled THEN [s.wpa EXCEPT !.used = s.wpa.set] ELSE s.wpa
    BY <1>3, <1>4 DEF Supplicant
  <2>3. Supplicant(s.wpa, e) \in Wpas(V) /\ (InUse(s.wpa) => InUse(Supplicant(s.wpa, e)))
    BY <1>1, <2>2 DEF Wpas, InUse
  <2>4. /\ [s EXCEPT !.wpa = Supplicant(s.wpa, e)] \in States(V)
        /\ [s EXCEPT !.wpa = Supplicant(s.wpa, e)].wpa = Supplicant(s.wpa, e)
        /\ [s EXCEPT !.wpa = Supplicant(s.wpa, e)].up = s.up
        /\ [s EXCEPT !.wpa = Supplicant(s.wpa, e)].alive = s.alive
    BY <1>1, <2>3 DEF States
  <2> QED BY <1>1, <2>1, <2>3, <2>4
<1>5. CASE op \in {"down", "up"}
  <2>1. Apply(s, e) = IF j # WFA_STAUT_IF THEN s ELSE [s EXCEPT !.up = (op = "up")]
    BY <1>3, <1>5 DEF Apply, SupplicantOps
  <2>2. /\ [s EXCEPT !.up = (op = "up")] \in States(V) /\ [s EXCEPT !.up = (op = "up")].wpa = s.wpa
        /\ [s EXCEPT !.up = (op = "up")].alive = s.alive
        /\ op = "up" => [s EXCEPT !.up = (op = "up")].up
    BY <1>1 DEF States
  <2> QED BY <1>1, <1>3, <1>5, <2>1, <2>2
<1>6. CASE op \in {"open", "upload", "uploaded", "fault"}
  <2>1. \/ Apply(s, e) = [s EXCEPT !.alive = FALSE] /\ op = "fault"
        \/ Apply(s, e) = [s EXCEPT !.files = s.files + 1]
        \/ Apply(s, e) = [s EXCEPT !.e2efp = TRUE] \/ Apply(s, e) = [s EXCEPT !.e2efp = FALSE]
    BY <1>3, <1>6 DEF Apply, SupplicantOps
  <2>2. /\ Aside(V, s, [s EXCEPT !.alive = FALSE])
        /\ Aside(V, s, [s EXCEPT !.files = s.files + 1]) /\ [s EXCEPT !.files = s.files + 1].alive = s.alive
        /\ Aside(V, s, [s EXCEPT !.e2efp = TRUE]) /\ [s EXCEPT !.e2efp = TRUE].alive = s.alive
        /\ Aside(V, s, [s EXCEPT !.e2efp = FALSE]) /\ [s EXCEPT !.e2efp = FALSE].alive = s.alive
    BY Zenon, FieldSteps
  <2> DEFINE r == Apply(s, e)
  <2>3. Aside(V, s, r) /\ (r.alive = s.alive \/ op = "fault")
    BY Zenon, <2>1, <2>2
  <2> HIDE DEF r
  <2>4. /\ r \in States(V) /\ (InUse(s.wpa) => InUse(r.wpa)) /\ (s.up /\ e.op # "down" => r.up)
        /\ (s.alive /\ e.op # "fault" => r.alive)
    BY <1>3, <2>3 DEF Aside
  <2> QED BY <2>4 DEF r
<1> QED BY <1>4, <1>5, <1>6 DEF SystemOps

\* What is set takes effect when the network is enabled.
LEMMA SwitchStep ==
  ASSUME NEW V, NEW s \in States(V)
  PROVE  LET off == Apply(s, Step("disable", WFA_STAUT_IF))
             on  == Apply(s, Step("enable", WFA_STAUT_IF))
         IN  /\ off \in States(V) /\ off = [s EXCEPT !.wpa = off.wpa] /\ ~off.wpa.enabled
             /\ ~s.wpa.enabled => /\ on \in States(V) /\ on = [s EXCEPT !.wpa = on.wpa]
                                  /\ on.wpa.enabled /\ on.wpa.used = on.wpa.set /\ on.wpa.set = s.wpa.set
<1>1. /\ s = [wpa |-> s.wpa, up |-> s.up, files |-> s.files, e2efp |-> s.e2efp, alive |-> s.alive]
      /\ s.wpa \in Wpas(V)
  BY DEF States
<1> DEFINE d == Step("disable", WFA_STAUT_IF)
           e == Step("enable", WFA_STAUT_IF)
           v == [s.wpa EXCEPT !.enabled = FALSE]
           w == [s.wpa EXCEPT !.enabled = TRUE, !.used = s.wpa.set]
<1>2. d.op = "disable" /\ d.intf = WFA_STAUT_IF /\ e.op = "enable" /\ e.intf = WFA_STAUT_IF
  BY DEF Step
<1>3. Supplicant(s.wpa, d) = v /\ (~s.wpa.enabled => Supplicant(s.wpa, e) = w)
  BY <1>2 DEF Supplicant
<1>4. /\ v \in Wpas(V) /\ ~v.enabled
      /\ w \in Wpas(V) /\ w.enabled /\ w.used = w.set /\ w.set = s.wpa.set
  BY <1>1 DEF Wpas
<1> HIDE DEF d, e, v, w
<1>5. Apply(s, d) = [s EXCEPT !.wpa = v] /\ (~s.wpa.enabled => Apply(s, e) = [s EXCEPT !.wpa = w])
  BY <1>2, <1>3 DEF Apply, SupplicantOps
<1>6. /\ [s EXCEPT !.wpa = v] \in States(V) /\ [s EXCEPT !.wpa = v].wpa = v
      /\ [s EXCEPT !.wpa = w] \in States(V) /\ [s EXCEPT !.wpa = w].wpa = w
  BY <1>4 DEF States
<1> QED BY <1>4, <1>5, <1>6 DEF d, e

\* The steps on another interface do nothing to the station.
LEMMA RunElsewhere ==
  ASSUME NEW V, NEW s \in States(V), NEW i, i # WFA_STAUT_IF,
         NEW steps \in Seq(SystemSteps(i) \cup SetsOn(i, V) \cup SwitchesOn(i))
  PROVE  Aside(V, s, Run(s, steps))
<1> DEFINE J == {x \in States(V) : Aside(V, s, x)}
<1>1. Len(steps) \in Nat /\ \A j \in 1 .. Len(steps) : steps[j] \in SystemSteps(i) \cup SetsOn(i, V) \cup SwitchesOn(i)
  OBVIOUS
<1>2. ASSUME NEW x \in J, NEW j \in 1 .. Len(steps) PROVE Apply(x, steps[j]) \in J
  <2>1. Aside(V, x, Apply(x, steps[j]))
    BY <1>1, <1>2, ElsewhereStep
  <2> QED BY <1>2, <2>1 DEF Aside
<1>3. s \in J
  BY DEF Aside
<1> HIDE DEF J
<1>4. Run(s, steps) \in J
  BY <1>1, <1>2, <1>3, RunKeeps
<1> QED BY <1>4 DEF J

\* The steps that the handler of a command may do: only two take the interface down, and
\* only three may end the process.
Allowed(tag, i) ==
  {e \in SystemSteps(i) : (e.op = "down" => tag \in {31, 34}) /\ (e.op = "fault" => tag \in {37, 75, 88})}

\* What they leave.
AfterSystem(V, s, r, tag) ==
  /\ r \in States(V) /\ (InUse(s.wpa) => InUse(r.wpa))
  /\ s.up /\ tag \notin {31, 34} => r.up
  /\ s.alive /\ tag \notin {37, 75, 88} => r.alive

\* The steps of the system, one after the other.
LEMMA RunSystem ==
  ASSUME NEW V, NEW s \in States(V), NEW i, NEW tag, NEW steps \in Seq(Allowed(tag, i))
  PROVE  AfterSystem(V, s, Run(s, steps), tag)
<1> DEFINE J == {x \in States(V) : AfterSystem(V, s, x, tag)}
           S == Allowed(tag, i)
<1>1. Len(steps) \in Nat /\ \A j \in 1 .. Len(steps) : steps[j] \in S
  <2> HIDE DEF S
  <2> QED BY DEF S
<1>2. ASSUME NEW x \in J, NEW j \in 1 .. Len(steps) PROVE Apply(x, steps[j]) \in J
  <2>1. x \in States(V) /\ AfterSystem(V, s, x, tag)
    BY <1>2
  <2> DEFINE r == Apply(x, steps[j])
             e == steps[j]
  <2>2. /\ e \in SystemSteps(i) /\ (e.op = "down" => tag \in {31, 34})
        /\ e.op = "fault" => tag \in {37, 75, 88}
    BY <1>1, <1>2 DEF Allowed
  <2>3. /\ r \in States(V) /\ (InUse(x.wpa) => InUse(r.wpa))
        /\ (x.up /\ e.op # "down" => r.up) /\ (x.alive /\ e.op # "fault" => r.alive)
    BY <2>1, <2>2, SystemStep
  <2> HIDE DEF r, e
  <2>4. r \in States(V) /\ AfterSystem(V, s, r, tag)
    BY <2>1, <2>2, <2>3 DEF AfterSystem
  <2> QED BY <2>4 DEF r
<1>3. s \in J
  BY DEF AfterSystem
<1> HIDE DEF J
<1>4. Run(s, steps) \in J
  BY <1>1, <1>2, <1>3, RunKeeps
<1> QED BY <1>4 DEF J

\* Settings change what is set, and only for the keys they name.
LEMMA RunSets ==
  ASSUME NEW V, NEW s \in States(V), NEW settings \in Seq(SetsOn(WFA_STAUT_IF, V))
  PROVE  LET r == Run(s, settings)
         IN  /\ r \in States(V) /\ r = [s EXCEPT !.wpa = r.wpa]
             /\ r.wpa.used = s.wpa.used /\ r.wpa.enabled = s.wpa.enabled
             /\ \A k \in Settings : (\A j \in 1 .. Len(settings) : settings[j].key # k)
                                      => r.wpa.set[k] = s.wpa.set[k]
<1> DEFINE Kept == {k \in Settings : \A j \in 1 .. Len(settings) : settings[j].key # k}
           J == {x \in States(V) : /\ x = [s EXCEPT !.wpa = x.wpa]
                                /\ x.wpa.used = s.wpa.used /\ x.wpa.enabled = s.wpa.enabled
                                /\ \A k \in Kept : x.wpa.set[k] = s.wpa.set[k]}
<1>1. Len(settings) \in Nat /\ \A j \in 1 .. Len(settings) : settings[j] \in SetsOn(WFA_STAUT_IF, V)
  OBVIOUS
<1>2. ASSUME NEW x \in J, NEW j \in 1 .. Len(settings) PROVE Apply(x, settings[j]) \in J
  <2>1. PICK k \in Settings, v \in V : settings[j] = Set(WFA_STAUT_IF, k, v)
    BY <1>1 DEF SetsOn
  <2>2. \A l \in Kept : l \in Settings \ {k}
    BY <2>1 DEF Set
  <2>3. x \in States(V)
    BY <1>2
  <2> DEFINE r == Apply(x, settings[j])
  <2>4. Changed(V, x, r, k, v)
    BY <2>1, <2>3, SetStep
  <2> HIDE DEF r, Kept
  <2>5. [x EXCEPT !.wpa = r.wpa] = [s EXCEPT !.wpa = r.wpa]
    BY <1>2, <2>3 DEF States
  <2>6. r \in J
    BY <1>2, <2>2, <2>4, <2>5 DEF Changed
  <2> QED BY <2>6 DEF r
<1>3. Run(s, settings) \in J
  <2>1. s \in J
    BY DEF States
  <2> HIDE DEF J
  <2> QED BY <1>1, <1>2, <2>1, RunKeeps
<1> QED BY <1>3

\* A value that the supplicant takes is there when no later setting is for its key.
LEMMA LastSet ==
  ASSUME NEW V, NEW s \in States(V), NEW settings \in Seq(SetsOn(WFA_STAUT_IF, V)),
         NEW m \in 1 .. Len(settings), NEW k \in Settings, NEW v \in V,
         settings[m] = Set(WFA_STAUT_IF, k, v), <<k, v>> \notin Rejected,
         \A j \in 1 .. Len(settings) : j > m => settings[j].key # k
  PROVE  Run(s, settings).wpa.set[k] = v
<1> DEFINE K(n) == {x \in States(V) : n >= m => x.wpa.set[k] = v}
           J == [n \in Nat |-> K(n)]
<1>1. Len(settings) \in Nat /\ \A j \in 1 .. Len(settings) : settings[j] \in SetsOn(WFA_STAUT_IF, V)
  OBVIOUS
<1>2. ASSUME NEW j \in 1 .. Len(settings), NEW x \in K(j - 1) PROVE Apply(x, settings[j]) \in K(j)
  <2>1. PICK l \in Settings, w \in V : settings[j] = Set(WFA_STAUT_IF, l, w)
    BY <1>1 DEF SetsOn
  <2>2. x \in States(V) /\ (j - 1 >= m => x.wpa.set[k] = v)
    BY <1>2
  <2> DEFINE r == Apply(x, settings[j])
  <2>3. Changed(V, x, r, l, w)
    BY <2>1, <2>2, SetStep
  <2>4. j = m => l = k /\ w = v
    BY <2>1 DEF Set
  <2>5. j > m => l # k
    BY <2>1 DEF Set
  <2> HIDE DEF r
  <2>6. r \in States(V) /\ (j = m => r.wpa.set[k] = v) /\ (j > m => r.wpa.set[k] = x.wpa.set[k])
    BY <2>3, <2>4, <2>5 DEF Changed
  <2>7. r \in K(j)
    BY <1>1, <2>2, <2>6
  <2> QED BY <2>7 DEF r
<1>3. s \in K(0)
  OBVIOUS
<1> HIDE DEF K
<1>4. \A j \in 1 .. Len(settings) : J[j - 1] = K(j - 1) /\ J[j] = K(j)
  OBVIOUS
<1>5. J[0] = K(0) /\ J[Len(settings)] = K(Len(settings))
  BY <1>1
<1> HIDE DEF J
<1>6. Run(s, settings) \in J[Len(settings)]
  BY <1>1, <1>2, <1>3, <1>4, <1>5, RunThrough
<1> QED BY <1>1, <1>5, <1>6 DEF K

\* Two steps.
LEMMA RunTwo ==
  ASSUME NEW s, NEW a, NEW b
  PROVE  Run(s, <<a, b>>) = Apply(Apply(s, a), b)
<1>1. Len(<<a, b>>) = 2
  OBVIOUS
<1>2. PICK h : IsRun(h, s, <<a, b>>) /\ Run(s, <<a, b>>) = h[Len(<<a, b>>)]
  BY <1>1, RunExists
<1>3. h[0] = s /\ h[1] = Apply(h[0], a) /\ h[2] = Apply(h[1], b)
  BY <1>2 DEF IsRun
<1> QED BY <1>1, <1>2, <1>3

\* What is for another interface leaves everything as it is.
LEMMA RunOther ==
  ASSUME NEW V, NEW s, NEW i, i # WFA_STAUT_IF, NEW steps \in Seq(SetsOn(i, V) \cup SwitchesOn(i))
  PROVE  Run(s, steps) = s
<1> DEFINE S == SetsOn(i, V) \cup SwitchesOn(i)
<1>1. ASSUME NEW e \in S PROVE Apply(s, e) = s
  <2>1. e.intf = i /\ e.op \in {"set", "disable", "enable"}
    BY DEF SetsOn, SwitchesOn, Step, Set
  <2> QED BY <2>1 DEF Apply, SupplicantOps
<1> HIDE DEF S
<1>2. Len(steps) \in Nat /\ \A j \in 1 .. Len(steps) : steps[j] \in S
  BY DEF S
<1>3. Run(s, steps) \in {s}
  BY <1>1, <1>2, RunKeeps
<1> QED BY <1>3

\* The network is disabled, told its settings and enabled again, and then uses them.
LEMMA RunNetwork ==
  ASSUME NEW V, NEW s \in States(V), NEW settings \in Seq(SetsOn(WFA_STAUT_IF, V))
  PROVE  LET r == Run(s, Network(WFA_STAUT_IF, settings))
         IN  /\ r \in States(V) /\ r = [s EXCEPT !.wpa = r.wpa]
             /\ r.wpa.enabled /\ r.wpa.used = r.wpa.set
             /\ \E x \in States(V) : r.wpa.set = Run(x, settings).wpa.set
<1> DEFINE d == Step("disable", WFA_STAUT_IF)
           e == Step("enable", WFA_STAUT_IF)
           S == SetsOn(WFA_STAUT_IF, V) \cup SwitchesOn(WFA_STAUT_IF)
           x == Apply(s, d)
           y == Run(x, settings)
<1>1. d \in S /\ e \in S /\ settings \in Seq(S)
  BY DEF SwitchesOn
<1>2. /\ Network(WFA_STAUT_IF, settings) = (<<d>> \o settings) \o <<e>>
  BY DEF Network
<1>3. Run(s, Network(WFA_STAUT_IF, settings)) = Apply(y, e)
  <2> HIDE DEF d, e, S, x, y
  <2> DEFINE first == <<d>>
             last  == <<e>>
             t     == first \o settings
  <2>1. first \in Seq(S) /\ last \in Seq(S) /\ t \in Seq(S)
    BY <1>1
  <2>2. Run(s, first) = x /\ Run(Run(s, t), last) = Apply(Run(s, t), e)
    BY RunShort DEF x
  <2>3. Network(WFA_STAUT_IF, settings) = t \o last
    BY <1>2
  <2> HIDE DEF first, last
  <2>4. Run(s, t) = Run(Run(s, first), settings)
    BY <1>1, <2>1, RunConcat
  <2> HIDE DEF t
  <2>5. Run(s, t \o last) = Run(Run(s, t), last)
    BY <2>1, RunConcat
  <2> QED BY <2>2, <2>3, <2>4, <2>5 DEF y
<1>4. x \in States(V) /\ x = [s EXCEPT !.wpa = x.wpa] /\ ~x.wpa.enabled
  BY SwitchStep
<1>5. y \in States(V) /\ y = [x EXCEPT !.wpa = y.wpa] /\ ~y.wpa.enabled
  <2> HIDE DEF x
  <2> QED BY <1>4, RunSets
<1> HIDE DEF x, y
<1>6. LET r == Apply(y, e)
      IN  /\ r \in States(V) /\ r = [y EXCEPT !.wpa = r.wpa]
          /\ r.wpa.enabled /\ r.wpa.used = r.wpa.set /\ r.wpa.set = y.wpa.set
  BY <1>5, SwitchStep
<1> HIDE DEF d, e
<1>7. Apply(y, e) = [s EXCEPT !.wpa = Apply(y, e).wpa]
  BY <1>4, <1>5, <1>6 DEF States
<1> QED BY <1>3, <1>4, <1>6, <1>7 DEF y

\* What the network is told on an interface, between disabling and enabling it, leaves the
\* interface, the files and the process as they are.
Networked(V, s, r, i, settings) ==
  /\ r \in States(V) /\ r.up = s.up /\ r.alive = s.alive
  /\ i # WFA_STAUT_IF => r.wpa = s.wpa
  /\ i = WFA_STAUT_IF => /\ r.wpa.enabled /\ r.wpa.used = r.wpa.set
                         /\ \E x \in States(V) : r.wpa.set = Run(x, settings).wpa.set

\* The steps of a new network are steps of its interface: settings between a switch
\* off and a switch on.
LEMMA NetworkSteps ==
  ASSUME NEW V, NEW i, NEW settings \in Seq(SetsOn(i, V))
  PROVE  Network(i, settings) \in Seq(SetsOn(i, V) \cup SwitchesOn(i))
<1> DEFINE S == SetsOn(i, V) \cup SwitchesOn(i)
           d == Step("disable", i)
           e == Step("enable", i)
           steps == Network(i, settings)
           first == <<d>>
           last  == <<e>>
<1>1. d \in S /\ e \in S /\ SetsOn(i, V) \subseteq S
  BY DEF SwitchesOn
<1> HIDE DEF S
<1>2. first \in Seq(S) /\ last \in Seq(S) /\ settings \in Seq(S)
  BY <1>1
<1>3. steps = first \o settings \o last
  BY Zenon DEF Network
<1> HIDE DEF first, last, steps
<1>4. first \o settings \in Seq(S)
  BY <1>2
<1>5. steps \in Seq(S)
  BY <1>2, <1>3, <1>4
<1> QED BY <1>5 DEF steps, S

\* The same for the station's interface and for others.
LEMMA NetworkOf ==
  ASSUME NEW V, NEW s \in States(V), NEW i, NEW settings \in Seq(SetsOn(i, V))
  PROVE  /\ Networked(V, s, Run(s, Network(i, settings)), i, settings)
         /\ Network(i, settings) \in Seq(SetsOn(i, V) \cup SwitchesOn(i))
<1> DEFINE S == SetsOn(i, V) \cup SwitchesOn(i)
           steps == Network(i, settings)
<1>1. steps \in Seq(S)
  BY NetworkSteps
<1>2. CASE i = WFA_STAUT_IF
  <2> DEFINE r == Run(s, Network(WFA_STAUT_IF, settings))
  <2>1. settings \in Seq(SetsOn(WFA_STAUT_IF, V))
    BY <1>2
  <2>2. /\ r \in States(V) /\ r = [s EXCEPT !.wpa = r.wpa]
        /\ r.wpa.enabled /\ r.wpa.used = r.wpa.set
        /\ \E x \in States(V) : r.wpa.set = Run(x, settings).wpa.set
    BY <2>1, RunNetwork
  <2>3. Run(s, steps) = r
    BY <1>2
  <2> HIDE DEF r, steps
  <2>4. r.up = s.up /\ r.alive = s.alive
    BY <2>2 DEF States
  <2>5. Networked(V, s, r, i, settings)
    BY <1>2, <2>2, <2>4 DEF Networked
  <2> QED BY <1>1, <2>3, <2>5 DEF steps
<1>3. CASE i # WFA_STAUT_IF
  <2>1. Run(s, steps) = s
    <3> HIDE DEF steps
    <3> QED BY <1>1, <1>3, RunOther
  <2> HIDE DEF steps
  <2> QED BY <1>1, <1>3, <2>1 DEF Networked, steps
<1> QED BY <1>2, <1>3

(* The files that the steps open *)

\* The record that a run of steps is about.
IsState(s) == s = [wpa |-> s.wpa, up |-> s.up, files |-> s.files, e2efp |-> s.e2efp, alive |-> s.alive]

\* The steps that open a file, and what the others do to the files.
Opening == {"open", "upload"}
NoMore(s, r) == IsState(r) /\ r.files = s.files /\ (r.e2efp = s.e2efp \/ r.e2efp = FALSE)

\* A single step opens a file, or leaves no more open than before.
LEMMA OneStep ==
  ASSUME NEW s, IsState(s), NEW e
  PROVE  LET r == Apply(s, e)
         IN  /\ e.op \notin Opening => NoMore(s, r)
             /\ e.op = "open" => IsState(r) /\ r.files = s.files + 1 /\ r.e2efp = s.e2efp
             /\ e.op = "upload" => IsState(r) /\ r.files = s.files /\ r.e2efp = TRUE
<1> DEFINE r == Apply(s, e)
<1>1. CASE e.op = "open"
  <2>1. r = [s EXCEPT !.files = s.files + 1]
    BY <1>1 DEF Apply, SupplicantOps
  <2> HIDE DEF r
  <2>2. IsState(r) /\ r.files = s.files + 1 /\ r.e2efp = s.e2efp
    BY <2>1 DEF IsState
  <2> QED BY <1>1, <2>2 DEF Opening, r
<1>2. CASE e.op \in {"upload", "uploaded"}
  <2>1. r = [s EXCEPT !.e2efp = (e.op = "upload")]
    BY <1>2 DEF Apply, SupplicantOps
  <2> HIDE DEF r
  <2>2. IsState(r) /\ r.files = s.files /\ r.e2efp = (e.op = "upload")
    BY <2>1 DEF IsState
  <2> QED BY <1>2, <2>2 DEF Opening, NoMore, r
<1>3. CASE e.op = "fault"
  <2>1. r = [s EXCEPT !.alive = FALSE]
    BY <1>3 DEF Apply, SupplicantOps
  <2> HIDE DEF r
  <2>2. NoMore(s, r)
    BY <2>1 DEF IsState, NoMore
  <2> QED BY <1>3, <2>2 DEF Opening, r
<1>4. CASE e.op \notin {"open", "upload", "uploaded", "fault"}
  <2>1. r = s \/ r = [s EXCEPT !.up = (e.op = "up")] \/ r = [s EXCEPT !.wpa = Supplicant(s.wpa, e)]
    BY <1>4 DEF Apply, SupplicantOps
  <2> HIDE DEF r
  <2>2. NoMore(s, r)
    BY <2>1 DEF IsState, NoMore
  <2> QED BY <1>4, <2>2 DEF Opening, r
<1> QED BY <1>1, <1>2, <1>3, <1>4

\* If only the first step opens one, the others add nothing to it.
LEMMA RunAfterFirst ==
  ASSUME NEW s, IsState(s), NEW steps, Len(steps) \in Nat, Len(steps) # 0,
         \A j \in 2 .. Len(steps) : steps[j].op \notin Opening,
         IsState(Apply(s, steps[1]))
  PROVE  NoMore(Apply(s, steps[1]), Run(s, steps))
<1>1. PICK h : IsRun(h, s, steps) /\ Run(s, steps) = h[Len(steps)]
  BY RunExists
<1> DEFINE x == Apply(s, steps[1])
           T == {n \in Nat : n # 0 /\ n <= Len(steps) => NoMore(x, h[n])}
<1>2. 0 \in T
  OBVIOUS
<1>3. ASSUME NEW n \in Nat, n \in T PROVE n + 1 \in T
  <2>1. CASE n + 1 <= Len(steps) /\ n # 0
    <3>1. n + 1 \in 0 .. Len(steps) /\ n + 1 \in 2 .. Len(steps) /\ (n + 1) - 1 = n /\ NoMore(x, h[n])
      BY <1>3, <2>1
    <3>2. h[n + 1] = Apply(h[n], steps[n + 1])
      BY <1>1, <3>1 DEF IsRun
    <3>3. NoMore(h[n], Apply(h[n], steps[n + 1]))
      BY <3>1, OneStep DEF NoMore
    <3> HIDE DEF x
    <3>4. NoMore(x, h[n + 1])
      BY <3>1, <3>2, <3>3 DEF NoMore
    <3> QED BY <3>4
  <2>2. CASE n + 1 <= Len(steps) /\ n = 0
    <3>1. 1 \in 0 .. Len(steps) /\ 0 \in 0 .. Len(steps)
      BY <2>2
    <3>2. h[0] = s /\ h[1] = Apply(h[0], steps[1])
      BY <1>1, <3>1 DEF IsRun
    <3>3. h[1] = x
      BY <3>2
    <3> HIDE DEF x
    <3>4. NoMore(x, h[1])
      BY <3>3 DEF NoMore, x
    <3> QED BY <2>2, <3>4
  <2> QED BY <2>1, <2>2
<1>4. Len(steps) \in T
  <2> HIDE DEF T
  <2> QED BY <1>2, <1>3, Induction
<1> QED BY <1>1, <1>4
=============================================================================
