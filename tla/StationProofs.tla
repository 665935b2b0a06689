---------------------------- MODULE StationProofs ----------------------------
(***************************************************************************)
(* Proofs about Station, for every set of commands that are not those of   *)
(* the streams.  Effect is what a command does to the station, whatever    *)
(* its parameters and those it finds of an earlier one; StationInv relates *)
(* what the device and the agent hold to the last command.                 *)
(***************************************************************************)
EXTENDS StationCommands

(* What a command does to the station *)

\* The station r that the command with this tag and the parameters of d leaves of s,
\* and its response.
Effect(V, tag, d, s, r, resp) ==
  /\ r \in States(V)
  /\ InUse(s.wpa) => InUse(r.wpa)
  /\ s.up /\ tag # 34 => r.up
  /\ r.alive \/ tag \in {37, 75, 88}
  /\ Intf(d) # WFA_STAUT_IF => r.wpa = s.wpa /\ r.up = s.up
  /\ Answered(resp, tag) \/ (resp = <<>> /\ tag \in {37, 75, 88})

\* Most commands do nothing to the station.
LEMMA PlainEffect ==
  ASSUME NEW V, NEW tag \in PlainTags, NEW d, NEW s \in States(V), s.alive,
         NEW o \in gWfaCmdFuncTbl(tag, d)
  PROVE  Effect(V, tag, d, s, Run(s, o.steps), o.resp)
<1>1. o.steps = <<>> /\ Answered(o.resp, tag)
  BY PlainHandlers DEF Plain
<1>2. Run(s, o.steps) = s
  BY <1>1, RunShort
<1> QED BY <1>1, <1>2 DEF Effect

\* The others but for those that configure the network; wfaStaSetMode takes the interface
\* down and brings it up again.
LEMMA SystemEffect ==
  ASSUME NEW V, NEW tag \in SystemTags, NEW d, NEW s \in States(V), s.alive,
         NEW o \in gWfaCmdFuncTbl(tag, d)
  PROVE  Effect(V, tag, d, s, Run(s, o.steps), o.resp)
<1> DEFINE i == Intf(d)
           r == Run(s, o.steps)
<1>1. o.steps \in Seq(Allowed(tag, i)) /\ (Answered(o.resp, tag) \/ (o.resp = <<>> /\ tag \in {37, 75, 88}))
  BY SystemHandlers DEF SystemOutcome
<1>2. o.steps \in Seq(SystemSteps(i))
  <2> DEFINE S == Allowed(tag, i)
  <2>1. S \subseteq SystemSteps(i) /\ o.steps \in Seq(S)
    BY <1>1 DEF Allowed
  <2> HIDE DEF S
  <2> QED BY <2>1
<1>3. AfterSystem(V, s, r, tag)
  BY <1>1, RunSystem
<1>4. i # WFA_STAUT_IF => Aside(V, s, r)
  <2> SUFFICES ASSUME i # WFA_STAUT_IF PROVE Aside(V, s, r)
    OBVIOUS
  <2> DEFINE S == SystemSteps(i) \cup SetsOn(i, V) \cup SwitchesOn(i)
  <2>1. SystemSteps(i) \subseteq S
    OBVIOUS
  <2>2. o.steps \in Seq(S)
    <3> HIDE DEF S
    <3> QED BY <1>2, <2>1
  <2> QED BY <2>2, RunElsewhere
<1>5. tag = 31 /\ s.up => r.up
  <2> SUFFICES ASSUME tag = 31, s.up PROVE r.up
    OBVIOUS
  <2>1. o.steps = <<Step("down", i), Step("up", i)>>
    <3>1. o \in wfaStaSetMode(d)
      BY Rows
    <3> QED BY <3>1 DEF wfaStaSetMode, Does, Outcome
  <2> DEFINE a == Step("down", i)
             b == Step("up", i)
             x == Apply(s, a)
  <2>2. r = Apply(x, b)
    <3> HIDE DEF a, b
    <3> QED BY <2>1, RunTwo DEF a, b
  <2>3. x \in States(V)
    <3>1. a \in SystemSteps(i)
      BY DEF SystemSteps, SystemOps
    <3> QED BY <3>1, SystemStep
  <2>4. b.op = "up" /\ b.intf = i
    BY DEF Step
  <2>5. CASE i = WFA_STAUT_IF
    <3> HIDE DEF x, b
    <3>1. Apply(x, b) = [x EXCEPT !.up = TRUE]
      BY <2>4, <2>5 DEF Apply, SupplicantOps
    <3> QED BY <2>2, <2>3, <3>1 DEF States
  <2>6. CASE i # WFA_STAUT_IF
    BY <1>4, <2>6 DEF Aside
  <2> QED BY <2>5, <2>6
<1> HIDE DEF r
<1> QED BY <1>1, <1>3, <1>4, <1>5 DEF Effect, AfterSystem, Aside, r

\* Those that configure the network.
LEMMA NetworkEffect ==
  ASSUME NEW V, NEW tag \in NetworkTags, NEW d, Sayable(V, d), NEW s \in States(V), s.alive,
         NEW o \in gWfaCmdFuncTbl(tag, d)
  PROVE  Effect(V, tag, d, s, Run(s, o.steps), o.resp)
<1> DEFINE i == Intf(d)
           r == Run(s, o.steps)
<1>1. NetworkOutcome(V, tag, d, o)
  BY NetworkHandlers
<1>2. PICK t \in Seq(SetsOn(i, V)) : o.steps = Network(i, t)
  BY <1>1 DEF NetworkOutcome
<1>3. Networked(V, s, r, i, t)
  BY <1>2, NetworkOf
<1> HIDE DEF r
<1> QED BY <1>1, <1>3 DEF NetworkOutcome, Networked, Effect, InUse, r

\* wfaStaSetEapSIM, whose key management waits for the next command.
LEMMA SimEffect ==
  ASSUME NEW V, NEW d, Sayable(V, d), NEW s \in States(V), s.alive, NEW o \in gWfaCmdFuncTbl(24, d)
  PROVE  Effect(V, 24, d, s, Run(s, o.steps), o.resp)
<1> DEFINE i == Intf(d)
           S == SetsOn(i, V) \cup SwitchesOn(i)
           r == Run(s, o.steps)
           proto == <<Set(i, "proto", "WPA")>>
           t == Ssid(d) \o Method(i, "SIM") \o proto
           u == KeyMgmt(i, Type(d), FourTypes)
           x == Run(s, Network(i, t))
<1>1. /\ Answered(o.resp, 24) /\ o.steps = Network(i, t) \o u
      /\ t \in Seq(SetsOn(i, V)) /\ u \in Seq(SetsOn(i, V))
  BY SimHandler
<1>2. Networked(V, s, x, i, t) /\ Network(i, t) \in Seq(S)
  <2> HIDE DEF t
  <2> QED BY <1>1, NetworkOf
<1>3. u \in Seq(S)
  <2>1. SetsOn(i, V) \subseteq S
    OBVIOUS
  <2> HIDE DEF u, S
  <2> QED BY <1>1, <2>1
<1>4. r = Run(x, u)
  <2> DEFINE n == Network(i, t)
  <2> HIDE DEF n, u, S
  <2>1. Run(s, n \o u) = Run(Run(s, n), u)
    BY <1>2, <1>3, RunConcat DEF n
  <2> QED BY <1>1, <2>1 DEF n
<1>5. CASE i # WFA_STAUT_IF
  <2> HIDE DEF x, u, r
  <2>1. r = x
    BY <1>3, <1>4, <1>5, RunOther
  <2> QED BY <1>1, <1>2, <1>5, <2>1 DEF Networked, Effect, r
<1>6. CASE i = WFA_STAUT_IF
  <2>1. u \in Seq(SetsOn(WFA_STAUT_IF, V)) /\ t \in Seq(SetsOn(WFA_STAUT_IF, V))
    BY <1>1, <1>6
  <2>2. \A j \in 1 .. Len(u) : u[j].key = "key_mgmt"
    <3>1. u \in {<<>>, <<Set(i, "key_mgmt", "WPA-EAP")>>, <<Set(i, "key_mgmt", "WPA-FT")>>,
                 <<Set(i, "key_mgmt", "WPA-SHA256")>>}
      BY DEF KeyMgmt, FourTypes
    <3> HIDE DEF u
    <3> QED BY <3>1 DEF Set
  <2>3. ASSUME NEW y \in States(V) PROVE Run(y, t).wpa.set["eap"] = "SIM"
    <3>1. Len(t) = 4 /\ t[2] = Set(i, "eap", "SIM") /\ t[3].key = "credentials" /\ t[4].key = "proto"
      BY DEF Ssid, Method, Set
    <3>2. "eap" \in Settings /\ "SIM" \in V /\ <<"eap", "SIM">> \notin Rejected
      BY DEF Settings, Sayable, Literals, Rejected
    <3> HIDE DEF t
    <3>3. 2 \in 1 .. Len(t) /\ t[2] = Set(WFA_STAUT_IF, "eap", "SIM") /\ \A j \in 1 .. Len(t) : j > 2 => t[j].key # "eap"
      BY <1>6, <3>1
    <3> QED BY <2>1, <3>2, <3>3, LastSet
  <2> HIDE DEF x, u, t, r
  <2>4. /\ r \in States(V) /\ r = [x EXCEPT !.wpa = r.wpa]
        /\ r.wpa.used = x.wpa.used /\ r.wpa.enabled = x.wpa.enabled
        /\ \A k \in Settings : (\A j \in 1 .. Len(u) : u[j].key # k) => r.wpa.set[k] = x.wpa.set[k]
    <3>1. x \in States(V)
      BY <1>2 DEF Networked
    <3>2. LET q == Run(x, u)
          IN  /\ q \in States(V) /\ q = [x EXCEPT !.wpa = q.wpa]
              /\ q.wpa.used = x.wpa.used /\ q.wpa.enabled = x.wpa.enabled
              /\ \A k \in Settings : (\A j \in 1 .. Len(u) : u[j].key # k) => q.wpa.set[k] = x.wpa.set[k]
      BY SMTT(30), <2>1, <3>1, RunSets
    <3> QED BY Zenon, <1>4, <3>2
  <2>5. \A k \in Settings \ {"key_mgmt"} : r.wpa.set[k] = x.wpa.set[k]
    BY <2>2, <2>4
  <2>6. x.wpa.set["eap"] = "SIM" /\ "eap" \in Settings
    BY <1>2, <1>6, <2>3 DEF Networked, Settings
  <2>7. InUse(r.wpa)
    BY <1>2, <1>6, <2>4, <2>5, <2>6 DEF Networked, InUse
  <2>8. r.up = s.up /\ r.alive = s.alive
    BY <1>2, <2>4 DEF Networked, States
  <2> QED BY <1>1, <1>6, <2>4, <2>7, <2>8 DEF Effect, r
<1> QED BY <1>5, <1>6

\* Every command of the agent's table but sta_set_security, which has no tag.
LEMMA CommandEffect ==
  ASSUME NEW V, NEW tag \in Tags \ {0}, NEW d, Sayable(V, d), NEW s \in States(V), s.alive,
         NEW o \in gWfaCmdFuncTbl(tag, d)
  PROVE  Effect(V, tag, d, s, Run(s, o.steps), o.resp)
<1>1. tag \in PlainTags \cup SystemTags \cup NetworkTags \cup {24}
  BY DEF Tags, PlainTags, SystemTags, NetworkTags
<1> QED BY <1>1, PlainEffect, SystemEffect, NetworkEffect, SimEffect

(* What the security commands leave in use *)

\* A setting that the supplicant takes, with none for its key behind it, is in use when the
\* network is on again.
LEMMA Configures ==
  ASSUME NEW V, NEW s \in States(V), NEW t \in Seq(SetsOn(WFA_STAUT_IF, V)),
         NEW m \in 1 .. Len(t), NEW k \in Settings, NEW v \in V,
         t[m] = Set(WFA_STAUT_IF, k, v), <<k, v>> \notin Rejected,
         \A j \in 1 .. Len(t) : j > m => t[j].key # k
  PROVE  Run(s, Network(WFA_STAUT_IF, t)).wpa.used[k] = v
<1> DEFINE r == Run(s, Network(WFA_STAUT_IF, t))
<1>1. r.wpa.used = r.wpa.set /\ \E x \in States(V) : r.wpa.set = Run(x, t).wpa.set
  BY RunNetwork
<1> HIDE DEF r
<1>2. PICK x \in States(V) : r.wpa.set = Run(x, t).wpa.set
  BY <1>1
<1>3. Run(x, t).wpa.set[k] = v
  BY LastSet
<1> QED BY <1>1, <1>2, <1>3 DEF r

\* The network uses 802.1X with the method eap.
EapUsed(w, eap) == w.used["key_mgmt"] = "WPA-EAP" /\ w.used["eap"] = eap /\ w.used["credentials"] = eap

\* Settings among which m is the only key management, and the method is at n.
EapSettings(t, m, n, eap) ==
  /\ m \in 1 .. Len(t) /\ n \in 1 .. Len(t) /\ n + 1 \in 1 .. Len(t)
  /\ t[m] = Set(WFA_STAUT_IF, "key_mgmt", "WPA-EAP")
  /\ t[n] = Set(WFA_STAUT_IF, "eap", eap) /\ t[n + 1] = Set(WFA_STAUT_IF, "credentials", eap)
  /\ \A j \in 1 .. Len(t) : /\ j # m => t[j].key # "key_mgmt"
                            /\ j # n => t[j].key # "eap"
                            /\ j # n + 1 => t[j].key # "credentials"

\* With such settings it does, once the network is on again.
LEMMA EapConfigured ==
  ASSUME NEW V, Literals \subseteq V, NEW s \in States(V), NEW t \in Seq(SetsOn(WFA_STAUT_IF, V)),
         NEW eap \in {"TLS", "TTLS", "PEAP", "FAST", "AKA"}, NEW m, NEW n, EapSettings(t, m, n, eap)
  PROVE  EapUsed(Run(s, Network(WFA_STAUT_IF, t)).wpa, eap)
<1>1. /\ "key_mgmt" \in Settings /\ "eap" \in Settings /\ "credentials" \in Settings
      /\ "WPA-EAP" \in V /\ eap \in V
      /\ <<"key_mgmt", "WPA-EAP">> \notin Rejected /\ <<"eap", eap>> \notin Rejected
      /\ <<"credentials", eap>> \notin Rejected
  BY DEF Settings, Literals, Rejected
<1> DEFINE r == Run(s, Network(WFA_STAUT_IF, t))
<1>2. r.wpa.used["key_mgmt"] = "WPA-EAP"
  BY <1>1, Configures DEF EapSettings
<1>3. r.wpa.used["eap"] = eap
  BY <1>1, Configures DEF EapSettings
<1>4. r.wpa.used["credentials"] = eap
  BY <1>1, Configures DEF EapSettings
<1> HIDE DEF r
<1> QED BY <1>2, <1>3, <1>4 DEF EapUsed, r

\* A handler with one outcome.
LEMMA OneOutcome ==
  ASSUME NEW steps, NEW resp, NEW o \in Does(steps, resp)
  PROVE  o.steps = steps /\ o.resp = resp
  BY DEF Does, Outcome

EapTags == {20, 23, 25, 38, 39}
EapOfTag(tag) ==
  IF tag = 20 THEN "TLS" ELSE IF tag = 23 THEN "TTLS" ELSE IF tag = 25 THEN "PEAP" ELSE IF tag = 38 THEN "FAST" ELSE "AKA"

\* An EAP command of type wpa for the station's interface.
LEMMA EapEffect ==
  ASSUME NEW V, NEW tag \in EapTags, NEW d, Sayable(V, d), NEW s \in States(V),
         Intf(d) = WFA_STAUT_IF, Type(d) = "wpa", NEW o \in gWfaCmdFuncTbl(tag, d)
  PROVE  EapUsed(Run(s, o.steps).wpa, EapOfTag(tag))
<1> DEFINE i == WFA_STAUT_IF
           S == SetsOn(i, V)
           a == Set(i, "ssid", Parameter(d, "ssid"))
           b == Set(i, "key_mgmt", "WPA-EAP")
           c == Set(i, "proto", "WPA")
           c2 == Set(i, "proto", "WPA2")
           c3 == Set(i, "proto", "CCMP")
           e(x) == Set(i, "eap", x)
           f(x) == Set(i, "credentials", x)
           m(x) == <<e(x), f(x)>>
<1>1. /\ a \in S /\ b \in S /\ c \in S /\ c2 \in S /\ c3 \in S
      /\ \A x \in {"TLS", "TTLS", "PEAP", "FAST", "AKA"} : e(x) \in S /\ f(x) \in S
  BY DEF SetsOn, Sayable, Settings, Literals
<1>2. /\ Ssid(d) = <<a>>
      /\ KeyMgmt(i, Type(d), OnlyWpa) = <<b>> /\ KeyMgmt(i, Type(d), FourTypes) = <<b>>
      /\ \A x : Method(i, x) = m(x)
  BY DEF Ssid, KeyMgmt, OnlyWpa, FourTypes, Method
<1>3. /\ b.key = "key_mgmt" /\ a.key \notin {"key_mgmt", "eap", "credentials"}
      /\ c.key = "proto" /\ c2.key = "proto" /\ c3.key = "proto"
      /\ \A x : e(x).key = "eap" /\ f(x).key = "credentials"
  BY DEF Set
<1>4. Literals \subseteq V
  BY DEF Sayable
<1>5. CASE tag = 20
  <2> DEFINE t == <<a>> \o <<b>> \o <<c>> \o m("TLS")
  <2>1. o.steps = Network(i, t)
    <3> DEFINE u == Ssid(d) \o KeyMgmt(Intf(d), Type(d), OnlyWpa) \o <<Set(Intf(d), "proto", "WPA")>> \o Method(Intf(d), "TLS")
    <3>1. wfaStaSetEapTLS(d) = Does(Network(Intf(d), u), Complete(20))
      BY Zenon DEF wfaStaSetEapTLS
    <3>2. u = t
      BY <1>2
    <3> HIDE DEF t, u
    <3>3. o \in wfaStaSetEapTLS(d)
      BY <1>5, Rows
    <3>4. o.steps = Network(Intf(d), u)
      BY <3>1, <3>3, OneOutcome
    <3> QED BY <3>2, <3>4
  <2> HIDE DEF S, a, b, c, e, f
  <2>2. Len(t) = 5 /\ t[1] = a /\ t[2] = b /\ t[3] = c /\ t[4] = e("TLS") /\ t[5] = f("TLS")
    OBVIOUS
  <2>3. t \in Seq(S)
    BY <1>1
  <2> HIDE DEF t
  <2>4. EapSettings(t, 2, 4, "TLS")
    BY <1>3, <2>2 DEF EapSettings, b, e, f
  <2> QED BY <1>4, <1>5, <2>1, <2>3, <2>4, EapConfigured DEF S, EapOfTag
<1>6. CASE tag = 23
  <2> DEFINE t == <<a>> \o <<b>> \o m("TTLS") \o <<c>>
  <2>1. o.steps = Network(i, t)
    <3> DEFINE u == Ssid(d) \o <<Set(Intf(d), "key_mgmt", "WPA-EAP")>> \o Method(Intf(d), "TTLS") \o <<Set(Intf(d), "proto", "WPA")>>
    <3>1. wfaStaSetEapTTLS(d) = Does(Network(Intf(d), u), Complete(23))
      BY Zenon DEF wfaStaSetEapTTLS
    <3>2. u = t
      BY <1>2
    <3> HIDE DEF t, u
    <3>3. o \in wfaStaSetEapTTLS(d)
      BY <1>6, Rows
    <3>4. o.steps = Network(Intf(d), u)
      BY <3>1, <3>3, OneOutcome
    <3> QED BY <3>2, <3>4
  <2> HIDE DEF S, a, b, c, e, f
  <2>2. Len(t) = 5 /\ t[1] = a /\ t[2] = b /\ t[3] = e("TTLS") /\ t[4] = f("TTLS") /\ t[5] = c
    OBVIOUS
  <2>3. t \in Seq(S)
    BY <1>1
  <2> HIDE DEF t
  <2>4. EapSettings(t, 2, 3, "TTLS")
    BY <1>3, <2>2 DEF EapSettings, b, e, f
  <2> QED BY <1>4, <1>6, <2>1, <2>3, <2>4, EapConfigured DEF S, EapOfTag
<1>7. CASE tag = 25
  <2> DEFINE t == <<a>> \o m("PEAP") \o <<b>>
  <2>1. o.steps = Network(i, t)
    <3> DEFINE u == Ssid(d) \o Method(Intf(d), "PEAP") \o KeyMgmt(Intf(d), Type(d), FourTypes)
    <3>1. wfaStaSetPEAP(d) = Does(Network(Intf(d), u), Complete(25))
      BY Zenon DEF wfaStaSetPEAP
    <3>2. u = t
      BY <1>2
    <3> HIDE DEF t, u
    <3>3. o \in wfaStaSetPEAP(d)
      BY <1>7, Rows
    <3>4. o.steps = Network(Intf(d), u)
      BY <3>1, <3>3, OneOutcome
    <3> QED BY <3>2, <3>4
  <2> HIDE DEF S, a, b, c, e, f
  <2>2. Len(t) = 4 /\ t[1] = a /\ t[2] = e("PEAP") /\ t[3] = f("PEAP") /\ t[4] = b
    OBVIOUS
  <2>3. t \in Seq(S)
    BY <1>1
  <2> HIDE DEF t
  <2>4. EapSettings(t, 4, 2, "PEAP")
    BY <1>3, <2>2 DEF EapSettings, b, e, f
  <2> QED BY <1>4, <1>7, <2>1, <2>3, <2>4, EapConfigured DEF S, EapOfTag
<1>8. CASE tag = 38
  <2> DEFINE t == <<a>> \o <<b>> \o m("FAST")
  <2>1. o.steps = Network(i, t)
    <3> DEFINE u == Ssid(d) \o KeyMgmt(Intf(d), Type(d), OnlyWpa) \o Method(Intf(d), "FAST")
    <3>1. wfaStaSetEapFAST(d) = Does(Network(Intf(d), u), Complete(38))
      BY Zenon DEF wfaStaSetEapFAST
    <3>2. u = t
      BY <1>2
    <3> HIDE DEF t, u
    <3>3. o \in wfaStaSetEapFAST(d)
      BY <1>8, Rows
    <3>4. o.steps = Network(Intf(d), u)
      BY <3>1, <3>3, OneOutcome
    <3> QED BY <3>2, <3>4
  <2> HIDE DEF S, a, b, c, e, f
  <2>2. Len(t) = 4 /\ t[1] = a /\ t[2] = b /\ t[3] = e("FAST") /\ t[4] = f("FAST")
    OBVIOUS
  <2>3. t \in Seq(S)
    BY <1>1
  <2> HIDE DEF t
  <2>4. EapSettings(t, 2, 3, "FAST")
    BY <1>3, <2>2 DEF EapSettings, b, e, f
  <2> QED BY <1>4, <1>8, <2>1, <2>3, <2>4, EapConfigured DEF S, EapOfTag
<1>9. CASE tag = 39
  <2> DEFINE t == <<a>> \o <<b>> \o <<c2, c3>> \o m("AKA")
  <2>1. o.steps = Network(i, t)
    <3> DEFINE u == Ssid(d) \o KeyMgmt(Intf(d), Type(d), OnlyWpa)
                \o <<Set(Intf(d), "proto", "WPA2"), Set(Intf(d), "proto", "CCMP")>> \o Method(Intf(d), "AKA")
    <3>1. wfaStaSetEapAKA(d) = Does(Network(Intf(d), u), Complete(39))
      BY Zenon DEF wfaStaSetEapAKA
    <3>2. u = t
      BY <1>2
    <3> HIDE DEF t, u
    <3>3. o \in wfaStaSetEapAKA(d)
      BY <1>9, Rows
    <3>4. o.steps = Network(Intf(d), u)
      BY <3>1, <3>3, OneOutcome
    <3> QED BY <3>2, <3>4
  <2> HIDE DEF S, a, b, c2, c3, e, f
  <2>2. Len(t) = 6 /\ t[1] = a /\ t[2] = b /\ t[3] = c2 /\ t[4] = c3 /\ t[5] = e("AKA") /\ t[6] = f("AKA")
    OBVIOUS
  <2>3. t \in Seq(S)
    BY <1>1
  <2> HIDE DEF t
  <2>4. EapSettings(t, 2, 5, "AKA")
    BY <1>3, <2>2 DEF EapSettings, b, e, f
  <2> QED BY <1>4, <1>9, <2>1, <2>3, <2>4, EapConfigured DEF S, EapOfTag
<1> QED BY <1>5, <1>6, <1>7, <1>8, <1>9 DEF EapTags

\* The network is open and has nothing of the commands before.
OpenUsed(w, ssid) ==
  /\ w.used["ssid"] = ssid /\ w.used["mode"] = "0" /\ w.used["key_mgmt"] = "NONE"
  /\ \A k \in WepKeys : w.used[k] = "none"

\* sta_set_encryption for the station's interface, without WEP.
LEMMA OpenEffect ==
  ASSUME NEW V, NEW d, Sayable(V, d), NEW s \in States(V),
         Intf(d) = WFA_STAUT_IF, Parameter(d, "encpType") # "wep", NEW o \in gWfaCmdFuncTbl(18, d)
  PROVE  OpenUsed(Run(s, o.steps).wpa, Parameter(d, "ssid"))
<1> DEFINE i == WFA_STAUT_IF
           S == SetsOn(i, V)
           name == Parameter(d, "ssid")
           a == Set(i, "ssid", name)
           b == Set(i, "mode", "0")
           c == Set(i, "key_mgmt", "NONE")
           k1 == Set(i, "key1", "none")
           k2 == Set(i, "key2", "none")
           k3 == Set(i, "key3", "none")
           k4 == Set(i, "key4", "none")
           t == <<a, b, c>> \o <<k1, k2, k3, k4>>
           r == Run(s, Network(i, t))
<1>1. o.steps = Network(i, t)
  <2> DEFINE j == Intf(d)
             u == <<Set(j, "ssid", Parameter(d, "ssid")), Set(j, "mode", "0"), Set(j, "key_mgmt", "NONE")>> \o
                  (IF Parameter(d, "encpType") = "wep" THEN Keys(d, j, KeysSet(d)) ELSE NoKeys(j))
  <2>1. wfaSetEncryption(d) = Does(Network(j, u), Complete(18))
    BY Zenon DEF wfaSetEncryption
  <2>2. u = t
    BY DEF NoKeys
  <2> HIDE DEF t, u
  <2>3. o \in wfaSetEncryption(d)
    BY Rows
  <2>4. o.steps = Network(j, u)
    BY <2>1, <2>3, OneOutcome
  <2> QED BY <2>2, <2>4
<1>2. /\ a \in S /\ b \in S /\ c \in S /\ k1 \in S /\ k2 \in S /\ k3 \in S /\ k4 \in S
      /\ name \in V /\ "0" \in V /\ "NONE" \in V /\ "none" \in V
  BY DEF SetsOn, Sayable, Settings, Literals
<1>3. /\ a.key = "ssid" /\ b.key = "mode" /\ c.key = "key_mgmt"
      /\ k1.key = "key1" /\ k2.key = "key2" /\ k3.key = "key3" /\ k4.key = "key4"
  BY DEF Set
<1>4. /\ <<"ssid", name>> \notin Rejected /\ <<"mode", "0">> \notin Rejected
      /\ <<"key_mgmt", "NONE">> \notin Rejected
      /\ \A k \in WepKeys : <<k, "none">> \notin Rejected
  BY DEF Rejected, WepKeys
<1>5. /\ "ssid" \in Settings /\ "mode" \in Settings /\ "key_mgmt" \in Settings
      /\ "key1" \in Settings /\ "key2" \in Settings /\ "key3" \in Settings /\ "key4" \in Settings
  BY DEF Settings
<1> HIDE DEF S, a, b, c, k1, k2, k3, k4
<1>6. /\ Len(t) = 7 /\ t[1] = a /\ t[2] = b /\ t[3] = c
      /\ t[4] = k1 /\ t[5] = k2 /\ t[6] = k3 /\ t[7] = k4
  OBVIOUS
<1>7. t \in Seq(S)
  BY <1>2
<1> HIDE DEF t
<1>8. \A j, m \in 1 .. Len(t) : j > m => t[j].key # t[m].key
  BY <1>3, <1>6
<1>9. ASSUME NEW m \in 1 .. Len(t), NEW k \in Settings, NEW v \in V, t[m] = Set(i, k, v), <<k, v>> \notin Rejected
      PROVE  r.wpa.used[k] = v
  <2>1. t[m].key = k
    BY <1>9 DEF Set
  <2>2. \A j \in 1 .. Len(t) : j > m => t[j].key # k
    BY <1>8, <1>9, <2>1
  <2> QED BY <1>7, <1>9, <2>2, Configures DEF S
<1> HIDE DEF r
<1>10. r.wpa.used["ssid"] = name /\ r.wpa.used["mode"] = "0" /\ r.wpa.used["key_mgmt"] = "NONE"
  <2>1. r.wpa.used["ssid"] = name
    <3>1. 1 \in 1 .. Len(t) /\ t[1] = Set(i, "ssid", name)
      BY <1>6 DEF a
    <3> QED BY <1>2, <1>4, <1>5, <1>9, <3>1
  <2>2. r.wpa.used["mode"] = "0"
    <3>1. 2 \in 1 .. Len(t) /\ t[2] = Set(i, "mode", "0")
      BY <1>6 DEF b
    <3> QED BY <1>2, <1>4, <1>5, <1>9, <3>1
  <2>3. r.wpa.used["key_mgmt"] = "NONE"
    <3>1. 3 \in 1 .. Len(t) /\ t[3] = Set(i, "key_mgmt", "NONE")
      BY <1>6 DEF c
    <3> QED BY <1>2, <1>4, <1>5, <1>9, <3>1
  <2> QED BY <2>1, <2>2, <2>3
<1>11. \A k \in WepKeys : r.wpa.used[k] = "none"
  <2>1. ASSUME NEW k \in WepKeys PROVE \E m \in 1 .. Len(t) : t[m] = Set(i, k, "none")
    BY <1>6 DEF WepKeys, k1, k2, k3, k4
  <2>2. WepKeys \subseteq Settings
    BY <1>5 DEF WepKeys
  <2> QED BY <1>2, <1>4, <1>9, <2>1, <2>2
<1> QED BY <1>1, <1>10, <1>11 DEF OpenUsed, r

\* What the parsers of the security commands send fits into the parameters of the device.
LEMMA SecuritySent ==
  ASSUME NEW n, NEW args, NEW console, n = "sta_set_encryption" \/ EapOf(n) # "none",
         nameStr(n, args, console) # WFA_FAILURE
  PROVE  LET t == nameStr(n, args, console)
         IN  /\ t.size \in 1 .. MAX_PARMS_BUFF - 1
             /\ "interface" \in DOMAIN t.f /\ "ssid" \in DOMAIN t.f
             /\ n = "sta_set_encryption" => "encpType" \in DOMAIN t.f
             /\ EapOf(n) # "none" => "keyMgmtType" \in DOMAIN t.f
<1> DEFINE t == nameStr(n, args, console)
           fits(f, k) == {"interface", "ssid", k} \subseteq DOMAIN f
<1>1. \A ks, long : fits(Eap(args, console, ks, long), "keyMgmtType")
  BY DEF Eap, Fields, Filled, WithUser, Keyed, Interface
<1>2. \A ks, m : {"interface", "ssid", "encpType"} \subseteq ks => fits(Wep(args, ks, m), "encpType")
  BY DEF Wep, Among, Fields, Filled
<1>3. \A f, k, words, m : DOMAIN Among(f, k, words, m) = DOMAIN f
  BY DEF Among
<1>4. CASE n = "sta_set_encryption"
  <2>1. t = xcCmdProcStaSetEncryption(args)
    BY <1>4 DEF nameStr
  <2>2. \E f : t = TLV(18, 216, f) /\ fits(f, "encpType")
    BY <2>1, <1>2, <1>4 DEF xcCmdProcStaSetEncryption, Interface
  <2> QED BY <1>4, <2>2 DEF TLV, MAX_PARMS_BUFF, EapOf
<1>5. CASE n = "sta_set_eaptls"
  <2>1. t = xcCmdProcStaSetEapTLS(args, console)
    BY <1>5 DEF nameStr
  <2>2. \E f : t = TLV(20, 408, f) /\ fits(f, "keyMgmtType")
    BY <1>1, <2>1 DEF xcCmdProcStaSetEapTLS
  <2> QED BY <1>5, <2>2 DEF TLV, MAX_PARMS_BUFF
<1>6. CASE n = "sta_set_eapttls"
  <2>1. t = xcCmdProcStaSetEapTTLS(args, console)
    BY <1>6 DEF nameStr
  <2>2. \E f : t = TLV(23, 252, f) /\ fits(f, "keyMgmtType")
    BY <1>1, <2>1 DEF xcCmdProcStaSetEapTTLS
  <2> QED BY <1>6, <2>2 DEF TLV, MAX_PARMS_BUFF
<1>7. CASE n = "sta_set_peap"
  <2>1. t = xcCmdProcStaSetPEAP(args, console)
    BY <1>7 DEF nameStr
  <2>2. \E f : t = TLV(25, 204, f) /\ fits(f, "keyMgmtType")
    BY <1>1, <2>1 DEF xcCmdProcStaSetPEAP
  <2> QED BY <1>7, <2>2 DEF TLV, MAX_PARMS_BUFF
<1>8. CASE n = "sta_set_eapfast"
  <2>1. t = xcCmdProcStaSetEapFAST(args, console)
    BY <1>8 DEF nameStr
  <2>2. \E f : t = TLV(38, 232, f) /\ fits(f, "keyMgmtType")
    BY <1>1, <1>3, <2>1 DEF xcCmdProcStaSetEapFAST
  <2> QED BY <1>8, <2>2 DEF TLV, MAX_PARMS_BUFF
<1>9. CASE n = "sta_set_eapaka"
  <2>1. t = xcCmdProcStaSetEapAKA(args, console)
    BY <1>9 DEF nameStr
  <2>2. \E f : t = TLV(39, 552, f) /\ fits(f, "keyMgmtType")
    BY <1>1, <2>1 DEF xcCmdProcStaSetEapAKA
  <2> QED BY <1>9, <2>2 DEF TLV, MAX_PARMS_BUFF
<1> QED BY <1>4, <1>5, <1>6, <1>7, <1>8, <1>9 DEF EapOf

(* The invariant *)

\* A response is at the agent, or has been told to the test manager as complete.
Done == phase = "agent" \/ Told("COMPLETE")

Silent == {"sta_set_security", "sta_set_sleep", "sta_set_opportunistic_ps",
           "sta_exec_action", "sta_preset_testparameters", "wfa_cli_cmd"}

\* What the device has is what the agent made of the last command, and only silent commands
\* are waited for.
PhaseInv ==
  /\ suite \in Suites
  /\ asked.name \notin TrafficNames /\ tlv = nameStr(asked.name, asked.args, pc)
  /\ phase \in {"idle", "device", "agent", "waiting"}
  /\ phase # "idle" => tlv # WFA_FAILURE /\ said.word = ""
  /\ phase = "waiting" => asked.name \in Silent

\* The records and functions that the state is made of.
ShapeInv ==
  /\ wpa = [set |-> [k \in Settings |-> wpa.set[k]], used |-> [k \in Settings |-> wpa.used[k]],
            enabled |-> wpa.enabled]
  /\ wpa.enabled \in BOOLEAN /\ up \in BOOLEAN /\ files \in Nat /\ e2efp \in BOOLEAN

\* The response is the device's answer to the last command, filled where the agent prints it,
\* and what was told as complete is one of the things the agent may say of it.
ResponseInv ==
  /\ Done => /\ tlv # WFA_FAILURE /\ tlv.tag # 0
             /\ response = <<response[1]>> /\ IsAnswer(response[1], tlv.tag)
             /\ tlv.tag \notin HalfFilledTags => Clean(response[1])
  /\ Told("COMPLETE") => said \in wfaCmdRespProcFuncTbl(response[1])

\* The network as the last command left it.
SecurityInv ==
  Done =>
    /\ asked.name = "sta_set_encryption" /\ AskedOf(WFA_STAUT_IF) /\ tlv.f.encpType # "wep"
         => OpenUsed(wpa, tlv.f.ssid)
    /\ EapOf(asked.name) # "none" /\ AskedOf(WFA_STAUT_IF) /\ tlv.f.keyMgmtType = "wpa"
         => EapUsed(wpa, EapOf(asked.name))

StationInv == PhaseInv /\ ShapeInv /\ StationConfigured /\ ResponseInv /\ SecurityInv

\* A command that is sent has the tag of its name, which names it.
LEMMA CommandSent ==
  ASSUME NEW n, n \notin TrafficNames, NEW args, NEW console, NEW t, t = nameStr(n, args, console),
         t # WFA_FAILURE
  PROVE  t.tag \in Tags /\ Named(t.tag, n) /\ t.size \in 0 .. dutCommand_t /\ (t.size = 0 => t.f = NoFields)
<1>1. PICK tag \in Tags : Sent(tag, t) /\ Named(tag, n)
  BY ParserTags
<1> QED BY <1>1 DEF Sent

\* The files that a state has open.
Held(s) == s.files + (IF s.e2efp THEN 1 ELSE 0)

\* The station as the steps of a handler find it.
Found == [wpa |-> wpa, up |-> up, files |-> files, e2efp |-> e2efp, alive |-> TRUE]

\* The handlers find a station of the kind that the effects are stated for.
LEMMA FoundState ==
  ASSUME ShapeInv, NEW d
  PROVE  \E V : Sayable(V, d) /\ Found \in States(V)
<1> DEFINE V == {wpa.set[k] : k \in Settings} \cup {wpa.used[k] : k \in Settings} \cup Literals
                  \cup {Parameter(d, "ssid")} \cup {Parameter(d, k) : k \in KeyNames}
<1>1. Sayable(V, d)
  BY DEF Sayable
<1>2. wpa \in Wpas(V)
  <2>1. [k \in Settings |-> wpa.set[k]] \in [Settings -> V] /\ [k \in Settings |-> wpa.used[k]] \in [Settings -> V]
    OBVIOUS
  <2> HIDE DEF V
  <2> QED BY <2>1 DEF ShapeInv, Wpas
<1>3. Found \in States(V)
  <2> HIDE DEF V
  <2> QED BY <1>2 DEF ShapeInv, Found, States
<1> QED BY <1>1, <1>3

\* The device carries out a command: what the handler with the outcome o makes of the
\* station, when it sees d.
Handling(V, d, o) ==
  LET r == Run(Found, o.steps)
  IN  /\ Sayable(V, d) /\ Found \in States(V) /\ d.f = wfaDecodeTLV(tlv)
      /\ d.room = (Held(Found) < MaxFiles) /\ d.uploading = Found.e2efp
      /\ IF tlv.tag = 0 THEN o = Outcome(<<>>, <<>>) ELSE o \in gWfaCmdFuncTbl(tlv.tag, d)
      /\ r.alive /\ wpa' = r.wpa /\ up' = r.up /\ files' = r.files /\ e2efp' = r.e2efp
      /\ response' = o.resp /\ phase' = IF o.resp = <<>> THEN "waiting" ELSE "agent"
      /\ UNCHANGED <<agent, kept, said>>

\* A step of the device is the work of a handler.
LEMMA Handled ==
  ASSUME ShapeInv, Handle
  PROVE  \E V, d, o : Handling(V, d, o)
<1>1. PICK connected \in BOOLEAN :
        \E o \in IF tlv.tag = 0 THEN NotDefinedYet(Seen(parms', connected))
                 ELSE gWfaCmdFuncTbl(tlv.tag, Seen(parms', connected)) :
          LET s == Afterwards(o.steps)
          IN  /\ s.alive
              /\ wpa' = s.wpa /\ up' = s.up /\ files' = s.files /\ e2efp' = s.e2efp
              /\ response' = o.resp
              /\ phase' = IF o.resp = <<>> THEN "waiting" ELSE "agent"
  BY DEF Handle
<1> DEFINE d == Seen(parms', connected)
<1>2. PICK o \in IF tlv.tag = 0 THEN NotDefinedYet(d) ELSE gWfaCmdFuncTbl(tlv.tag, d) :
          LET s == Afterwards(o.steps)
          IN  /\ s.alive
              /\ wpa' = s.wpa /\ up' = s.up /\ files' = s.files /\ e2efp' = s.e2efp
              /\ response' = o.resp
              /\ phase' = IF o.resp = <<>> THEN "waiting" ELSE "agent"
  BY <1>1
<1>3. /\ d.f = wfaDecodeTLV(tlv) /\ UNCHANGED <<agent, kept, said>>
      /\ d.room = (Held(Found) < MaxFiles) /\ d.uploading = Found.e2efp
  BY DEF Handle, Seen, Held, Found
<1>4. tlv.tag = 0 => o = Outcome(<<>>, <<>>)
  BY <1>2 DEF NotDefinedYet, Only
<1>5. Afterwards(o.steps) = Run(Found, o.steps)
  BY Zenon DEF Afterwards, Found
<1> HIDE DEF d
<1>6. PICK V : Sayable(V, d) /\ Found \in States(V)
  BY FoundState
<1>7. Handling(V, d, o)
  BY <1>2, <1>3, <1>4, <1>5, <1>6 DEF Handling
<1> QED BY <1>7

\* What it does to the station, and its response.
LEMMA HandleEffect ==
  ASSUME PhaseInv, phase = "device", NEW V, NEW d, NEW o, Handling(V, d, o)
  PROVE  /\ tlv.tag = 0 => wpa' = wpa /\ up' = up /\ files' = files /\ e2efp' = e2efp /\ response' = <<>>
         /\ tlv.tag # 0 => Effect(V, tlv.tag, d, Found, Run(Found, o.steps), response')
<1>1. tlv.tag \in Tags
  BY CommandSent DEF PhaseInv
<1>2. CASE tlv.tag = 0
  <2>1. o.steps = <<>> /\ o.resp = <<>>
    BY <1>2 DEF Handling, Outcome
  <2>2. Run(Found, o.steps) = Found
    BY <2>1, RunShort
  <2>3. Found.wpa = wpa /\ Found.up = up /\ Found.files = files /\ Found.e2efp = e2efp
    BY DEF Found
  <2> QED BY <1>2, <2>1, <2>2, <2>3 DEF Handling
<1>3. CASE tlv.tag # 0
  <2>1. Found.alive
    BY DEF Found
  <2>2. /\ tlv.tag \in Tags \ {0} /\ Sayable(V, d) /\ Found \in States(V)
        /\ o \in gWfaCmdFuncTbl(tlv.tag, d) /\ response' = o.resp
    BY <1>1, <1>3 DEF Handling
  <2> QED BY <1>3, <2>1, <2>2, CommandEffect
<1> QED BY <1>2, <1>3

(* The steps of the device and of the agent *)

\* A command has an answer, or is one of the two that may have none.
LEMMA ResponseKind ==
  ASSUME NEW V, NEW d, NEW tag, NEW s, NEW r, NEW resp, Effect(V, tag, d, s, r, resp)
  PROVE  IF resp = <<>> THEN tag \in {37, 75, 88} ELSE Answered(resp, tag) /\ resp = <<resp[1]>> /\ IsAnswer(resp[1], tag)
<1>1. Answered(resp, tag) \/ (resp = <<>> /\ tag \in {37, 75, 88})
  BY DEF Effect
<1>2. ASSUME Answered(resp, tag) PROVE resp # <<>> /\ resp = <<resp[1]>> /\ IsAnswer(resp[1], tag)
  <2>1. PICK x : resp = <<x>> /\ IsAnswer(x, tag)
    BY <1>2 DEF Answered
  <2>2. resp # <<>> /\ x = resp[1]
    BY <2>1
  <2> QED BY <2>1, <2>2
<1> QED BY <1>1, <1>2

\* The device leaves an answer to a command that is not silent, and the network in use.
LEMMA HandlePhase ==
  ASSUME StationInv, Handle
  PROVE  PhaseInv' /\ ShapeInv' /\ StationConfigured'
<1>1. PICK V, d, o : Handling(V, d, o)
  BY Handled DEF StationInv
<1> DEFINE r == Run(Found, o.steps)
<1>2. phase = "device" /\ UNCHANGED <<agent, said>> /\ phase' = IF response' = <<>> THEN "waiting" ELSE "agent"
  BY <1>1 DEF Handle, Handling
<1>3. /\ tlv.tag = 0 => wpa' = wpa /\ up' = up /\ files' = files /\ e2efp' = e2efp /\ response' = <<>>
      /\ tlv.tag # 0 => Effect(V, tlv.tag, d, Found, r, response')
  BY <1>1, <1>2, HandleEffect DEF StationInv
<1>4. PhaseInv'
  <2>1. tlv.tag \in Tags /\ Named(tlv.tag, asked.name)
    BY <1>2, CommandSent DEF StationInv, PhaseInv
  <2>2. phase' = "waiting" => tlv.tag \in {0, 37, 75, 88}
    BY <1>2, <1>3, ResponseKind
  <2> HIDE DEF r
  <2>3. tlv.tag \in {0, 37, 75, 88} => asked.name \in Silent
    BY <2>1 DEF Named, Silent
  <2> QED BY <1>2, <2>2, <2>3 DEF StationInv, PhaseInv, agent
<1>5. wpa' = r.wpa /\ up' = r.up /\ files' = r.files /\ e2efp' = r.e2efp
  BY <1>1 DEF Handling
<1> HIDE DEF r
<1>6. CASE tlv.tag = 0
  <2>1. wpa' = wpa /\ up' = up /\ files' = files /\ e2efp' = e2efp
    BY <1>3, <1>6
  <2> QED BY <1>4, <2>1 DEF StationInv, ShapeInv, StationConfigured
<1>7. CASE tlv.tag # 0
  <2>1. r \in States(V) /\ (InUse(wpa) => InUse(r.wpa))
    BY <1>3, <1>7 DEF Effect, Found
  <2>2. InUse(wpa')
    BY <1>5, <2>1 DEF StationInv, StationConfigured, InUse
  <2>3. wpa' \in Wpas(V) /\ up' \in BOOLEAN /\ files' \in Nat /\ e2efp' \in BOOLEAN
    BY <1>5, <2>1 DEF States
  <2> QED BY <1>4, <2>2, <2>3 DEF ShapeInv, StationConfigured, InUse, Wpas
<1> QED BY <1>6, <1>7

\* Its answer is filled where it is printed, and the security commands did what they say.
LEMMA HandleResponse ==
  ASSUME StationInv, Handle
  PROVE  ResponseInv' /\ SecurityInv'
<1>1. PICK V, d, o : Handling(V, d, o)
  BY Handled DEF StationInv
<1> DEFINE r == Run(Found, o.steps)
<1>2. phase = "device" /\ UNCHANGED <<agent, said>> /\ phase' = IF response' = <<>> THEN "waiting" ELSE "agent"
  BY <1>1 DEF Handle, Handling
<1>3. /\ tlv.tag = 0 => response' = <<>>
      /\ tlv.tag # 0 => Effect(V, tlv.tag, d, Found, r, response')
  BY <1>1, <1>2, HandleEffect DEF StationInv
<1>4. ~Told("COMPLETE")'
  BY <1>2 DEF Told
<1>5. CASE response' = <<>>
  <2>1. ~Done'
    BY <1>2, <1>4, <1>5 DEF Done
  <2> QED BY <1>4, <2>1 DEF ResponseInv, SecurityInv
<1>6. CASE response' # <<>>
  <2>1. tlv.tag # 0 /\ response' = o.resp
    BY <1>1, <1>3, <1>6 DEF Handling
  <2>2. Answered(o.resp, tlv.tag) /\ o.resp = <<o.resp[1]>> /\ IsAnswer(o.resp[1], tlv.tag)
    <3>1. Effect(V, tlv.tag, d, Found, r, o.resp) /\ o.resp # <<>>
      BY <1>3, <1>6, <2>1
    <3> HIDE DEF r
    <3> QED BY <3>1, ResponseKind
  <2>3. /\ tlv # WFA_FAILURE /\ tlv.tag \in Tags /\ Named(tlv.tag, asked.name) /\ UNCHANGED <<tlv, asked>>
        /\ asked.name \notin TrafficNames /\ tlv = nameStr(asked.name, asked.args, pc)
    BY <1>2, CommandSent DEF StationInv, PhaseInv, agent
  <2>4. o \in gWfaCmdFuncTbl(tlv.tag, d) /\ Sayable(V, d) /\ Found \in States(V) /\ d.f = wfaDecodeTLV(tlv)
        /\ wpa' = r.wpa
    BY <1>1, <2>1 DEF Handling
  <2>5. tlv.tag \notin HalfFilledTags => Clean(o.resp[1])
    BY <2>2, <2>3, <2>4, CleanHandlers
  <2>6. ResponseInv'
    <3> DEFINE q == o.resp[1]
    <3>1. response' = <<q>> /\ response'[1] = q
      BY <2>1, <2>2
    <3> HIDE DEF q
    <3>2. IsAnswer(response'[1], tlv.tag) /\ (tlv.tag \notin HalfFilledTags => Clean(response'[1]))
      BY <2>2, <2>5, <3>1 DEF q
    <3>3. response' = <<response'[1]>>
      BY <3>1
    <3>4. /\ tlv' = tlv /\ tlv'.tag # 0 /\ tlv' # WFA_FAILURE
      BY <2>1, <2>3
    <3> QED BY <1>4, <3>2, <3>3, <3>4 DEF ResponseInv
  <2> DEFINE open == asked.name = "sta_set_encryption" /\ AskedOf(WFA_STAUT_IF) /\ tlv.f.encpType # "wep"
             eap  == EapOf(asked.name) # "none" /\ AskedOf(WFA_STAUT_IF) /\ tlv.f.keyMgmtType = "wpa"
  <2>7. asked.name = "sta_set_encryption" \/ EapOf(asked.name) # "none" =>
          /\ tlv.size \in 1 .. MAX_PARMS_BUFF - 1
          /\ "interface" \in DOMAIN tlv.f /\ "ssid" \in DOMAIN tlv.f
          /\ asked.name = "sta_set_encryption" => "encpType" \in DOMAIN tlv.f
          /\ EapOf(asked.name) # "none" => "keyMgmtType" \in DOMAIN tlv.f
    BY <2>3, SecuritySent
  <2>8. open => OpenUsed(r.wpa, tlv.f.ssid)
    <3> SUFFICES ASSUME open PROVE OpenUsed(r.wpa, tlv.f.ssid)
      OBVIOUS
    <3>1. d.f = tlv.f /\ tlv.tag = 18
      BY <2>3, <2>4, <2>7 DEF wfaDecodeTLV, Named
    <3>2. Intf(d) = WFA_STAUT_IF /\ Parameter(d, "encpType") # "wep" /\ Parameter(d, "ssid") = tlv.f.ssid
      BY <2>7, <3>1 DEF Intf, Parameter, AskedOf
    <3>3. o \in gWfaCmdFuncTbl(18, d)
      BY <2>4, <3>1
    <3> HIDE DEF open
    <3> QED BY <2>4, <3>2, <3>3, OpenEffect
  <2>9. eap => EapUsed(r.wpa, EapOf(asked.name))
    <3> SUFFICES ASSUME eap PROVE EapUsed(r.wpa, EapOf(asked.name))
      OBVIOUS
    <3>1. d.f = tlv.f
      BY <2>4, <2>7 DEF wfaDecodeTLV
    <3>2. Intf(d) = WFA_STAUT_IF /\ Type(d) = "wpa"
      BY <2>7, <3>1 DEF Intf, Type, Parameter, AskedOf
    <3>3. tlv.tag \in EapTags /\ EapOfTag(tlv.tag) = EapOf(asked.name)
      BY <2>3 DEF Named, EapOf, EapTags, EapOfTag
    <3> HIDE DEF eap
    <3>4. EapUsed(r.wpa, EapOfTag(tlv.tag))
      BY <2>4, <3>2, <3>3, EapEffect
    <3> QED BY <3>3, <3>4
  <2> HIDE DEF r
  <2>10. SecurityInv'
    BY <2>3, <2>4, <2>8, <2>9 DEF SecurityInv, AskedOf
  <2> QED BY <2>6, <2>10
<1> QED BY <1>5, <1>6

\* The process ends only in two commands, which are silent.
LEMMA RestartInv ==
  ASSUME StationInv, Restart
  PROVE  StationInv'
<1>1. PICK o \in gWfaCmdFuncTbl(tlv.tag, Seen(wfaDecodeTLV(tlv), FALSE)) : ~Afterwards(o.steps).alive
  BY DEF Restart
<1> DEFINE d == Seen(wfaDecodeTLV(tlv), FALSE)
<1>2. /\ phase = "device" /\ phase' = "waiting" /\ tlv.tag # 0
      /\ UNCHANGED <<suite, pc, asked, tlv, wpa, up, response, said>> /\ files' = 0 /\ e2efp' = FALSE
  BY DEF Restart, agent, station
<1>3. tlv.tag \in Tags /\ Named(tlv.tag, asked.name)
  BY <1>2, CommandSent DEF StationInv, PhaseInv
<1>4. Afterwards(o.steps) = Run(Found, o.steps)
  BY Zenon DEF Afterwards, Found
<1>5. tlv.tag \in {37, 75, 88}
  <2> HIDE DEF d
  <2>1. PICK V : Sayable(V, d) /\ Found \in States(V)
    BY FoundState DEF StationInv
  <2>2. Found.alive
    BY DEF Found
  <2>3. Effect(V, tlv.tag, d, Found, Run(Found, o.steps), o.resp)
    <3>1. o \in gWfaCmdFuncTbl(tlv.tag, d)
      BY <1>1 DEF d
    <3> QED BY <1>2, <1>3, <2>1, <2>2, <3>1, CommandEffect
  <2> QED BY <1>1, <1>4, <2>3 DEF Effect
<1>6. asked.name \in Silent
  BY <1>3, <1>5 DEF Named, Silent
<1>7. ~Done' /\ ~Told("COMPLETE")'
  BY <1>2 DEF Done, Told
<1> QED BY <1>2, <1>6, <1>7 DEF StationInv, PhaseInv, ShapeInv, StationConfigured, ResponseInv, SecurityInv

\* The agent tells what the handler of the response says, unless the command is silent.
LEMMA ReceiveInv ==
  ASSUME StationInv, Receive
  PROVE  StationInv'
<1> DEFINE r == response[1]
<1>1. Done /\ phase = "agent" /\ UNCHANGED <<suite, pc, asked, tlv, wpa, up, files, e2efp, response>>
  BY DEF Receive, Done, agent, device
<1>2. /\ tlv # WFA_FAILURE /\ IsAnswer(r, tlv.tag) /\ tlv.tag \in Tags /\ Named(tlv.tag, asked.name)
      /\ said.word = ""
  BY <1>1, CommandSent DEF StationInv, PhaseInv, ResponseInv
<1>3. CASE ~r.whole
  <2>1. phase' = "waiting" /\ said' = said
    BY <1>3 DEF Receive
  <2>2. asked.name \in Silent
    BY <1>2, <1>3 DEF IsAnswer, Named, Silent
  <2>3. ~Done' /\ ~Told("COMPLETE")'
    BY <2>1 DEF Done, Told
  <2> QED BY <1>1, <1>2, <2>1, <2>2, <2>3
          DEF StationInv, PhaseInv, ShapeInv, StationConfigured, ResponseInv, SecurityInv
<1>4. CASE r.whole
  <2>1. PICK a \in wfaCmdRespProcFuncTbl(r) : said' = a /\ phase' = IF a.word = "" THEN "waiting" ELSE "idle"
    BY <1>4 DEF Receive, Received
  <2>2. CASE a.word = ""
    <3>1. r.tag \in Tags /\ (r.tag = 32 => tlv.tag = 32)
      <4>1. \A x \in Tags : AnswerTag(x) \in Tags /\ (AnswerTag(x) = 32 => x = 32)
        BY DEF AnswerTag, Tags
      <4> HIDE DEF r
      <4>2. r.tag = AnswerTag(tlv.tag)
        BY <1>2 DEF IsAnswer
      <4> QED BY <1>2, <4>1, <4>2
    <3>2. PICK by : AllFit(wfaCmdRespProcFuncTbl(r), by, r)
      BY <3>1, Printers
    <3>3. Fits(a, by, r)
      BY <2>1, <3>2 DEF AllFit
    <3>4. tlv.tag = 75
      BY <1>2, <2>2, <3>1, <3>3 DEF Fits, IsAnswer
    <3>5. asked.name \in Silent
      BY <1>2, <3>4 DEF Named, Silent
    <3>6. ~Done' /\ ~Told("COMPLETE")' /\ phase' = "waiting" /\ said'.word = ""
      BY <2>1, <2>2 DEF Done, Told
    <3> QED BY <1>1, <1>2, <3>5, <3>6
            DEF StationInv, PhaseInv, ShapeInv, StationConfigured, ResponseInv, SecurityInv
  <2>3. CASE a.word # ""
    <3>1. phase' = "idle" /\ said' \in wfaCmdRespProcFuncTbl(response'[1])
      BY <1>1, <2>1, <2>3
    <3> QED BY <1>1, <1>2, <3>1
            DEF StationInv, PhaseInv, ShapeInv, StationConfigured, ResponseInv, SecurityInv, AskedOf
  <2> QED BY <2>2, <2>3
<1> QED BY <1>3, <1>4

\* The agent parses the next command.
LEMMA CommandInv ==
  ASSUME StationInv, NEW c \in suite, Command(c)
  PROVE  StationInv'
<1>1. c.name \notin TrafficNames
  BY StationAssumption DEF StationInv, PhaseInv
<1>2. /\ UNCHANGED <<suite, pc, wpa, up, files, e2efp>>
      /\ asked' = c /\ tlv' = nameStr(c.name, c.args, pc)
      /\ \/ tlv' = WFA_FAILURE /\ phase' = "idle" /\ said' = Answer("ca", "INVALID", NoData)
         \/ tlv' # WFA_FAILURE /\ phase' = "device" /\ said' = Nothing
  BY DEF Command, device
<1>3. Answer("ca", "INVALID", NoData).word = "INVALID" /\ Nothing.word = ""
  BY DEF Answer, Nothing
<1>4. ~Done' /\ ~Told("COMPLETE")'
  BY <1>2, <1>3 DEF Done, Told
<1> QED BY <1>1, <1>2, <1>3, <1>4
        DEF StationInv, PhaseInv, ShapeInv, StationConfigured, ResponseInv, SecurityInv

\* The invariant holds at the start.
LEMMA InitInv ==
  ASSUME Init
  PROVE  StationInv
<1>1. NoCommand.name \notin TrafficNames /\ nameStr(NoCommand.name, NoCommand.args, pc) = WFA_FAILURE
  <2>1. NoCommand.name = "none"
    BY DEF NoCommand
  <2>2. \A args, console : nameStr("none", args, console) = WFA_FAILURE
    BY DEF nameStr
  <2> QED BY <2>1, <2>2 DEF TrafficNames
<1>2. PhaseInv
  BY <1>1 DEF Init, PhaseInv
<1>3. /\ wpa = [set |-> Configured, used |-> Configured, enabled |-> TRUE]
      /\ Configured = [k \in Settings |-> Configured[k]]
      /\ up = TRUE /\ files = 0 /\ e2efp = FALSE
  BY DEF Init, Configured
<1>4. ShapeInv
  BY <1>3 DEF ShapeInv
<1>5. StationConfigured
  BY <1>3 DEF StationConfigured
<1>6. ~Done /\ ~Told("COMPLETE")
  BY DEF Init, Done, Told, Nothing, Answer
<1> QED BY <1>2, <1>4, <1>5, <1>6 DEF StationInv, ResponseInv, SecurityInv

\* Every step keeps it.
LEMMA NextInv ==
  ASSUME StationInv, [Next]_vars
  PROVE  StationInv'
<1>1. CASE Handle
  BY <1>1, HandlePhase, HandleResponse DEF StationInv
<1>2. CASE Restart
  BY <1>2, RestartInv
<1>3. CASE Receive
  BY <1>3, ReceiveInv
<1>4. CASE GiveUp
  <2>1. /\ UNCHANGED <<suite, pc, asked, tlv, wpa, up, files, e2efp, response, said>> /\ phase' = "idle"
        /\ said.word = ""
    BY <1>4 DEF GiveUp, agent, device, StationInv, PhaseInv
  <2>2. ~Done' /\ ~Told("COMPLETE")'
    BY <2>1 DEF Done, Told
  <2> QED BY <2>1, <2>2 DEF StationInv, PhaseInv, ShapeInv, StationConfigured, ResponseInv, SecurityInv
<1>5. CASE \E c \in suite : Command(c)
  BY <1>5, CommandInv
<1>6. CASE UNCHANGED vars
  BY ZenonT(60), <1>6 DEF vars, agent, device, StationInv, PhaseInv, ShapeInv, StationConfigured, ResponseInv, SecurityInv,
             Done, Told, AskedOf
<1> QED BY <1>1, <1>2, <1>3, <1>4, <1>5, <1>6 DEF Next

(* The properties, for every set of commands that are not those of the streams *)

\* After any sequence of commands the network is enabled and uses what it was told, but for
\* the key management of wfaStaSetEapSIM (the handlers of wfa_cs.c that disable it).
THEOREM StationStaysConfigured == Spec => []StationConfigured
<1>1. Init => StationInv
  BY InitInv
<1>2. StationInv /\ [Next]_vars => StationInv'
  BY NextInv
<1>3. StationInv => StationConfigured
  BY DEF StationInv
<1> QED BY <1>1, <1>2, <1>3, PTL DEF Spec

\* The test manager waits in vain only for six commands.
THEOREM OnlySilentWait == Spec => []SilentOnly
<1>1. Init => StationInv
  BY InitInv
<1>2. StationInv /\ [Next]_vars => StationInv'
  BY NextInv
<1>3. StationInv => SilentOnly
  BY DEF StationInv, PhaseInv, SilentOnly, Silent
<1> QED BY <1>1, <1>2, <1>3, PTL DEF Spec

\* A network without encryption has nothing of the commands before it (wfaSetEncryption).
THEOREM OpenNetworkStaysClean == Spec => []OpenNetworkIsClean
<1>1. Init => StationInv
  BY InitInv
<1>2. StationInv /\ [Next]_vars => StationInv'
  BY NextInv
<1>3. StationInv => OpenNetworkIsClean
  BY DEF StationInv, SecurityInv, Done, OpenNetworkIsClean, OpenUsed
<1> QED BY <1>1, <1>2, <1>3, PTL DEF Spec

\* A complete answer to an EAP command of type wpa means that the method is in use.
THEOREM EapStaysUsed == Spec => []EapIsUsed
<1>1. Init => StationInv
  BY InitInv
<1>2. StationInv /\ [Next]_vars => StationInv'
  BY NextInv
<1>3. StationInv => EapIsUsed
  BY DEF StationInv, SecurityInv, Done, EapIsUsed, EapUsed
<1> QED BY <1>1, <1>2, <1>3, PTL DEF Spec

\* What is printed of a complete response was filled for it or cleared, but for five commands
\* (wfa_cs.c and wfa_ca_resp.c).
THEOREM NothingLeftIsPrinted == Spec => []NothingLeftPrinted
<1>1. Init => StationInv
  BY InitInv
<1>2. StationInv /\ [Next]_vars => StationInv'
  BY NextInv
<1>3. StationInv => NothingLeftPrinted
  <2> SUFFICES ASSUME StationInv, Told("COMPLETE"), asked.name \notin HalfFilled, NEW k \in DOMAIN said.data
               PROVE  said.data[k] # "left"
    BY DEF NothingLeftPrinted
  <2>1. tlv # WFA_FAILURE /\ said \in wfaCmdRespProcFuncTbl(response[1])
        /\ (tlv.tag \notin HalfFilledTags => Clean(response[1]))
    BY DEF StationInv, ResponseInv, Done
  <2>2. Named(tlv.tag, asked.name)
    BY <2>1, CommandSent DEF StationInv, PhaseInv
  <2>3. tlv.tag \notin HalfFilledTags
    BY <2>2 DEF Named, HalfFilledTags, HalfFilled
  <2> QED BY <2>1, <2>3 DEF Clean
<1> QED BY <1>1, <1>2, <1>3, PTL DEF Spec

\* A complete answer is made by the handler of the command it answers (the tables of
\* wfa_cmdtbl.c and wfa_ca_resp.c), but for two that take another's tag.
THEOREM OwnPrinterAnswers == Spec => []OwnPrinter
<1>1. Init => StationInv
  BY InitInv
<1>2. StationInv /\ [Next]_vars => StationInv'
  BY NextInv
<1>3. StationInv => OwnPrinter
  <2> SUFFICES ASSUME StationInv, Told("COMPLETE"), asked.name \notin Borrowing
               PROVE  \E a \in wfaCmdRespProcFuncTbl(Local(tlv.tag, NoFill)[1]) : said.by = a.by
    BY DEF OwnPrinter
  <2> DEFINE r == response[1]
             q == Local(tlv.tag, NoFill)[1]
  <2>1. tlv # WFA_FAILURE /\ said \in wfaCmdRespProcFuncTbl(r) /\ r.tag = AnswerTag(tlv.tag)
    BY DEF StationInv, ResponseInv, IsAnswer, Done
  <2>2. tlv.tag \in Tags /\ Named(tlv.tag, asked.name)
    BY <2>1, CommandSent DEF StationInv, PhaseInv
  <2>3. q.tag = tlv.tag
    BY DEF Local, Response
  <2> HIDE DEF r, q
  <2>4. tlv.tag \notin {30, 64}
    BY <2>2 DEF Named, Borrowing
  <2>5. \E by : AllFit(wfaCmdRespProcFuncTbl(r), by, r) /\ AllFit(wfaCmdRespProcFuncTbl(q), by, q)
    <3>1. CASE tlv.tag # 34
      <4>1. r.tag = tlv.tag
        BY <2>1, <2>4, <3>1 DEF AnswerTag
      <4> QED BY <2>2, <2>3, <4>1, Printers
    <3>2. CASE tlv.tag = 34
      <4>1. r.tag = 22 /\ q.tag = 34
        BY <2>1, <2>3, <3>2 DEF AnswerTag
      <4>2. 22 \in Tags \ OwnHandlers /\ 34 \in Tags \ OwnHandlers
        BY DEF Tags, OwnHandlers
      <4>3. wfaCmdRespProcFuncTbl(r) = wfaStaGenericResp(r) /\ wfaCmdRespProcFuncTbl(q) = wfaStaGenericResp(q)
        BY <4>1, <4>2, ResponseRows
      <4> QED BY <4>3, HandlersFit
    <3> QED BY <3>1, <3>2
  <2>6. PICK by : AllFit(wfaCmdRespProcFuncTbl(r), by, r) /\ AllFit(wfaCmdRespProcFuncTbl(q), by, q)
    BY <2>5
  <2>7. said.by = by /\ \E a \in wfaCmdRespProcFuncTbl(q) : a.by = by
    BY <2>1, <2>6 DEF AllFit, Fits
  <2> QED BY <2>7 DEF q
<1> QED BY <1>1, <1>2, <1>3, PTL DEF Spec

\* A command for another interface leaves the station alone, when its parameters fit into
\* those of the device (wfaDecodeTLV).
THEOREM StationLeftAlone == Spec => OtherInterfacesLeaveStationAlone
<1> DEFINE Other == phase = "device" /\ tlv.size < MAX_PARMS_BUFF /\ "interface" \in DOMAIN tlv.f /\ ~AskedOf(WFA_STAUT_IF)
<1>1. Init => StationInv
  BY InitInv
<1>2. StationInv /\ [Next]_vars => StationInv'
  BY NextInv
<1>3. StationInv /\ [Next]_vars => [Other => UNCHANGED station]_vars
  <2> SUFFICES ASSUME StationInv, Next, Other PROVE UNCHANGED station
    BY DEF vars, device, station
  <2>1. CASE Handle
    <3>1. PICK V, d, o : Handling(V, d, o)
      BY <2>1, Handled DEF StationInv
    <3>2. /\ tlv.tag = 0 => wpa' = wpa /\ up' = up
          /\ tlv.tag # 0 => Effect(V, tlv.tag, d, Found, Run(Found, o.steps), response')
      BY <3>1, HandleEffect DEF StationInv
    <3>3. tlv.size \in 1 .. MAX_PARMS_BUFF - 1
      <4>1. tlv.size \in 0 .. dutCommand_t /\ (tlv.size = 0 => tlv.f = NoFields)
        BY CommandSent DEF StationInv, PhaseInv
      <4>2. DOMAIN NoFields = {}
        BY DEF NoFields
      <4>3. tlv.size # 0
        BY <4>1, <4>2
      <4>4. tlv.size \in Nat /\ tlv.size < 640
        BY <4>1 DEF MAX_PARMS_BUFF, dutCommand_t
      <4> QED BY <4>3, <4>4 DEF MAX_PARMS_BUFF
    <3>4. Intf(d) # WFA_STAUT_IF
      BY <3>1, <3>3 DEF Handling, wfaDecodeTLV, Intf, AskedOf
    <3>5. CASE tlv.tag = 0
      BY <3>2, <3>5 DEF station
    <3>6. CASE tlv.tag # 0
      BY <3>1, <3>2, <3>4, <3>6 DEF Handling, Effect, Found, station
    <3> QED BY <3>5, <3>6
  <2>2. CASE Restart
    BY <2>2 DEF Restart
  <2>3. CASE Receive \/ GiveUp \/ \E c \in suite : Command(c)
    BY <2>3 DEF Receive, GiveUp, Command
  <2> QED BY <2>1, <2>2, <2>3 DEF Next
<1> QED BY <1>1, <1>2, <1>3, PTL DEF Spec, OtherInterfacesLeaveStationAlone

\* Only a re-association leaves the interface down that it found up (wfaStaReAssociate).
THEOREM InterfaceStaysUp == Spec => InterfaceComesBack
<1>1. Init => StationInv
  BY InitInv
<1>2. StationInv /\ [Next]_vars => StationInv'
  BY NextInv
<1>3. StationInv /\ [Next]_vars => [up /\ ~up' => asked.name = "sta_reassociate"]_vars
  <2> SUFFICES ASSUME StationInv, Next, up, ~up' PROVE asked.name = "sta_reassociate"
    BY DEF vars
  <2>1. CASE Handle
    <3>1. PICK V, d, o : Handling(V, d, o)
      BY <2>1, Handled DEF StationInv
    <3>2. /\ tlv.tag = 0 => up' = up
          /\ tlv.tag # 0 => Effect(V, tlv.tag, d, Found, Run(Found, o.steps), response')
      BY <2>1, <3>1, HandleEffect DEF StationInv, Handle
    <3>3. tlv.tag = 34
      BY <3>1, <3>2 DEF Handling, Effect, Found
    <3>4. Named(tlv.tag, asked.name)
      BY <2>1, CommandSent DEF Handle, StationInv, PhaseInv
    <3> QED BY <3>3, <3>4 DEF Named
  <2>2. CASE Restart
    BY <2>2 DEF Restart, station
  <2>3. CASE Receive \/ GiveUp \/ \E c \in suite : Command(c)
    BY <2>3 DEF Receive, GiveUp, Command, device
  <2> QED BY <2>1, <2>2, <2>3 DEF Next
<1> QED BY <1>1, <1>2, <1>3, PTL DEF Spec, InterfaceComesBack

(* Types, and the files that are open *)

\* No handler opens a file without looking whether it can.
LEMMA HandlerOpens ==
  ASSUME NEW V, NEW tag \in Tags \ {0}, NEW d, Sayable(V, d), NEW o \in gWfaCmdFuncTbl(tag, d)
  PROVE  Opens(d, o.steps)
<1>1. CASE tag \in PlainTags
  <2>1. o.steps = <<>>
    BY <1>1, PlainHandlers DEF Plain
  <2> QED BY <2>1 DEF Opens
<1>2. CASE tag \in SystemTags
  BY <1>2, SystemOpens
<1> DEFINE i == Intf(d)
           S == SetsOn(i, V) \cup SwitchesOn(i)
<1>3. ASSUME NEW steps \in Seq(S) PROVE Opens(d, steps)
  <2>1. \A e \in S : e.op \notin Opening
    BY DEF SetsOn, SwitchesOn, Set, Step, Opening
  <2> HIDE DEF S
  <2>2. Len(steps) \in Nat /\ \A j \in 1 .. Len(steps) : steps[j] \in S
    OBVIOUS
  <2> QED BY <2>1, <2>2 DEF Opens
<1>4. CASE tag \in NetworkTags
  <2>1. PICK t \in Seq(SetsOn(i, V)) : o.steps = Network(i, t)
    BY <1>4, NetworkHandlers DEF NetworkOutcome
  <2>2. Network(i, t) \in Seq(S)
    BY NetworkSteps
  <2> HIDE DEF S
  <2> QED BY <1>3, <2>1, <2>2
<1>5. CASE tag = 24
  <2> DEFINE t == Ssid(d) \o Method(i, "SIM") \o <<Set(i, "proto", "WPA")>>
             u == KeyMgmt(i, Type(d), FourTypes)
  <2>1. o.steps = Network(i, t) \o u /\ t \in Seq(SetsOn(i, V)) /\ u \in Seq(SetsOn(i, V))
    BY <1>5, SimHandler
  <2> HIDE DEF t, u
  <2>2. Network(i, t) \in Seq(S)
    BY <2>1, NetworkSteps
  <2>3. u \in Seq(S)
    BY <2>1
  <2> HIDE DEF S
  <2>4. Network(i, t) \o u \in Seq(S)
    BY <2>2, <2>3
  <2> QED BY <1>3, <2>1, <2>4
<1>6. tag \in PlainTags \cup SystemTags \cup NetworkTags \cup {24}
  BY DEF Tags, PlainTags, SystemTags, NetworkTags
<1> QED BY <1>1, <1>2, <1>4, <1>5, <1>6

\* What is held is the files and e2efp.
LEMMA HeldWith ==
  ASSUME NEW s, s.e2efp = TRUE
  PROVE  Held(s) = s.files + 1
BY DEF Held

\* Without it there are only the files.
LEMMA HeldWithout ==
  ASSUME NEW s, s.e2efp = FALSE
  PROVE  Held(s) = s.files + 0
BY DEF Held

\* No more is held when no file is opened.
LEMMA HeldLess ==
  ASSUME NEW s, NEW r, s.files \in Nat, r.files = s.files, s.e2efp \in BOOLEAN,
         r.e2efp = s.e2efp \/ r.e2efp = FALSE
  PROVE  r.files \in Nat /\ r.e2efp \in BOOLEAN /\ Held(r) <= Held(s) /\ Held(s) \in Nat /\ Held(r) \in Nat
<1>1. CASE s.e2efp = TRUE
  <2>1. Held(s) = s.files + 1
    BY <1>1, HeldWith
  <2>2. CASE r.e2efp = TRUE
    <3>1. Held(r) = r.files + 1
      BY <2>2, HeldWith
    <3> QED BY <2>1, <2>2, <3>1
  <2>3. CASE r.e2efp = FALSE
    <3>1. Held(r) = r.files + 0
      BY <2>3, HeldWithout
    <3>2. s.files + 1 \in Nat /\ s.files + 0 \in Nat /\ s.files + 0 <= s.files + 1 /\ r.files \in Nat
      OBVIOUS
    <3>3. Held(r) = s.files + 0
      BY <3>1
    <3> QED BY <2>1, <2>3, <3>2, <3>3
  <2> QED BY <1>1, <2>2, <2>3
<1>2. CASE s.e2efp = FALSE
  <2>1. r.e2efp = FALSE
    BY <1>2
  <2>2. Held(s) = s.files + 0 /\ Held(r) = r.files + 0
    BY <1>2, <2>1, HeldWithout
  <2>3. s.files + 0 \in Nat /\ s.files + 0 <= s.files + 0 /\ r.files \in Nat
    OBVIOUS
  <2>4. Held(r) = s.files + 0
    BY <2>2
  <2> QED BY <2>1, <2>2, <2>3, <2>4
<1> QED BY <1>1, <1>2

\* So there are never more of them than the device can have open.
LEMMA HeldBound ==
  ASSUME NEW s, IsState(s), s.files \in Nat, s.e2efp \in BOOLEAN, Held(s) <= MaxFiles,
         NEW d, d.room = (Held(s) < MaxFiles), d.uploading = s.e2efp,
         NEW steps, Opens(d, steps)
  PROVE  LET r == Run(s, steps)
         IN  r.files \in Nat /\ r.e2efp \in BOOLEAN /\ Held(r) <= MaxFiles
<1>0. MaxFiles \in Nat
  BY StationAssumption
<1>1. CASE Len(steps) = 0
  <2>1. PICK h : IsRun(h, s, steps) /\ Run(s, steps) = h[Len(steps)]
    BY RunExists DEF Opens
  <2>2. Run(s, steps) = s
    BY <1>1, <2>1 DEF IsRun
  <2> QED BY <2>2
<1>2. CASE Len(steps) # 0
  <2> DEFINE x == Apply(s, steps[1])
             e == steps[1]
             r == Run(s, steps)
  <2>1. Len(steps) \in Nat /\ \A j \in 2 .. Len(steps) : steps[j].op \notin Opening
    BY DEF Opens
  <2>2. e.op \in Opening => d.room \/ (e.op = "upload" /\ d.uploading)
    <3>1. 1 \in 1 .. Len(steps)
      BY <1>2, <2>1
    <3> QED BY <3>1 DEF Opens
  <2>3. /\ e.op \notin Opening => NoMore(s, x)
        /\ e.op = "open" => IsState(x) /\ x.files = s.files + 1 /\ x.e2efp = s.e2efp
        /\ e.op = "upload" => IsState(x) /\ x.files = s.files /\ x.e2efp = TRUE
    BY OneStep
  <2>4. IsState(x)
    BY <2>3 DEF NoMore, Opening
  <2>5. NoMore(x, r)
    BY <1>2, <2>1, <2>4, RunAfterFirst
  <2> HIDE DEF x, e, r
  <2>6. x.files \in Nat /\ x.e2efp \in BOOLEAN /\ Held(x) <= MaxFiles
    <3>1. CASE e.op \notin Opening
      <4>1. x.files = s.files /\ (x.e2efp = s.e2efp \/ x.e2efp = FALSE)
        BY <2>3, <3>1 DEF NoMore
      <4>2. x.files \in Nat /\ x.e2efp \in BOOLEAN /\ Held(x) <= Held(s) /\ Held(s) \in Nat /\ Held(x) \in Nat
        BY <4>1, HeldLess
      <4> QED BY <1>0, <4>2
    <3>2. CASE e.op = "open"
      <4>1. x.files = s.files + 1 /\ x.e2efp = s.e2efp /\ Held(s) < MaxFiles
        BY <2>2, <2>3, <3>2 DEF Opening
      <4>2. CASE s.e2efp = TRUE
        <5>1. Held(s) = s.files + 1 /\ Held(x) = x.files + 1
          BY <4>1, <4>2, HeldWith
        <5> QED BY <1>0, <4>1, <4>2, <5>1
      <4>3. CASE s.e2efp = FALSE
        <5>1. Held(s) = s.files + 0 /\ Held(x) = x.files + 0
          BY <4>1, <4>3, HeldWithout
        <5> QED BY <1>0, <4>1, <4>3, <5>1
      <4> QED BY <4>2, <4>3
    <3>3. CASE e.op = "upload"
      <4>1. x.files = s.files /\ x.e2efp = TRUE /\ (Held(s) < MaxFiles \/ s.e2efp = TRUE)
        BY <2>2, <2>3, <3>3 DEF Opening
      <4>2. Held(x) = s.files + 1
        BY <4>1, HeldWith
      <4>3. CASE s.e2efp = TRUE
        <5>1. Held(s) = s.files + 1
          BY <4>3, HeldWith
        <5> QED BY <4>1, <4>2, <5>1
      <4>4. CASE s.e2efp = FALSE
        <5>1. Held(s) = s.files + 0
          BY <4>4, HeldWithout
        <5>2. s.files + 0 < MaxFiles => s.files + 1 <= MaxFiles
          BY <1>0
        <5>3. Held(s) < MaxFiles
          BY <4>1, <4>4
        <5> QED BY <4>1, <4>2, <5>1, <5>2, <5>3
      <4> QED BY <4>3, <4>4
    <3> QED BY <3>1, <3>2, <3>3 DEF Opening
  <2>7. r.files \in Nat /\ r.e2efp \in BOOLEAN /\ Held(r) <= MaxFiles
    <3>1. r.files = x.files /\ (r.e2efp = x.e2efp \/ r.e2efp = FALSE)
      BY <2>5 DEF NoMore
    <3>2. r.files \in Nat /\ r.e2efp \in BOOLEAN /\ Held(r) <= Held(x) /\ Held(x) \in Nat /\ Held(r) \in Nat
      BY <2>6, <3>1, HeldLess
    <3> QED BY <1>0, <2>6, <3>2
  <2> QED BY <2>7 DEF r
<1> QED BY <1>1, <1>2

\* What the agent keeps of responses and what the device answers has a tag and a status.
Typed(resp) == \A r \in Range(resp) : r.tag \in 1 .. 86 /\ r.status \in Statuses

\* Of no response and of one.
LEMMA TypedResponses ==
  /\ Typed(<<>>)
  /\ \A r : r.tag \in 1 .. 86 /\ r.status \in Statuses => Typed(<<r>>)
<1>1. Range(<<>>) = {}
  BY DEF Range
<1>2. ASSUME NEW r PROVE Range(<<r>>) = {r}
  BY DEF Range
<1> QED BY <1>1, <1>2 DEF Typed

\* TypeOK without what StationInv has of it.
TypeInv ==
  /\ pc \in BOOLEAN /\ asked \in suite \cup {NoCommand}
  /\ said.word \in {"", "COMPLETE", "ERROR", "INVALID"}
  /\ Held(Found) <= MaxFiles
  /\ Typed(response) /\ Typed(kept)

\* Both give the types.
LEMMA TypeFacts ==
  ASSUME StationInv, TypeInv
  PROVE  TypeOK
<1>1. tlv.tag \in -1 .. 88 /\ tlv.size \in 0 .. dutCommand_t
  <2>1. CASE tlv = WFA_FAILURE
    BY <2>1 DEF WFA_FAILURE, TLV, dutCommand_t
  <2>2. CASE tlv # WFA_FAILURE
    <3>1. tlv.tag \in Tags /\ tlv.size \in 0 .. dutCommand_t
      BY <2>2, CommandSent DEF StationInv, PhaseInv
    <3>2. \A t \in Tags : t \in -1 .. 88
      BY DEF Tags
    <3> QED BY <3>1, <3>2
  <2> QED BY <2>1, <2>2
<1>2. DOMAIN wpa.set = Settings /\ DOMAIN wpa.used = Settings
  BY DEF StationInv, ShapeInv
<1>3. files \in 0 .. MaxFiles /\ files + (IF e2efp THEN 1 ELSE 0) <= MaxFiles
  <2>1. Found.files = files /\ Found.e2efp = e2efp
    BY DEF Found
  <2>2. files \in Nat /\ e2efp \in BOOLEAN /\ Held(Found) <= MaxFiles /\ MaxFiles \in Nat
    BY StationAssumption DEF StationInv, ShapeInv, TypeInv
  <2>3. e2efp = TRUE => Held(Found) = files + 1
    BY <2>1, HeldWith
  <2>4. e2efp = FALSE => Held(Found) = files + 0
    BY <2>1, HeldWithout
  <2>5. CASE e2efp = TRUE
    BY <2>2, <2>3, <2>5
  <2>6. CASE e2efp = FALSE
    BY <2>2, <2>4, <2>6
  <2> QED BY <2>2, <2>5, <2>6
<1>4. \A r \in Range(response) \cup Range(kept) : r.tag \in 1 .. 86 /\ r.status \in Statuses
  BY DEF TypeInv, Typed
<1> QED BY <1>1, <1>2, <1>3, <1>4 DEF TypeOK, StationInv, PhaseInv, ShapeInv, TypeInv

\* A command opens no file that the device cannot have open, and its answer is typed.
LEMMA HandleTypes ==
  ASSUME StationInv, TypeInv, Handle
  PROVE  TypeInv'
<1>1. PICK V, d, o : Handling(V, d, o)
  BY Handled DEF StationInv
<1> DEFINE r == Run(Found, o.steps)
<1>2. phase = "device" /\ UNCHANGED <<agent, kept, said>> /\ wpa' = r.wpa /\ up' = r.up /\ files' = r.files /\ e2efp' = r.e2efp
      /\ response' = o.resp
  BY <1>1 DEF Handle, Handling
<1>3. /\ tlv.tag = 0 => wpa' = wpa /\ up' = up /\ files' = files /\ e2efp' = e2efp /\ response' = <<>>
      /\ tlv.tag # 0 => Effect(V, tlv.tag, d, Found, r, response')
  BY <1>1, <1>2, HandleEffect DEF StationInv
<1>4. tlv.tag \in Tags
  BY <1>2, CommandSent DEF StationInv, PhaseInv
<1>5. IsState(Found) /\ Found.files \in Nat /\ Found.e2efp \in BOOLEAN /\ Held(Found) <= MaxFiles
  BY DEF StationInv, ShapeInv, TypeInv, Found, IsState
<1>6. Held(Found') <= MaxFiles
  <2>1. Held(Found') = files' + (IF e2efp' THEN 1 ELSE 0)
    BY DEF Held, Found
  <2>2. CASE tlv.tag = 0
    BY <1>3, <1>5, <2>1, <2>2 DEF Held, Found
  <2>3. CASE tlv.tag # 0
    <3>1. Opens(d, o.steps)
      BY <1>1, <1>4, <2>3, HandlerOpens DEF Handling
    <3>2. d.room = (Held(Found) < MaxFiles) /\ d.uploading = Found.e2efp
      BY <1>1 DEF Handling
    <3>3. Held(r) <= MaxFiles
      BY <1>5, <3>1, <3>2, HeldBound
    <3> HIDE DEF r
    <3> QED BY <1>2, <2>1, <3>3 DEF Held
  <2> QED BY <2>2, <2>3
<1>7. Typed(response')
  <2> HIDE DEF r
  <2>0. tlv.tag = 88 => response' = <<>>
    <3> SUFFICES ASSUME tlv.tag = 88 PROVE o.resp = <<>>
      BY <1>2
    <3>1. o \in gWfaCmdFuncTbl(88, d)
      BY <1>1 DEF Handling
    <3>2. o \in Only(<<>>) \cup Fault
      BY Zenon, <3>1, Rows
    <3> QED BY <3>2 DEF Only, Fault, Does, Outcome
  <2>1. CASE response' = <<>>
    BY <2>1, TypedResponses
  <2>2. CASE response' # <<>>
    <3> DEFINE q == response'[1]
    <3>1. response' = <<q>> /\ IsAnswer(q, tlv.tag) /\ tlv.tag # 0
      BY <1>3, <2>2, ResponseKind
    <3> HIDE DEF q
    <3>2. q.tag \in 1 .. 86 /\ q.status \in Statuses
      <4>1. q.tag = AnswerTag(tlv.tag) /\ q.status \in Statuses /\ tlv.tag \in Tags \ {0, 88}
        BY <1>4, <2>0, <2>2, <3>1 DEF IsAnswer
      <4>2. \A t \in Tags \ {0, 88} : AnswerTag(t) \in 1 .. 86
        BY DEF AnswerTag, Tags
      <4> QED BY <4>1, <4>2
    <3>3. Typed(<<q>>)
      BY <3>2, TypedResponses
    <3> QED BY <3>1, <3>3
  <2> QED BY <2>1, <2>2
<1> QED BY <1>2, <1>6, <1>7 DEF TypeInv, agent, Typed

\* Every step keeps the types.
LEMMA TypeStep ==
  ASSUME StationInv, TypeInv, [Next]_vars
  PROVE  TypeInv'
<1>1. CASE Handle
  BY <1>1, HandleTypes
<1>2. CASE Restart
  <2>1. UNCHANGED <<suite, pc, asked, response, said>> /\ files' = 0 /\ e2efp' = FALSE /\ kept' = <<>>
    BY <1>2 DEF Restart, agent
  <2>2. Held(Found') <= MaxFiles
    BY <2>1, StationAssumption DEF Held, Found
  <2> QED BY <2>1, <2>2, TypedResponses DEF TypeInv, Typed
<1>3. CASE Receive
  <2>1. UNCHANGED <<suite, pc, asked, response, files, e2efp>> /\ Held(Found') = Held(Found)
    BY <1>3 DEF Receive, agent, device, Held, Found
  <2>2. kept' = response \/ kept' = <<>>
    BY <1>3 DEF Receive
  <2>3. said'.word \in {"", "COMPLETE", "ERROR", "INVALID"}
    <3>1. CASE said' = said
      BY <3>1 DEF TypeInv
    <3>2. CASE said' # said
      <4> DEFINE r == response[1]
      <4>1. said' \in wfaCmdRespProcFuncTbl(r)
        BY <1>3, <3>2 DEF Receive, Received
      <4>2. tlv # WFA_FAILURE /\ IsAnswer(r, tlv.tag) /\ tlv.tag \in Tags
        <5>1. Done
          BY <1>3 DEF Receive, Done
        <5> QED BY <1>3, <5>1, CommandSent DEF StationInv, PhaseInv, ResponseInv
      <4> HIDE DEF r
      <4>3. r.tag \in Tags
        <5>1. \A x \in Tags : AnswerTag(x) \in Tags
          BY DEF AnswerTag, Tags
        <5> QED BY <4>2, <5>1 DEF IsAnswer
      <4>4. PICK by : AllFit(wfaCmdRespProcFuncTbl(r), by, r)
        BY <4>3, Printers
      <4> QED BY <4>1, <4>4 DEF AllFit, Fits
    <3> QED BY <3>1, <3>2
  <2> QED BY <2>1, <2>2, <2>3, TypedResponses DEF TypeInv, Typed
<1>4. CASE GiveUp
  BY <1>4 DEF GiveUp, agent, device, TypeInv, Typed, Held, Found
<1>5. CASE \E c \in suite : Command(c)
  <2>1. PICK c \in suite : Command(c)
    BY <1>5
  <2>2. /\ UNCHANGED <<suite, pc, files, e2efp, kept>> /\ asked' = c /\ response' = <<>>
        /\ said' = Answer("ca", "INVALID", NoData) \/ said' = Nothing
    BY <2>1 DEF Command, device
  <2>3. said'.word \in {"", "COMPLETE", "ERROR", "INVALID"}
    <3>1. Nothing.word = "" /\ Answer("ca", "INVALID", NoData).word = "INVALID"
      BY DEF Answer, Nothing
    <3> QED BY <2>2, <3>1
  <2>4. Held(Found') = Held(Found)
    BY <2>2 DEF Held, Found
  <2> QED BY <2>2, <2>3, <2>4, TypedResponses DEF TypeInv, Typed
<1>6. CASE UNCHANGED vars
  BY <1>6 DEF vars, agent, device, TypeInv, Typed, Held, Found
<1> QED BY <1>1, <1>2, <1>3, <1>4, <1>5, <1>6 DEF Next

\* The types, and the files: the device never has more open than it can, because every
\* handler that opens one looks (wfa_cs.c), though some never close them.
THEOREM TypeCorrect == Spec => []TypeOK
<1>1. Init => StationInv /\ TypeInv
  <2> SUFFICES ASSUME Init PROVE TypeInv
    BY InitInv
  <2>1. said.word = ""
    BY DEF Init, Nothing, Answer
  <2>2. Held(Found) = 0 /\ Held(Found) <= MaxFiles
    BY StationAssumption DEF Init, Held, Found
  <2> QED BY <2>1, <2>2, TypedResponses DEF Init, TypeInv
<1>2. StationInv /\ TypeInv /\ [Next]_vars => StationInv' /\ TypeInv'
  BY NextInv, TypeStep
<1>3. StationInv /\ TypeInv => TypeOK
  BY TypeFacts
<1> QED BY <1>1, <1>2, <1>3, PTL DEF Spec
=============================================================================
