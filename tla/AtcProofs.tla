------------------------------ MODULE AtcProofs ------------------------------
(***************************************************************************)
(* The manager over AT, for any modems, handshakes, faults, changes and    *)
(* signals: until an answer is late or broken, or another final response   *)
(* is taken for one, a command works with its own answer although answers  *)
(* carry no id, the modem is restarted once at most, and a manager that    *)
(* was told to stop leaves no call.                                        *)
(***************************************************************************)
EXTENDS Atc, SequenceTheorems, TLAPS

-----------------------------------------------------------------------------
(* The inductive invariant *)

Steps == Commands \cup {"pause", "loop", "joining", "ended", "failed"}
UrcPrefixes == {"+CREG", "+QNETDEVSTATUS", "+CMTI", "OK", "error"}
AllPrefixes == {PrefixOf(op) : op \in Commands} \cup UrcPrefixes
              \cup {"OK", "error", "none", "digits", "version"}
AllValues == {"none", "0", "1", "READY", "PIN", "imsi", "version", "profile", "LTE", "NSA",
              "yes", "no", "value"}
Lines == [of : Commands \cup {"urc", "none"}, prefix : AllPrefixes, value : AllValues]
Responses == [final : Lines, lines : Seq(Lines), set : BOOLEAN]
EventNames == {"NET", "CALL", "DISCONNECTED"}

\* A line of an answer, not an unsolicited one.
Answers(l) == l.of # "urc"
Concludes(l) == Answers(l) /\ IsFinal(l)

AtcTypes ==
  /\ step \in Steps /\ why \in {"start", "net", "check"} /\ tries \in Nat
  /\ asr \in BOOLEAN /\ ps \in BOOLEAN /\ conn \in {Down, Up, Unknow} /\ again \in BOOLEAN
  /\ mpc \in {"ready", "waiting", "woken"} /\ response \in Responses /\ closed \in BOOLEAN
  /\ reader \in {"running", "gone"} /\ sms \in BOOLEAN
  /\ events \in Seq(EventNames) /\ stopAsked \in BOOLEAN
  /\ device \in {"running", "done"} /\ waitQuit \in BOOLEAN /\ quitSent \in BOOLEAN
  /\ modem \in Modems /\ profile \in Profiles
  /\ pending \in Seq(Commands) /\ told \in BOOLEAN /\ wire \in Seq(Lines) /\ hangup \in BOOLEAN
  /\ slip \in {"never", "running", "starting"} /\ reboots \in Nat
  /\ nfault \in 0 .. MaxFaults /\ nchange \in 0 .. MaxChanges /\ nstop \in 0 .. MaxStops

\* A response is there while a command waits; a line type takes one line.
Waits ==
  /\ mpc = "ready" => response = NULL
  /\ mpc # "ready" => response.set /\ step \in Commands
  /\ TypeOf(step) \in {SINGLELINE, NUMERIC} => Len(response.lines) <= 1

\* While the device is greeted, every answer is to a greeting.
Greeting == step \in {"ate", "pause", "failed"} \/ (step = "usbnet" /\ mpc = "ready" /\ closed)
Asked == IF Greeting THEN "ate" ELSE step

\* What is under way answers the command that waits: its lines, and behind them
\* one final response.
InStep ==
  /\ \A i \in 1 .. Len(pending) : pending[i] = Asked
  /\ \A i \in 1 .. Len(wire) :
       IF wire[i].of = "urc" THEN wire[i].prefix \in UrcPrefixes ELSE wire[i].of = Asked
  /\ ~Greeting =>
       /\ pending # <<>> => mpc = "waiting" /\ Len(pending) = 1
       /\ \A i \in 1 .. Len(wire) : Answers(wire[i]) => mpc = "waiting" /\ pending = <<>>
       /\ \A i, j \in 1 .. Len(wire) : i < j /\ Concludes(wire[i]) => ~Answers(wire[j])

\* Commands whose answer, if it is OK, has a line.
Telling == {"style", "nat", "status", "query", "ip", "ipaddr", "ctlq", "actq"}

NatIsSet(m) == m.nat = IF m.style = "asr" THEN "1" ELSE "0"
NatSet == NatIsSet(modem)

\* What the final response to a command, and its line, say of the modem.
FinalSays(l, op, m) ==
  /\ op \in {"query", "ip", "ipaddr"} /\ l.prefix # "OK" => ~(m.active /\ m.bound)
  /\ op \in {"ctlq", "actq"} => l.prefix = "OK"
  /\ op = "hang" => ~m.bound
  /\ op = "setnat" => NatIsSet(m)
  /\ op = "style" => (l.prefix = "OK" <=> m.style = "rg")
LineSays(l, op, m) ==
  /\ op = "nat" => l.value = m.nat
  /\ op = "ctlq" /\ l.value # "yes" => ~m.bound
  /\ op = "actq" /\ l.value # "yes" => ~m.active
FinalIsTrue(l) == FinalSays(l, step, modem)
LineIsTrue(l) == LineSays(l, step, modem)

\* The lines under way are true, and no OK comes without the line it is for.
WireIsTrue ==
  ~Greeting => \A i \in 1 .. Len(wire) : Answers(wire[i]) =>
    /\ IsFinal(wire[i]) => FinalIsTrue(wire[i])
    /\ ~IsFinal(wire[i]) => LineIsTrue(wire[i]) /\ wire[i].prefix # "+CMTI"
    /\ wire[i].prefix = "OK" /\ step \in Telling =>
         \/ response.lines # <<>>
         \/ \E j \in 1 .. i - 1 : Answers(wire[j]) /\ wire[j].prefix = PrefixOf(step)

\* So are the lines that the caller has.
ResponseIsTrue ==
  /\ mpc = "waiting" => ~HasFinal
  /\ mpc = "woken" => HasFinal \/ closed
  /\ HasFinal => /\ response.final.of = step \/ (step = "ate" /\ response.final.of = "urc")
                 /\ FinalIsTrue(response.final)
                 /\ response.final.prefix = "OK" /\ step \in Telling => response.lines # <<>>
  /\ \A i \in 1 .. Len(response.lines) :
       /\ response.lines[i].of \in {step, "urc"}
       /\ step \in {"nat", "ctlq", "actq"} =>
            response.lines[i].of = step /\ LineIsTrue(response.lines[i])

\* The end of the channel: the modem restarts, or the program leaves.
Closing ==
  /\ hangup => pending = <<>> /\ ~CallUp
  /\ closed => mpc # "waiting" /\ (mpc = "woken" => hangup)
  /\ quitSent => step \in {"joining", "ended"}
  /\ waitQuit = stopAsked
  /\ (\E i \in 1 .. Len(events) : events[i] = "DISCONNECTED") => hangup \/ waitQuit \/ quitSent

\* The style is known from its query on, the NAT mode is set once.
Early == {"ate", "pause", "usbnet", "devctls", "regs", "style", "nat", "setnat", "cfun", "failed"}
Unstyled == {"ate", "pause", "usbnet", "devctls", "regs", "style", "failed"}
Styled ==
  /\ step \in Early => ~hangup /\ (told => step = "cfun")
  /\ asr => modem.style = "asr"
  /\ step \notin Unstyled => (asr <=> modem.style = "asr")
  /\ step \in {"query", "ip"} => modem.style = "rg"
  /\ step = "cfun" \/ told \/ reboots > 0 => NatSet
  /\ step \in {"setnat", "cfun"} \/ told => reboots = 0
  /\ reboots <= 1

\* A call that is up is known, or found out by the request under way.
Dialing == {"act", "dial", "status", "ip", "ipaddr"}
CallTracked ==
  /\ conn = Down /\ CallUp => step \in Dialing
  /\ step \in {"joining", "ended"} /\ conn # Unknow => ~CallUp

InTime == InStep /\ WireIsTrue /\ ResponseIsTrue /\ Closing /\ Styled /\ CallTracked

AtcInv == AtcTypes /\ Waits /\ (slip = "never" => InTime)

-----------------------------------------------------------------------------
(* Names, lines and responses *)

Commanding == {"ate", "usbnet", "devctls", "regs", "style", "nat", "setnat", "cfun", "cgmr",
               "cpin", "pin", "iccid", "imsi", "getprofile", "fixprofile", "cgdcont",
               "setprofile", "setcont", "cops", "reg", "actset", "act", "dial", "status", "ip",
               "ipaddr", "query", "ctlq", "actq", "sigcops", "qeng", "endc", "hang"}

LEMMA CommandNames ==
  /\ Commands = Commanding
  /\ Commanding \cap {"urc", "none", "pause", "loop", "joining", "ended", "failed"} = {}
<1>1. \A op : op \in Commands <=> op \in Commanding
  BY DEF Commands, Bare, SingleOps, MultiOps, Commanding
<1>2. Commanding \cap {"urc", "none", "pause", "loop", "joining", "ended", "failed"} = {}
  BY DEF Commanding
<1> QED BY <1>1, <1>2

\* A caller that has no command has no response.
LEMMA NullFacts ==
  /\ NULL \in Responses /\ NULL.set = FALSE /\ NULL.lines = <<>> /\ Len(NULL.lines) = 0
  /\ NULL.final.prefix = "none"
  /\ Pending \in Responses /\ Pending.set = TRUE /\ Pending.lines = <<>> /\ Len(Pending.lines) = 0
  /\ Pending.final.prefix = "none"
<1>1. Line("none", "none", "none") \in Lines
  BY DEF Line, Lines, AllPrefixes, AllValues
<1>2. NULL \in Responses
  BY <1>1 DEF NULL, Responses
<1> QED BY <1>2 DEF NULL, Pending, Responses, Line

\* The lines of an answer to op (Says): one at most, with the prefix that the
\* command expects, and one at least where the command tells something.
LEMMA SaysFacts ==
  ASSUME NEW op \in Commands, modem \in Modems
  PROVE  /\ Says(op) \in Seq(Lines) /\ Len(Says(op)) \in {0, 1}
         /\ Len(Says(op)) = 1 =>
              /\ Says(op)[1] \in Lines /\ Says(op)[1].of = op
              /\ ~IsFinal(Says(op)[1]) /\ Says(op)[1].prefix # "+CMTI"
              /\ op \in Telling => Says(op)[1].prefix = PrefixOf(op)
              /\ op = "nat" => Says(op)[1].value = modem.nat
              /\ op = "ctlq" => Says(op)[1].value = yesno(modem.bound)
              /\ op = "actq" => Says(op)[1].value = yesno(modem.active)
         /\ op \in Telling /\ Knows(op) => Len(Says(op)) = 1
<1> DEFINE Good(l) == /\ l \in Lines /\ l.of = op /\ ~IsFinal(l) /\ l.prefix # "+CMTI"
                      /\ op \in Telling => l.prefix = PrefixOf(op)
                      /\ op = "nat" => l.value = modem.nat
                      /\ op = "ctlq" => l.value = yesno(modem.bound)
                      /\ op = "actq" => l.value = yesno(modem.active)
<1>1. op \in Commanding
  BY CommandNames
<1>2. /\ PrefixOf(op) \in AllPrefixes
      /\ PrefixOf(op) \notin {"OK", "error", "+CMTI"}
  BY <1>1 DEF PrefixOf, AllPrefixes, Commanding
<1>3. /\ op \in {"usbnet", "nat", "cpin", "imsi", "cgmr", "getprofile", "cops", "sigcops", "reg",
                 "actset", "actq", "ctlq", "qeng"} => Knows(op)
      /\ op \in {"style", "status", "query", "ip", "ipaddr", "dial", "act"} =>
           op \notin {"usbnet", "nat", "cpin", "imsi", "cgmr", "getprofile", "cops", "sigcops",
                      "reg", "actset", "actq", "ctlq", "qeng"}
  BY <1>1 DEF Knows, Commanding
<1>4. \A v \in AllValues : Line(op, PrefixOf(op), v) \in Lines
  BY <1>2 DEF Line, Lines
<1>5. yesno(modem.bound) \in AllValues /\ yesno(modem.active) \in AllValues
      /\ yesno(modem.registered) \in AllValues /\ modem.nat \in AllValues /\ modem.sim \in AllValues
  BY DEF yesno, AllValues, Modems
<1>6. CASE ~Knows(op) \/ op \in Bare
  <2>1. Says(op) = <<>>
    BY <1>3, <1>6 DEF Says, Bare
  <2> QED BY <2>1, <1>6, <1>3 DEF Telling, Bare
<1>7. CASE Knows(op) /\ op \notin Bare /\ op # "getprofile"
  <2>1. \E v \in AllValues :
          /\ op = "imsi" => Says(op) = <<Line(op, "digits", "imsi")>>
          /\ op = "cgmr" => Says(op) = <<Line(op, "version", "version")>>
          /\ op \notin {"imsi", "cgmr"} => Says(op) = <<Line(op, PrefixOf(op), v)>>
          /\ op = "nat" => v = modem.nat
          /\ op = "ctlq" => v = yesno(modem.bound)
          /\ op = "actq" => v = yesno(modem.active)
    <3>0. /\ ~(~Knows(op) \/ op \in Bare)
          /\ op # "getprofile"
      BY <1>7
    <3>1. CASE op = "nat"
      <4>1. Says(op) = <<Line(op, PrefixOf(op), modem.nat)>>
        BY <3>0, <3>1 DEF Says
      <4> QED BY <3>1, <4>1, <1>5
    <3>2. CASE op = "ctlq"
      <4>1. Says(op) = <<Line(op, PrefixOf(op), yesno(modem.bound))>>
        BY <3>0, <3>2 DEF Says
      <4> QED BY <3>2, <4>1, <1>5
    <3>3. CASE op \in {"actset", "actq"}
      <4>1. Says(op) = <<Line(op, PrefixOf(op), yesno(modem.active))>>
        BY <3>0, <3>3 DEF Says
      <4> QED BY <3>3, <4>1, <1>5
    <3>4. CASE op \in {"usbnet", "cpin", "imsi", "cgmr"}
      <4>1. /\ op = "usbnet" => Says(op) = <<Line(op, PrefixOf(op), "1")>>
            /\ op = "cpin" => Says(op) = <<Line(op, PrefixOf(op), modem.sim)>>
            /\ op = "imsi" => Says(op) = <<Line(op, "digits", "imsi")>>
            /\ op = "cgmr" => Says(op) = <<Line(op, "version", "version")>>
        BY <3>0, <3>4 DEF Says
      <4>2. "1" \in AllValues
        BY DEF AllValues
      <4> QED BY <3>4, <4>1, <4>2, <1>5
    <3>5. CASE op \in {"cops", "sigcops", "reg", "qeng"}
      <4>1. /\ op \in {"cops", "sigcops"} =>
                 Says(op) = <<Line(op, PrefixOf(op), IF modem.registered THEN "LTE" ELSE "none")>>
            /\ op = "reg" => Says(op) = <<Line(op, PrefixOf(op), yesno(modem.registered))>>
            /\ op = "qeng" =>
                 Says(op) = <<Line(op, PrefixOf(op), IF modem.style = "rg" THEN "NSA" ELSE "LTE")>>
        BY <3>0, <3>5 DEF Says
      <4>2. {"LTE", "none", "NSA"} \subseteq AllValues
        BY DEF AllValues
      <4> QED BY <3>5, <4>1, <4>2, <1>5
    <3>6. CASE op \notin {"nat", "ctlq", "actset", "actq", "usbnet", "cpin", "imsi", "cgmr",
                          "cops", "sigcops", "reg", "qeng"}
      <4>1. Says(op) = <<Line(op, PrefixOf(op), "value")>>
        BY <3>0, <3>6 DEF Says
      <4>2. "value" \in AllValues
        BY DEF AllValues
      <4> QED BY <3>6, <4>1, <4>2
    <3> QED BY <3>1, <3>2, <3>3, <3>4, <3>5, <3>6
  <2>2. \E l : Says(op) = <<l>> /\ Good(l)
    <3>1. PICK v \in AllValues :
            /\ op = "imsi" => Says(op) = <<Line(op, "digits", "imsi")>>
            /\ op = "cgmr" => Says(op) = <<Line(op, "version", "version")>>
            /\ op \notin {"imsi", "cgmr"} => Says(op) = <<Line(op, PrefixOf(op), v)>>
            /\ op = "nat" => v = modem.nat
            /\ op = "ctlq" => v = yesno(modem.bound)
            /\ op = "actq" => v = yesno(modem.active)
      BY <2>1
    <3>2. CASE op \notin {"imsi", "cgmr"}
      <4>1. Good(Line(op, PrefixOf(op), v)) /\ Says(op) = <<Line(op, PrefixOf(op), v)>>
        BY <3>1, <3>2, <1>2, <1>4 DEF Line, IsFinal
      <4> QED BY <4>1
    <3>3. CASE op \in {"imsi", "cgmr"}
      <4>1. Line(op, "digits", "imsi") \in Lines /\ Line(op, "version", "version") \in Lines
        BY DEF Line, Lines, AllPrefixes, AllValues
      <4>2. Good(Line(op, "digits", "imsi")) /\ Good(Line(op, "version", "version"))
        BY <3>3, <4>1 DEF Line, IsFinal, Telling
      <4> QED BY <3>1, <4>2, <3>3, <1>2, <1>4 DEF Line, IsFinal, Telling
    <3> QED BY <3>2, <3>3
  <2>3. PICK l : Says(op) = <<l>> /\ Good(l)
    BY <2>2
  <2>4. Says(op) \in Seq(Lines) /\ Len(Says(op)) = 1 /\ Says(op)[1] = l
    BY <2>3
  <2> QED BY <2>3, <2>4
<1>8. CASE op = "getprofile"
  <2>1. Says(op) = <<>> \/ Says(op) = <<Line(op, PrefixOf(op), "profile")>>
    BY <1>8, <1>3 DEF Says, Bare
  <2>2. Line(op, PrefixOf(op), "profile") \in Lines
    BY <1>4 DEF AllValues
  <2>3. CASE Says(op) = <<>>
    BY <2>3, <1>8 DEF Telling
  <2>4. CASE Says(op) = <<Line(op, PrefixOf(op), "profile")>>
    BY <2>2, <2>4, <1>8, <1>2 DEF Line, IsFinal, Telling
  <2> QED BY <2>1, <2>3, <2>4
<1> QED BY <1>6, <1>7, <1>8

\* What a command does to the modem (Effect).
LEMMA EffectFacts ==
  ASSUME NEW op \in Commands, modem \in Modems, NEW m, m = Effect(op)
  PROVE  /\ m \in Modems /\ m.style = modem.style
         /\ m.nat = (IF op = "setnat" THEN newNat ELSE modem.nat)
         /\ op \notin {"act", "dial"} => (m.active => modem.active) /\ (m.bound => modem.bound)
         /\ op = "hang" => ~m.bound
         /\ op \notin {"setnat", "pin", "act", "dial", "hang"} => m = modem
<1> DEFINE n == newNat
           k == modem.style = "asr" /\ modem.active
<1>0. n \in {"0", "1"}
  BY DEF newNat
<1>0a. k \in BOOLEAN
  BY Zenon
<1>1. CASE op = "setnat"
  <2>1. m = [modem EXCEPT !.nat = n]
    BY <1>1 DEF Effect
  <2> HIDE DEF n
  <2>2. m \in Modems /\ m.style = modem.style /\ m.nat = n
        /\ m.active = modem.active /\ m.bound = modem.bound
    BY <2>1, <1>0 DEF Modems
  <2> QED BY <2>2, <1>1 DEF n
<1>2. CASE op = "pin"
  <2>1. m = [modem EXCEPT !.sim = "READY"]
    BY <1>2 DEF Effect
  <2> QED BY <2>1, <1>2 DEF Modems
<1>3. CASE op = "act" /\ Knows(op)
  <2>1. m = [modem EXCEPT !.active = TRUE]
    BY <1>3 DEF Effect
  <2> QED BY <2>1, <1>3 DEF Modems
<1>4. CASE op = "dial" /\ Knows(op)
  <2>1. m = [modem EXCEPT !.active = TRUE, !.bound = TRUE]
    BY <1>4 DEF Effect
  <2> QED BY <2>1, <1>4 DEF Modems
<1>5. CASE op = "hang"
  <2>1. m = [modem EXCEPT !.bound = FALSE, !.active = k]
    BY <1>5 DEF Effect
  <2>2. k => modem.active
    OBVIOUS
  <2> HIDE DEF k
  <2>3. m \in Modems /\ m.style = modem.style /\ m.nat = modem.nat /\ m.active = k /\ m.bound = FALSE
    BY <2>1, <1>0a DEF Modems
  <2> QED BY <2>2, <2>3, <1>5
<1>6. CASE op \notin {"setnat", "pin", "hang"} /\ ~(op \in {"act", "dial"} /\ Knows(op))
  <2>1. m = modem
    BY <1>6 DEF Effect
  <2> QED BY <2>1, <1>6
<1> QED BY <1>1, <1>2, <1>3, <1>4, <1>5, <1>6

\* A line that was put into a sequence (Urc).
LEMMA Inserted ==
  ASSUME NEW S, NEW s \in Seq(S), NEW i \in 1 .. Len(s) + 1, NEW e \in S,
         NEW t, t = InsertAt(s, i, e)
  PROVE  /\ t \in Seq(S) /\ Len(t) = Len(s) + 1
         /\ \A j \in 1 .. Len(t) : t[j] = IF j < i THEN s[j] ELSE IF j = i THEN e ELSE s[j - 1]
<1> DEFINE a == SubSeq(s, 1, i - 1)
           b == SubSeq(s, i, Len(s))
           c == a \o <<e>>
<1>1. t = c \o b
  BY DEF InsertAt
<1>2. Len(s) \in Nat /\ i \in Nat \ {0} /\ i <= Len(s) + 1
  OBVIOUS
<1>3. /\ a \in Seq(S) /\ Len(a) = i - 1
      /\ \A j \in 1 .. i - 1 : a[j] = s[j]
  BY <1>2
<1>4. /\ b \in Seq(S) /\ Len(b) = Len(s) + 1 - i
      /\ \A j \in 1 .. Len(s) + 1 - i : b[j] = s[i + j - 1]
  BY <1>2
<1> HIDE DEF a, b
<1>5. /\ c \in Seq(S) /\ Len(c) = i
      /\ \A j \in 1 .. i - 1 : c[j] = s[j]
      /\ c[i] = e
  BY <1>2, <1>3
<1> HIDE DEF c
<1>6. /\ t \in Seq(S) /\ Len(t) = Len(s) + 1
      /\ \A j \in 1 .. Len(t) : t[j] = IF j <= i THEN c[j] ELSE b[j - i]
  <2>1. Len(c) = i /\ Len(b) = Len(s) + 1 - i /\ Len(b) \in Nat /\ Len(c) \in Nat
    BY <1>2, <1>4, <1>5
  <2>0. c \in Seq(S) /\ b \in Seq(S)
    BY <1>4, <1>5
  <2>2. /\ t \in Seq(S) /\ Len(t) = Len(c) + Len(b)
        /\ \A j \in 1 .. Len(c) + Len(b) : t[j] = IF j <= Len(c) THEN c[j] ELSE b[j - Len(c)]
    BY <2>0, <1>1, ConcatProperties
  <2>3. Len(c) + Len(b) = Len(s) + 1
    BY <2>1, <1>2
  <2> QED BY <2>1, <2>2, <2>3
<1>7. ASSUME NEW j \in 1 .. Len(t), j > i
      PROVE  t[j] = s[j - 1]
  <2>1. j - i \in 1 .. Len(s) + 1 - i /\ j \in Nat
    BY <1>2, <1>6, <1>7
  <2>2. t[j] = b[j - i] /\ b[j - i] = s[i + (j - i) - 1] /\ i + (j - i) - 1 = j - 1
    BY <2>1, <1>2, <1>4, <1>6, <1>7
  <2> QED BY <2>2
<1> QED BY <1>2, <1>5, <1>6, <1>7

\* The lines of an answer behind those under way (ModemAnswers).
LEMMA Joined ==
  ASSUME NEW S, NEW s \in Seq(S), NEW t \in Seq(S), Len(t) <= 1, NEW e \in S,
         NEW w, w = s \o t \o <<e>>
  PROVE  /\ w \in Seq(S) /\ Len(w) = Len(s) + Len(t) + 1
         /\ \A i \in 1 .. Len(s) : w[i] = s[i]
         /\ Len(t) = 1 => w[Len(s) + 1] = t[1]
         /\ w[Len(w)] = e
<1>1. Len(s) \in Nat /\ Len(t) \in Nat
  OBVIOUS
<1> DEFINE v == s \o t
<1>2. /\ v \in Seq(S) /\ Len(v) = Len(s) + Len(t)
      /\ \A i \in 1 .. Len(s) : v[i] = s[i]
      /\ Len(t) = 1 => v[Len(s) + 1] = t[1]
  BY <1>1
<1>3. w = v \o <<e>>
  OBVIOUS
<1> HIDE DEF v
<1> QED BY <1>1, <1>2, <1>3

\* The line read is the first.
LEMMA TailMoves ==
  ASSUME NEW S, NEW s \in Seq(S), s # <<>>
  PROVE  /\ Head(s) = s[1] /\ Head(s) \in S /\ Tail(s) \in Seq(S)
         /\ Len(s) \in Nat \ {0} /\ Len(Tail(s)) = Len(s) - 1
         /\ \A i \in 1 .. Len(Tail(s)) : Tail(s)[i] = s[i + 1]
  OBVIOUS

-----------------------------------------------------------------------------
(* Types *)

\* What the caller sees of its response (Returned).
First == IF response.lines = <<>> THEN "none" ELSE Head(response.lines).value
Invalid == /\ TypeOf(step) \in {SINGLELINE, NUMERIC} /\ step # "usbnet"
           /\ response.final.prefix = "OK" /\ response.lines = <<>>
Ok(err) == ~err /\ ~Invalid /\ response.final.prefix = "OK"
Bad(err) == err \/ Invalid

Handles(ok, bad, v) ==
  \/ requestSetupDataCall(ok, bad, v)
  \/ /\ UNCHANGED events
     /\ \/ at_handshake(bad) \/ atc_init(ok, bad, v)
        \/ requestBaseBandVersion \/ requestGetSIMStatus(ok, v)
        \/ requestEnterSimPin \/ requestGetICCID \/ requestGetIMSI
        \/ requestGetProfile(ok) \/ requestSetProfile(ok)
        \/ requestRegistrationState(ok, v) \/ requestGetIPAddress(ok)
        \/ requestQueryDataCall(ok, v) \/ requestGetSignalInfo(ok, v)
        \/ requestDeactivateDefaultPDP

LEMMA ReturnedHandles ==
  ASSUME NEW err \in BOOLEAN, Returned(err)
  PROVE  /\ Ok(err) \in BOOLEAN /\ Bad(err) \in BOOLEAN
         /\ Handles(Ok(err), Bad(err), First)
         /\ quitSent' = (quitSent \/ step = "hang")
<1>1. Ok(err) \in BOOLEAN /\ Bad(err) \in BOOLEAN
  BY Zenon DEF Ok, Bad
<1>2. Handles(Ok(err), Bad(err), First)
  BY Zenon DEF Returned, Handles, Ok, Bad, First, Invalid
<1>3. quitSent' = (quitSent \/ step = "hang")
  BY Zenon DEF Returned
<1> QED BY <1>1, <1>2, <1>3

HostTypes ==
  /\ step \in Steps /\ why \in {"start", "net", "check"} /\ tries \in Nat
  /\ asr \in BOOLEAN /\ ps \in BOOLEAN /\ conn \in {Down, Up, Unknow} /\ again \in BOOLEAN

LEMMA PostedTypes ==
  ASSUME events \in Seq(EventNames), NEW e \in EventNames
  PROVE  /\ Posted(e) \in Seq(EventNames)
         /\ \A i \in 1 .. Len(Posted(e)) : Posted(e)[i] = e \/ (\E j \in 1 .. Len(events) : Posted(e)[i] = events[j])
<1>1. Posted(e) = events \/ Posted(e) = Append(events, e)
  BY DEF Posted
<1> QED BY <1>1

LEMMA HandledTypes ==
  ASSUME HostTypes, events \in Seq(EventNames), NEW ok \in BOOLEAN, NEW bad \in BOOLEAN, NEW v,
         Handles(ok, bad, v)
  PROVE  step \in Commands /\ HostTypes' /\ events' \in Seq(EventNames)
<1>0. /\ Commanding \subseteq Steps
      /\ {"pause", "loop", "joining", "ended", "failed"} \subseteq Steps
      /\ Commands = Commanding
  BY CommandNames DEF Steps
<1>0a. SetupOp \in Commanding /\ QueryOp \in Commanding /\ IpOp \in Commanding
       /\ \A a \in BOOLEAN : DialIf(a) \in Commanding \cup {"loop"}
  BY DEF SetupOp, QueryOp, IpOp, DialIf, Commanding
<1>1. CASE requestSetupDataCall(ok, bad, v)
  <2>1. /\ step \in Commanding /\ step' \in Commanding \cup {"loop"}
        /\ UNCHANGED <<why, asr, ps, conn, again>>
    BY <1>0a, <1>1 DEF requestSetupDataCall, Polled, Then, Commanding
  <2>2. tries' \in Nat
    <3>1. tries + 1 \in Nat
      BY DEF HostTypes
    <3> QED BY <3>1, <1>1 DEF requestSetupDataCall, Polled, Then, HostTypes
  <2>3. events' \in Seq(EventNames)
    <3>1. Posted("CALL") \in Seq(EventNames)
      BY PostedTypes DEF EventNames
    <3> QED BY <3>1, <1>1 DEF requestSetupDataCall, Polled
  <2> QED BY <1>0, <2>1, <2>2, <2>3 DEF HostTypes
<1>2. CASE at_handshake(bad) /\ UNCHANGED events
  <2>1. tries + 1 \in Nat
    BY DEF HostTypes
  <2> QED BY <1>0, <1>2, <2>1 DEF at_handshake, HostTypes, Commanding
<1>3. CASE atc_init(ok, bad, v) /\ UNCHANGED events
  <2>1. StyleFrom(ok) \in BOOLEAN
    BY Zenon DEF StyleFrom
  <2>2. (again \/ ~bad) \in BOOLEAN
    BY Zenon
  <2>3. asr' \in BOOLEAN /\ again' \in BOOLEAN
    BY <1>3, <2>1, <2>2, Zenon DEF atc_init, HostTypes, Then
  <2>4. step \in Commanding /\ step' \in Commanding /\ UNCHANGED <<why, tries, ps, conn>>
    BY <1>3 DEF atc_init, Then, Commanding
  <2> QED BY <1>0, <1>3, <2>3, <2>4 DEF HostTypes
<1>4. CASE /\ requestBaseBandVersion \/ requestGetSIMStatus(ok, v) \/ requestEnterSimPin
              \/ requestGetICCID \/ requestGetIMSI \/ requestGetProfile(ok) \/ requestSetProfile(ok)
              \/ requestDeactivateDefaultPDP
           /\ UNCHANGED events
  <2>1. step \in Commanding /\ step' \in Commanding \cup {"joining"}
        /\ UNCHANGED <<why, tries, asr, ps, conn, again>>
    BY <1>4 DEF requestBaseBandVersion, requestGetSIMStatus, requestEnterSimPin, requestGetICCID,
                requestGetIMSI, requestGetProfile, requestSetProfile, StartProfile,
                requestDeactivateDefaultPDP, Then, Commanding
  <2> QED BY <1>0, <1>4, <2>1 DEF HostTypes
<1>5. CASE requestRegistrationState(ok, v) /\ UNCHANGED events
  <2>1. step \in Commanding
    BY <1>5 DEF requestRegistrationState, Commanding
  <2>2. CASE Then("reg")
    BY <1>0, <1>5, <2>1, <2>2 DEF Then, HostTypes, Commanding
  <2>3. ASSUME NEW a \in BOOLEAN, AfterRegistration(a)
        PROVE  HostTypes'
    <3>1. step' \in Commanding \cup {"loop"}
      BY <1>0a, <2>3 DEF AfterRegistration
    <3>2. ps' \in BOOLEAN /\ why' = "start" /\ UNCHANGED <<tries, asr, conn, again>>
      BY <2>3 DEF AfterRegistration
    <3> QED BY <1>0, <3>1, <3>2 DEF HostTypes
  <2>4. FALSE \in BOOLEAN /\ (ok /\ v = "yes") \in BOOLEAN
    BY Zenon
  <2> QED BY <1>0, <1>5, <2>1, <2>2, <2>3, <2>4 DEF requestRegistrationState
<1>6. CASE (requestGetIPAddress(ok) \/ requestQueryDataCall(ok, v)) /\ UNCHANGED events
  <2>1. step \in Commanding
    BY <1>6 DEF requestGetIPAddress, requestQueryDataCall, Commanding
  <2>2. step' \in Commanding \cup {"loop"} /\ conn' \in {conn, Up, Down}
        /\ UNCHANGED <<why, tries, asr, ps, again>>
    BY <1>0a, <1>6 DEF requestGetIPAddress, requestQueryDataCall, CallSeen, Then, HostTypes, Commanding
  <2> QED BY <1>0, <1>6, <2>1, <2>2 DEF HostTypes
<1>7. CASE requestGetSignalInfo(ok, v) /\ UNCHANGED events
  <2>1. step \in Commanding
    BY <1>7 DEF requestGetSignalInfo, Commanding
  <2>2. step' \in Commanding \cup {"loop"} /\ why' \in {why, "check"}
        /\ UNCHANGED <<tries, asr, ps, conn, again>>
    BY <1>0a, <1>7 DEF requestGetSignalInfo, CheckCall, Then, Commanding
  <2> QED BY <1>0, <1>7, <2>1, <2>2 DEF HostTypes
<1> QED BY <1>1, <1>2, <1>3, <1>4, <1>5, <1>6, <1>7 DEF Handles

Typed == AtcTypes /\ Waits

\* A command returns, with its answer or without.
LEMMA OverTypes ==
  ASSUME Typed, NEW err \in BOOLEAN, Returned(err), Cleared,
         UNCHANGED <<closed, readVars, stopAsked, device, waitQuit, modemVars, reboots, nchange,
                     nstop>>,
         slip' \in {"never", "running", "starting"}, nfault' \in 0 .. MaxFaults
  PROVE  Typed' /\ step \in Commands
<1>1. HostTypes /\ events \in Seq(EventNames)
  BY DEF Typed, AtcTypes, HostTypes
<1>2. step \in Commands /\ HostTypes' /\ events' \in Seq(EventNames)
  BY <1>1, ReturnedHandles, HandledTypes
<1>3. quitSent' \in BOOLEAN
  BY Zenon DEF Returned
<1>4. AtcTypes'
  BY <1>2, <1>3, NullFacts DEF Typed, AtcTypes, HostTypes, Cleared, readVars, modemVars
<1>5. Waits'
  BY NullFacts DEF Waits, Cleared
<1> QED BY <1>2, <1>4, <1>5 DEF Typed

LEMMA SlipsTypes == ASSUME Slips PROVE slip' \in {"never", "running", "starting"} \ {"never"}
  BY DEF Slips

\* One more fault stays within the bound.
LEMMA FaultsBounded ==
  ASSUME Typed, nfault' = nfault \/ (nfault < MaxFaults /\ nfault' = nfault + 1)
  PROVE  nfault' \in 0 .. MaxFaults
<1>1. nfault \in 0 .. MaxFaults /\ MaxFaults \in Nat
  BY BoundsAssumption DEF Typed, AtcTypes
<1> QED BY <1>1

LEMMA ReturnTypes == ASSUME Typed, Return PROVE Typed' /\ step \in Commands
<1>1. closed \in BOOLEAN /\ Returned(closed) /\ slip' = slip /\ nfault' = nfault
  BY DEF Typed, AtcTypes, Return, countVars
<1>2. slip' \in {"never", "running", "starting"} /\ nfault' \in 0 .. MaxFaults
  BY <1>1 DEF Typed, AtcTypes
<1> QED BY <1>1, <1>2, OverTypes DEF Return, countVars

LEMMA TimeoutTypes == ASSUME Typed, Timeout PROVE Typed' /\ step \in Commands
<1>1. TRUE \in BOOLEAN /\ Returned(TRUE)
  BY DEF Timeout
<1>2. slip' \in {"never", "running", "starting"}
  BY SlipsTypes DEF Typed, AtcTypes, Timeout
<1>3. nfault' \in 0 .. MaxFaults
  BY FaultsBounded DEF Timeout, MayFault
<1> QED BY <1>1, <1>2, <1>3, OverTypes DEF Timeout

LEMMA RefusedTypes == ASSUME Typed, Refused PROVE Typed' /\ step \in Commands
<1>1. TRUE \in BOOLEAN /\ Returned(TRUE) /\ nfault' = nfault
  BY DEF Refused
<1>2. slip' \in {"never", "running", "starting"} /\ nfault' \in 0 .. MaxFaults
  BY <1>1, SlipsTypes DEF Typed, AtcTypes, Refused
<1>3. Cleared
  BY DEF Refused, Cleared, chanVars, Typed, Waits
<1> QED BY <1>1, <1>2, <1>3, OverTypes DEF Refused, chanVars

LEMMA SendTypes == ASSUME Typed, Send PROVE Typed'
<1>1. pending' \in Seq(Commands)
  BY DEF Typed, AtcTypes, Send
<1>2. AtcTypes'
  BY <1>1, NullFacts DEF Typed, AtcTypes, Send, hostVars, readVars, deviceVars, countVars
<1>3. Waits'
  BY NullFacts DEF Waits, Send, hostVars
<1> QED BY <1>2, <1>3 DEF Typed

\* The main thread goes on without a command in hand.
LEMMA IdleTypes ==
  ASSUME Typed, PauseOver \/ MainEvent \/ PollTimeout \/ MainStop \/ Join
  PROVE  Typed'
<1>0. step \in {"pause", "loop", "joining"} /\ step \notin Commands
  BY CommandNames DEF PauseOver, MainEvent, PollTimeout, MainStop, Join, LoopStep
<1>1. step' \in {"usbnet", "cops", "sigcops", "joining", "hang", "ended"}
  BY DEF PauseOver, MainEvent, PollTimeout, MainStop, Join, Then
<1>2. step' \in Steps
  BY <1>1, CommandNames DEF Steps, Commanding
<1>3. why' \in {why, "net"} /\ UNCHANGED <<tries, asr, ps, conn, again>>
  BY DEF PauseOver, MainEvent, PollTimeout, MainStop, Join, Then
<1>4. UNCHANGED <<mpc, response, closed, reader, sms, device, waitQuit, stopAsked, modemVars, countVars>>
  BY DEF PauseOver, MainEvent, PollTimeout, MainStop, Join, LoopStep, chanVars, readVars, deviceVars
<1>5. events' \in Seq(EventNames) /\ quitSent' \in BOOLEAN
  <2>1. events \in Seq(EventNames) /\ quitSent \in BOOLEAN
    BY DEF Typed, AtcTypes
  <2>2. events' = events \/ (events # <<>> /\ events' = Tail(events))
    BY DEF PauseOver, MainEvent, PollTimeout, MainStop, Join
  <2>3. quitSent' = quitSent \/ quitSent' = TRUE
    BY DEF PauseOver, MainEvent, PollTimeout, MainStop, Join, deviceVars
  <2>4. events' \in Seq(EventNames)
    BY <2>1, <2>2
  <2> QED BY <2>1, <2>3, <2>4
<1>6. AtcTypes'
  BY <1>2, <1>3, <1>4, <1>5 DEF Typed, AtcTypes, modemVars, countVars
<1>7. mpc = "ready" /\ response = NULL
  BY <1>0 DEF Typed, Waits, AtcTypes
<1>8. Waits'
  BY <1>4, <1>7, NullFacts DEF Waits
<1> QED BY <1>6, <1>8 DEF Typed

LEMMA AgainTypes == ASSUME Typed, Again PROVE Typed'
<1>1. step' = "ate" /\ "ate" \in Steps
  BY CommandNames DEF Again, Fresh, Steps, Commanding
<1>2. pending' \in Seq(Commands) /\ wire' \in Seq(Lines) /\ events' \in Seq(EventNames)
  BY DEF Again, Fresh
<1>3. /\ mpc' = "ready" /\ response' = NULL /\ why' = "start" /\ tries' = 0 /\ conn' = Unknow
      /\ reader' = "running" /\ device' = "running"
      /\ UNCHANGED <<asr, modem, profile, told, slip, reboots, nfault, nchange, nstop>>
  BY DEF Again, Fresh, countVars
<1>4. /\ ps' \in BOOLEAN /\ again' \in BOOLEAN /\ closed' \in BOOLEAN /\ sms' \in BOOLEAN
      /\ stopAsked' \in BOOLEAN /\ waitQuit' \in BOOLEAN /\ quitSent' \in BOOLEAN
      /\ hangup' \in BOOLEAN
  BY DEF Again, Fresh, Typed, AtcTypes
<1>5. AtcTypes'
  BY <1>1, <1>2, <1>3, <1>4, NullFacts DEF Typed, AtcTypes
<1>6. Waits'
  BY <1>3, NullFacts DEF Waits
<1> QED BY <1>5, <1>6 DEF Typed

\* The reader takes a line: it becomes part of the response, or is unsolicited.
LEMMA ReadTypes == ASSUME Typed, ReadLine PROVE Typed'
<1> DEFINE l == Head(wire)
<1>1. l \in Lines /\ wire' \in Seq(Lines)
  BY DEF Typed, AtcTypes, ReadLine, readline
<1>2. response' \in Responses /\ mpc' \in {"ready", "waiting", "woken"} /\ closed' = closed
      /\ (mpc' = "ready" <=> mpc = "ready") /\ response'.set = response.set
      /\ (mpc = "ready" => response' = response)
      /\ (TypeOf(step) \in {SINGLELINE, NUMERIC} => Len(response'.lines) <= 1)
  <2>1. response \in Responses /\ mpc \in {"ready", "waiting", "woken"}
    BY DEF Typed, AtcTypes
  <2>2. mpc = "ready" => response.set = FALSE
    BY NullFacts DEF Typed, Waits
  <2>3. TypeOf(step) \in {SINGLELINE, NUMERIC} => Len(response.lines) <= 1
    BY DEF Typed, Waits
  <2>4. CASE UNCHANGED chanVars
    BY <2>1, <2>3, <2>4 DEF chanVars
  <2>5. CASE response.set /\ response' = [response EXCEPT !.final = l] /\ CondSignal /\ closed' = closed
    <3>1. response' \in Responses /\ response'.set = response.set /\ response'.lines = response.lines
      <4> HIDE DEF l
      <4> QED BY <1>1, <2>1, <2>5 DEF Responses
    <3>2. mpc' \in {"ready", "waiting", "woken"} /\ (mpc' = "ready" <=> mpc = "ready")
      BY <2>1, <2>5 DEF CondSignal
    <3> QED BY <2>2, <2>3, <2>5, <3>1, <3>2
  <2>6. CASE /\ response.set /\ Expected(l) /\ response' = [response EXCEPT !.lines = Append(@, l)]
             /\ UNCHANGED <<mpc, closed>>
    <3> DEFINE more == Append(response.lines, l)
    <3>1. response.lines \in Seq(Lines)
      BY <2>1 DEF Responses
    <3>2. more \in Seq(Lines) /\ (response.lines = <<>> => Len(more) = 1)
      BY <1>1, <3>1
    <3>3. response' = [response EXCEPT !.lines = more]
      BY <2>6
    <3> HIDE DEF more
    <3>4. response' \in Responses /\ response'.set = response.set /\ response'.lines = more
      BY <3>2, <3>3, <2>1 DEF Responses
    <3>5. TypeOf(step) \in {SINGLELINE, NUMERIC} => response.lines = <<>>
      BY <2>6 DEF Expected, NO_RESULT, NUMERIC, SINGLELINE
    <3>6. mpc # "ready" /\ mpc' = mpc /\ closed' = closed
      BY <2>2, <2>6, Zenon
    <3> QED BY <2>1, <3>2, <3>4, <3>5, <3>6
  <2>7. \/ UNCHANGED chanVars
        \/ response.set /\ response' = [response EXCEPT !.final = l] /\ CondSignal /\ closed' = closed
        \/ response.set /\ Expected(l) /\ response' = [response EXCEPT !.lines = Append(@, l)]
           /\ UNCHANGED <<mpc, closed>>
    BY DEF ReadLine, processLine
  <2> QED BY <2>4, <2>5, <2>6, <2>7
<1>3. events' \in Seq(EventNames)
  <2>1. events \in Seq(EventNames) /\ Posted("CALL") \in Seq(EventNames)
        /\ Posted("NET") \in Seq(EventNames)
    BY PostedTypes DEF Typed, AtcTypes, EventNames
  <2>2. events' \in {events, Posted("CALL"), Posted("NET")}
    BY DEF ReadLine, processLine, handleUnsolicited
  <2> QED BY <2>1, <2>2
<1>4. slip' \in {"never", "running", "starting"}
  <2>1. slip' = slip \/ Slips
    BY DEF ReadLine
  <2> QED BY <2>1, SlipsTypes DEF Typed, AtcTypes
<1>5. sms' \in BOOLEAN
  <2>1. sms' = sms \/ sms' = TRUE \/ sms' = FALSE
    BY DEF ReadLine
  <2> QED BY <2>1 DEF Typed, AtcTypes
<1>6. UNCHANGED <<hostVars, reader, stopAsked, deviceVars, modem, profile, pending, told,
                  hangup, reboots, nfault, nchange, nstop>>
  BY DEF ReadLine
<1> HIDE DEF l
<1>7. closed' \in BOOLEAN
  BY <1>2 DEF Typed, AtcTypes
<1>8. AtcTypes'
  BY <1>1, <1>2, <1>3, <1>4, <1>5, <1>6, <1>7 DEF Typed, AtcTypes, hostVars, deviceVars
<1>9. Waits'
  BY <1>2, <1>6 DEF Typed, Waits, hostVars
<1> QED BY <1>8, <1>9 DEF Typed

LEMMA CloseTypes == ASSUME Typed, onReaderClosed \/ DeviceLeaves PROVE Typed'
<1>1. /\ mpc' \in {"ready", "waiting", "woken"} /\ (mpc' = "ready" <=> mpc = "ready")
      /\ response' = response /\ closed' = TRUE
  BY DEF Typed, AtcTypes, onReaderClosed, DeviceLeaves, at_close, CondSignal
<1>2. reader' \in {"running", "gone"} /\ device' \in {"running", "done"} /\ sms' = sms
  BY DEF Typed, AtcTypes, onReaderClosed, DeviceLeaves, deviceVars, readVars
<1>3. events' \in Seq(EventNames)
  <2>1. events' = events \/ events' = Append(events, "DISCONNECTED")
    BY DEF onReaderClosed, DeviceLeaves
  <2>2. events \in Seq(EventNames) /\ "DISCONNECTED" \in EventNames
    BY DEF Typed, AtcTypes, EventNames
  <2> QED BY <2>1, <2>2
<1>4. slip' \in {"never", "running", "starting"}
  <2>1. slip' = slip \/ Slips
    BY DEF onReaderClosed, DeviceLeaves, countVars
  <2> QED BY <2>1, SlipsTypes DEF Typed, AtcTypes
<1>5. UNCHANGED <<hostVars, stopAsked, waitQuit, quitSent, modemVars, reboots, nfault, nchange, nstop>>
  BY DEF onReaderClosed, DeviceLeaves, deviceVars, countVars
<1>6. AtcTypes'
  BY <1>1, <1>2, <1>3, <1>4, <1>5 DEF Typed, AtcTypes, hostVars, modemVars
<1>7. Waits'
  BY <1>1, <1>5 DEF Typed, Waits, hostVars
<1> QED BY <1>6, <1>7 DEF Typed

\* The modem and the network move, the host does not.
LEMMA EnvTypes ==
  ASSUME Typed, UNCHANGED modemOnly, modem' \in Modems, profile' \in Profiles,
         pending' \in Seq(Commands), told' \in BOOLEAN, wire' \in Seq(Lines), hangup' \in BOOLEAN,
         slip' \in {"never", "running", "starting"}, reboots' \in Nat,
         nfault' \in 0 .. MaxFaults, nchange' \in 0 .. MaxChanges, nstop' \in 0 .. MaxStops
  PROVE  Typed'
<1>1. AtcTypes'
  BY DEF Typed, AtcTypes, modemOnly, hostVars, chanVars, readVars, deviceVars
<1>2. Waits'
  BY DEF Typed, Waits, modemOnly, hostVars, chanVars
<1> QED BY <1>1, <1>2 DEF Typed

\* What an answer looks like on the wire.
AnswerTo(op) == Says(op) \o <<Line(op, IF Knows(op) THEN "OK" ELSE "error", "none")>>

LEMMA FinalLine ==
  ASSUME NEW op \in Commands, NEW e, e = Line(op, IF Knows(op) THEN "OK" ELSE "error", "none")
  PROVE  /\ e \in Lines /\ e.of = op /\ IsFinal(e)
         /\ e.prefix = IF Knows(op) THEN "OK" ELSE "error"
<1>1. {"OK", "error", "none"} \subseteq AllPrefixes /\ "none" \in AllValues
  BY DEF AllPrefixes, AllValues
<1> QED BY <1>1 DEF Line, Lines, IsFinal

LEMMA UrcLine ==
  ASSUME NEW p \in UrcPrefixes, NEW e, e = Line("urc", p, "no")
  PROVE  e \in Lines /\ e.of = "urc" /\ e.prefix = p
<1>1. p \in AllPrefixes /\ "no" \in AllValues
  BY DEF AllPrefixes, AllValues
<1> QED BY <1>1 DEF Line, Lines

LEMMA UrcTypes ==
  ASSUME wire \in Seq(Lines), NEW p \in UrcPrefixes, Urc(p)
  PROVE  wire' \in Seq(Lines)
<1>1. PICK i \in 1 .. Len(wire) + 1 : wire' = InsertAt(wire, i, Line("urc", p, "no"))
  BY DEF Urc
<1>2. Line("urc", p, "no") \in Lines
  BY UrcLine
<1> QED BY <1>1, <1>2, Inserted

LEMMA AnswerTypes == ASSUME Typed, ModemAnswers PROVE Typed'
<1> DEFINE op == Head(pending)
           e == Line(op, IF Knows(op) THEN "OK" ELSE "error", "none")
<1>1. /\ op \in Commands /\ pending' \in Seq(Commands) /\ modem \in Modems /\ wire \in Seq(Lines)
      /\ profile \in Profiles
  BY DEF Typed, AtcTypes, ModemAnswers
<1>2. modem' \in Modems
  <2>1. modem' = Effect(op)
    BY DEF ModemAnswers
  <2> HIDE DEF op
  <2> QED BY <1>1, <2>1, EffectFacts
<1>3. wire' \in Seq(Lines)
  <2>1. wire' = wire \o Says(op) \o <<e>>
    BY DEF ModemAnswers
  <2> HIDE DEF op
  <2>2. e \in Lines
    BY <1>1, FinalLine
  <2>3. Says(op) \in Seq(Lines)
    BY <1>1, SaysFacts
  <2> HIDE DEF e
  <2> QED BY <1>1, <2>1, <2>2, <2>3
<1>4. profile' \in Profiles
  <2>1. profile' = profile \/ profile' = [profile EXCEPT !.empty = FALSE]
        \/ profile' = [profile EXCEPT !.differs = FALSE]
    BY DEF ModemAnswers
  <2> QED BY <1>1, <2>1 DEF Profiles
<1>5. UNCHANGED <<modemOnly, hangup, countVars>>
  BY DEF ModemAnswers
<1>6. told' \in BOOLEAN
  <2>1. told' = (told \/ op = "cfun")
    BY DEF ModemAnswers
  <2> HIDE DEF op
  <2> QED BY <2>1, Zenon
<1> QED BY <1>1, <1>2, <1>3, <1>4, <1>5, <1>6, EnvTypes DEF Typed, AtcTypes, countVars

\* A modem that changed in one of these ways is a modem.
LEMMA ModemsChange ==
  ASSUME modem \in Modems
  PROVE  /\ [modem EXCEPT !.awake = FALSE, !.active = FALSE, !.bound = FALSE] \in Modems
         /\ [modem EXCEPT !.awake = TRUE] \in Modems
         /\ [modem EXCEPT !.registered = TRUE] \in Modems
         /\ [modem EXCEPT !.registered = FALSE, !.active = FALSE, !.bound = FALSE] \in Modems
         /\ [modem EXCEPT !.active = FALSE, !.bound = FALSE] \in Modems
  BY DEF Modems

LEMMA RestartTypes == ASSUME Typed, Restart \/ Wake PROVE Typed'
<1>0. modem \in Modems /\ pending \in Seq(Commands) /\ hangup \in BOOLEAN /\ told \in BOOLEAN
  BY DEF Typed, AtcTypes
<1>1. modem' \in Modems /\ pending' \in Seq(Commands) /\ hangup' \in BOOLEAN /\ told' \in BOOLEAN
  <2>1. modem' \in Modems
    BY <1>0, ModemsChange DEF Restart, Wake
  <2>2. pending' = pending \/ pending' = <<>>
    BY DEF Restart, Wake
  <2>3. hangup' = hangup \/ hangup' = TRUE
    BY DEF Restart, Wake
  <2>4. hangup' \in BOOLEAN
    BY <1>0, <2>3, Zenon
  <2>5. pending' \in Seq(Commands)
    <3>1. <<>> \in Seq(Commands)
      OBVIOUS
    <3> QED BY <1>0, <2>2, <3>1, Zenon
  <2>6. told' = told \/ told' = FALSE
    BY DEF Restart, Wake
  <2>7. told' \in BOOLEAN
    BY <1>0, <2>6, Zenon
  <2> QED BY <2>1, <2>4, <2>5, <2>7
<1>2. reboots' \in Nat
  BY DEF Restart, Wake, countVars, Typed, AtcTypes
<1>3. UNCHANGED <<modemOnly, profile, wire, slip, nfault, nchange, nstop>>
  BY DEF Restart, Wake, countVars
<1> QED BY <1>1, <1>2, <1>3, EnvTypes DEF Typed, AtcTypes

LEMMA NetworkTypes ==
  ASSUME Typed, Registers \/ Deregisters \/ DropsCall \/ Hangup \/ (\E p \in {"+CMTI", "OK", "error"} : Unasked(p))
  PROVE  Typed'
<1>1. modem' \in Modems
  BY ModemsChange DEF Registers, Deregisters, DropsCall, Hangup, Unasked, NetworkChange, Typed, AtcTypes
<1>2. wire' \in Seq(Lines)
  <2>1. wire \in Seq(Lines)
    BY DEF Typed, AtcTypes
  <2>2. wire' = wire \/ \E p \in UrcPrefixes : Urc(p)
    BY DEF Registers, Deregisters, DropsCall, Hangup, Unasked, NetworkChange, UrcPrefixes
  <2> QED BY <2>1, <2>2, UrcTypes
<1>3. pending' \in Seq(Commands) /\ hangup' \in BOOLEAN /\ told' \in BOOLEAN
  <2>1. pending \in Seq(Commands) /\ hangup \in BOOLEAN /\ told \in BOOLEAN
    BY DEF Typed, AtcTypes
  <2>2. pending' = pending \/ pending' = <<>>
    BY DEF Registers, Deregisters, DropsCall, Hangup, Unasked, NetworkChange
  <2>3. hangup' = hangup \/ hangup' = TRUE
    BY DEF Registers, Deregisters, DropsCall, Hangup, Unasked, NetworkChange
  <2>4. hangup' \in BOOLEAN
    BY <2>1, <2>3, Zenon
  <2>5. pending' \in Seq(Commands)
    <3>1. <<>> \in Seq(Commands)
      OBVIOUS
    <3> QED BY <2>1, <2>2, <3>1, Zenon
  <2>6. told' = told \/ told' = FALSE
    BY DEF Registers, Deregisters, DropsCall, Hangup, Unasked, NetworkChange
  <2>7. told' \in BOOLEAN
    BY <2>1, <2>6, Zenon
  <2> QED BY <2>4, <2>5, <2>7
<1>4. nfault' \in 0 .. MaxFaults
  BY FaultsBounded DEF Registers, Deregisters, DropsCall, Hangup, Unasked, NetworkChange, MayFault
<1>5. nchange' \in 0 .. MaxChanges
  <2>1. nchange' = nchange \/ (nchange < MaxChanges /\ nchange' = nchange + 1)
    BY DEF Registers, Deregisters, DropsCall, Hangup, Unasked, NetworkChange, MayChange
  <2>2. nchange \in 0 .. MaxChanges /\ MaxChanges \in Nat
    BY BoundsAssumption DEF Typed, AtcTypes
  <2> QED BY <2>1, <2>2
<1>6. slip' \in {"never", "running", "starting"}
  <2>1. slip' = slip \/ Slips
    BY DEF Registers, Deregisters, DropsCall, Hangup, Unasked, NetworkChange
  <2> QED BY <2>1, SlipsTypes DEF Typed, AtcTypes
<1>7. UNCHANGED <<modemOnly, profile, reboots, nstop>>
  BY DEF Registers, Deregisters, DropsCall, Hangup, Unasked, NetworkChange
<1> QED BY <1>1, <1>2, <1>3, <1>4, <1>5, <1>6, <1>7, EnvTypes DEF Typed, AtcTypes

LEMMA SignalTypes == ASSUME Typed, Signal PROVE Typed'
<1>1. nstop' \in 0 .. MaxStops
  <2>1. nstop < MaxStops /\ nstop' = nstop + 1
    BY DEF Signal, MayStop
  <2>2. nstop \in 0 .. MaxStops /\ MaxStops \in Nat
    BY BoundsAssumption DEF Typed, AtcTypes
  <2> QED BY <2>1, <2>2
<1>2. AtcTypes'
  <2>1. stopAsked' \in BOOLEAN /\ waitQuit' \in BOOLEAN /\ again' \in BOOLEAN
    BY Zenon DEF Signal
  <2>2. UNCHANGED <<step, why, tries, asr, ps, conn, chanVars, readVars, events, device, quitSent,
                    modemVars, slip, reboots, nfault, nchange>>
    BY DEF Signal
  <2> QED BY <1>1, <2>1, <2>2 DEF Typed, AtcTypes, chanVars, readVars, modemVars
<1>3. Waits'
  BY DEF Typed, Waits, Signal, chanVars
<1> QED BY <1>2, <1>3 DEF Typed

LEMMA TypesKept == ASSUME Typed, [Next]_vars PROVE Typed'
<1>1. CASE UNCHANGED vars
  BY <1>1 DEF Typed, AtcTypes, Waits, vars, hostVars, chanVars, readVars, deviceVars, modemVars, countVars
<1>2. CASE MainStep
  BY <1>2, SendTypes, ReturnTypes, RefusedTypes, IdleTypes, AgainTypes DEF MainStep
<1>3. CASE Timeout \/ ReaderStep \/ DeviceLeaves
  BY <1>3, TimeoutTypes, ReadTypes, CloseTypes DEF ReaderStep
<1>4. CASE ModemStep
  BY <1>4, AnswerTypes, RestartTypes DEF ModemStep
<1>5. CASE Signal \/ Registers \/ Deregisters \/ DropsCall \/ Hangup \/ (\E p \in {"+CMTI", "OK", "error"} : Unasked(p))
  BY <1>5, SignalTypes, NetworkTypes
<1> QED BY <1>1, <1>2, <1>3, <1>4, <1>5 DEF Next

-----------------------------------------------------------------------------
(* What the answer of a command says, and what follows from it *)

\* An answer that was late or broken once is not forgotten.
LEMMA SlipStays == ASSUME [Next]_vars, slip' = "never" PROVE slip = "never"
<1>1. CASE UNCHANGED vars
  BY <1>1 DEF vars, countVars
<1>2. CASE MainStep
  BY <1>2, SlipsTypes DEF MainStep, Send, Return, Refused, PauseOver, MainEvent, PollTimeout,
     MainStop, Join, Again, LoopStep, countVars
<1>3. CASE Timeout \/ ReaderStep \/ DeviceLeaves
  BY <1>3, SlipsTypes DEF Timeout, ReaderStep, ReadLine, onReaderClosed, DeviceLeaves, countVars
<1>4. CASE ModemStep
  BY <1>4 DEF ModemStep, ModemAnswers, Restart, Wake, countVars
<1>5. CASE Signal \/ Registers \/ Deregisters \/ DropsCall \/ Hangup \/ (\E p \in {"+CMTI", "OK", "error"} : Unasked(p))
  BY <1>5, SlipsTypes DEF Signal, Registers, Deregisters, DropsCall, NetworkChange, Unasked, Hangup
<1> QED BY <1>1, <1>2, <1>3, <1>4, <1>5 DEF Next

\* Nothing is under way when no command waits, but unsolicited lines.
Quiet == /\ pending = <<>>
         /\ \A i \in 1 .. Len(wire) : wire[i].of = "urc" /\ wire[i].prefix \in UrcPrefixes

LEMMA QuietNow == ASSUME Typed, InStep, ~Greeting, mpc # "waiting" PROVE Quiet
  BY DEF InStep, Quiet, Answers

LEMMA QuietFits ==
  ASSUME Quiet', mpc' = "ready", response' = NULL
  PROVE  InStep' /\ WireIsTrue' /\ ResponseIsTrue'
<1>1. \A i \in 1 .. Len(wire') : ~Answers(wire'[i])
  BY DEF Quiet, Answers
<1>2. InStep'
  BY <1>1 DEF InStep, Quiet, Concludes, Answers
<1>3. WireIsTrue'
  BY <1>1 DEF WireIsTrue, Answers
<1>4. ResponseIsTrue'
  BY NullFacts DEF ResponseIsTrue, HasFinal
<1> QED BY <1>2, <1>3, <1>4

\* A command other than the greeting is not the greeting's.
LEMMA NotGreeting ==
  ASSUME step \in Commands, step # "ate", step = "usbnet" => ~(mpc = "ready" /\ closed)
  PROVE  ~Greeting
  BY CommandNames DEF Greeting

\* What a caller that was woken knows of the modem.
Learned(ok, bad, v) ==
  /\ step \in {"act", "dial", "status"} /\ bad => ~CallUp
  /\ step \in {"query", "ip", "ipaddr"} /\ ~ok => ~CallUp
  /\ step \in {"ctlq", "actq"} /\ ~(ok /\ v = "yes") => ~CallUp
  /\ step = "hang" => ~CallUp
  /\ step = "style" => (ok <=> modem.style = "rg")
  /\ step = "nat" /\ ok => v = modem.nat
  /\ step = "setnat" /\ ok => NatSet

LEMMA WokenLearns ==
  ASSUME Typed, InTime, mpc = "woken", NEW ok, ok = Ok(closed), NEW bad, bad = Bad(closed),
         NEW v, v = First
  PROVE  Learned(ok, bad, v)
<1>1. CASE closed
  <2>1. hangup /\ ~CallUp
    BY <1>1 DEF InTime, Closing
  <2>2. step \notin Early
    BY <2>1 DEF InTime, Styled
  <2> QED BY <2>1, <2>2 DEF Learned, Early
<1>2. CASE ~closed
  <2>1. HasFinal /\ FinalIsTrue(response.final) /\ response \in Responses
        /\ (response.final.prefix = "OK" /\ step \in Telling => response.lines # <<>>)
    BY <1>2 DEF InTime, ResponseIsTrue, Typed, AtcTypes
  <2>2. step \in Telling \cup {"act", "dial", "hang", "setnat"} => ~Invalid
    <3>1. TypeOf(step) \in {SINGLELINE, NUMERIC} => step \notin {"act", "dial", "hang", "setnat"}
      BY DEF TypeOf, Bare, SingleOps, NO_RESULT, SINGLELINE, NUMERIC
    <3> QED BY <2>1, <3>1 DEF Invalid
  <2>3. step \in Telling \cup {"act", "dial", "hang", "setnat"} =>
          (ok <=> response.final.prefix = "OK") /\ ~bad
    BY <1>2, <2>2 DEF Ok, Bad
  <2>4. step \in {"nat", "ctlq", "actq"} /\ response.final.prefix = "OK" =>
          \E l \in Lines : v = l.value /\ LineIsTrue(l)
    <3>1. SUFFICES ASSUME step \in {"nat", "ctlq", "actq"}, response.final.prefix = "OK"
                   PROVE  \E l \in Lines : v = l.value /\ LineIsTrue(l)
      OBVIOUS
    <3>2. response.lines # <<>> /\ response.lines \in Seq(Lines)
      BY <2>1, <3>1 DEF Telling, Responses
    <3>3. v = response.lines[1].value /\ 1 \in 1 .. Len(response.lines) /\ response.lines[1] \in Lines
      BY <3>2 DEF First
    <3>4. LineIsTrue(response.lines[1])
      BY <3>1, <3>3 DEF InTime, ResponseIsTrue
    <3> QED BY <3>3, <3>4
  <2>5. Learned(ok, bad, v)
    <3>1. step \in {"act", "dial", "status"} /\ bad => ~CallUp
      BY <2>3 DEF Telling
    <3>2. step \in {"query", "ip", "ipaddr"} /\ ~ok => ~CallUp
      BY <2>1, <2>3 DEF Telling, FinalIsTrue, FinalSays, CallUp
    <3>3. step \in {"ctlq", "actq"} /\ ~(ok /\ v = "yes") => ~CallUp
      BY <2>1, <2>3, <2>4 DEF Telling, FinalIsTrue, FinalSays, LineIsTrue, LineSays, CallUp
    <3>4. step = "hang" => ~CallUp
      BY <2>1 DEF FinalIsTrue, FinalSays, CallUp
    <3>5. step = "style" => (ok <=> modem.style = "rg")
      BY <2>1, <2>3 DEF Telling, FinalIsTrue, FinalSays
    <3>6. step = "nat" /\ ok => v = modem.nat
      BY <2>3, <2>4 DEF Telling, LineIsTrue, LineSays
    <3>7. step = "setnat" /\ ok => NatSet
      BY <2>1 DEF FinalIsTrue, FinalSays, NatSet
    <3> QED BY <3>1, <3>2, <3>3, <3>4, <3>5, <3>6, <3>7 DEF Learned
  <2> QED BY <2>5
<1> QED BY <1>1, <1>2

\* Where a command leads (Returned): one of the start of the device, and the others.
LEMMA StartLeads ==
  ASSUME HostTypes, NEW ok \in BOOLEAN, NEW bad \in BOOLEAN, NEW v, Handles(ok, bad, v),
         step \in Early
  PROVE  \/ step = "ate" /\ step' \in {"pause", "ate", "failed"} /\ UNCHANGED <<asr, conn, again>>
         \/ step = "usbnet" /\ step' = "devctls" /\ UNCHANGED <<asr, conn, again>>
         \/ step = "devctls" /\ step' = "regs" /\ UNCHANGED <<asr, conn, again>>
         \/ step = "regs" /\ step' = "style" /\ UNCHANGED <<asr, conn, again>>
         \/ step = "style" /\ step' = "nat" /\ asr' = (asr \/ ~ok) /\ UNCHANGED <<conn, again>>
         \/ /\ step = "nat" /\ UNCHANGED <<asr, conn, again>>
            /\ step' = IF NatDiffers(ok, v) THEN "setnat" ELSE "cgmr"
         \/ step = "setnat" /\ step' = (IF ok THEN "cfun" ELSE "cgmr") /\ UNCHANGED <<asr, conn, again>>
         \/ step = "cfun" /\ step' = "cgmr" /\ again' = (again \/ ~bad) /\ UNCHANGED <<asr, conn>>
<1>1. CASE at_handshake(bad)
  BY <1>1 DEF at_handshake
<1>2. CASE atc_init(ok, bad, v)
  BY <1>2 DEF atc_init, Then, StyleFrom
<1>3. CASE ~at_handshake(bad) /\ ~atc_init(ok, bad, v)
  BY <1>3 DEF Handles, Early, requestSetupDataCall, requestBaseBandVersion, requestGetSIMStatus,
     requestEnterSimPin, requestGetICCID, requestGetIMSI, requestGetProfile, requestSetProfile,
     requestRegistrationState, requestGetIPAddress, requestQueryDataCall, requestGetSignalInfo,
     requestDeactivateDefaultPDP
<1> QED BY <1>1, <1>2, <1>3

\* A call is asked for by the command of the modem's style.
LEMMA OpNames ==
  /\ SetupOp \in {"actset", "dial"} /\ QueryOp \in {"ctlq", "query"} /\ IpOp \in {"ipaddr", "ip"}
  /\ QueryOp = "query" \/ IpOp = "ip" => ~asr
  /\ \A a \in BOOLEAN : DialIf(a) \in {"actset", "dial", "loop"}
  BY DEF SetupOp, QueryOp, IpOp, DialIf

LEMMA LaterLeads ==
  ASSUME HostTypes, NEW ok \in BOOLEAN, NEW bad \in BOOLEAN, NEW v, Handles(ok, bad, v),
         step \notin Early
  PROVE  /\ UNCHANGED <<asr, again>> /\ step' \notin Early
         /\ step' \in {"query", "ip"} => ~asr \/ step' = step
         /\ conn' # conn => step \in {"ip", "ipaddr", "query", "ctlq", "actq"}
         /\ step' = "joining" => step = "hang"
         /\ step' \notin {"ended", "failed", "pause"}
<1>1. CASE requestSetupDataCall(ok, bad, v)
  BY <1>1, OpNames DEF requestSetupDataCall, Polled, Then, Early
<1>2. CASE requestBaseBandVersion \/ requestGetSIMStatus(ok, v) \/ requestEnterSimPin
           \/ requestGetICCID \/ requestGetIMSI \/ requestGetProfile(ok) \/ requestSetProfile(ok)
           \/ requestDeactivateDefaultPDP
  BY <1>2 DEF requestBaseBandVersion, requestGetSIMStatus, requestEnterSimPin, requestGetICCID,
     requestGetIMSI, requestGetProfile, requestSetProfile, StartProfile,
     requestDeactivateDefaultPDP, Then, Early
<1>3. CASE requestRegistrationState(ok, v)
  <2>1. ASSUME NEW a \in BOOLEAN, AfterRegistration(a)
        PROVE  step' \in {"ctlq", "query", "actset", "dial", "loop"} /\ (step' = "query" => ~asr)
               /\ UNCHANGED <<asr, conn, again>>
    BY <2>1, OpNames DEF AfterRegistration
  <2>2. FALSE \in BOOLEAN /\ (ok /\ v = "yes") \in BOOLEAN
    BY Zenon
  <2>3. \/ step' = "reg" /\ UNCHANGED <<asr, conn, again>>
        \/ \E a \in BOOLEAN : AfterRegistration(a)
    BY <1>3, <2>2 DEF requestRegistrationState, Then
  <2> QED BY <2>1, <2>3 DEF Early
<1>4. CASE requestGetIPAddress(ok)
  BY <1>4, OpNames DEF requestGetIPAddress, HostTypes, Early
<1>5. CASE requestQueryDataCall(ok, v)
  BY <1>5, OpNames DEF requestQueryDataCall, CallSeen, Then, HostTypes, Early
<1>6. CASE requestGetSignalInfo(ok, v)
  BY <1>6, OpNames DEF requestGetSignalInfo, CheckCall, Then, Early
<1>7. ~at_handshake(bad) /\ ~atc_init(ok, bad, v)
  BY DEF at_handshake, atc_init, Early
<1> QED BY <1>1, <1>2, <1>3, <1>4, <1>5, <1>6, <1>7 DEF Handles

\* The commands that may find a call or lose it (conn).
LEMMA CallLeads ==
  ASSUME HostTypes, NEW ok \in BOOLEAN, NEW bad \in BOOLEAN, NEW v, Handles(ok, bad, v)
  PROVE  /\ step \in {"act", "dial", "status"} => step' \in Dialing \/ bad
         /\ step \in {"ip", "ipaddr", "query"} /\ ok => conn' = Up
         /\ step = "ctlq" /\ ok /\ v = "yes" => step' = "actq" /\ conn' = conn
         /\ step = "actq" /\ ok /\ v = "yes" => conn' = Up
<1>1. step \in {"act", "dial", "status"} => step' \in Dialing \/ bad
  <2>1. SUFFICES ASSUME step \in {"act", "dial", "status"} PROVE step' \in Dialing \/ bad
    OBVIOUS
  <2>2. requestSetupDataCall(ok, bad, v)
    BY <2>1 DEF Handles, at_handshake, atc_init, requestBaseBandVersion, requestGetSIMStatus,
       requestEnterSimPin, requestGetICCID, requestGetIMSI, requestGetProfile, requestSetProfile,
       requestRegistrationState, requestGetIPAddress, requestQueryDataCall, requestGetSignalInfo,
       requestDeactivateDefaultPDP
  <2> QED BY <2>1, <2>2, OpNames DEF requestSetupDataCall, Polled, Then, Dialing
<1>2. step \in {"ip", "ipaddr", "query", "ctlq", "actq"} =>
        requestGetIPAddress(ok) \/ requestQueryDataCall(ok, v)
  BY DEF Handles, at_handshake, atc_init, requestBaseBandVersion, requestGetSIMStatus,
     requestEnterSimPin, requestGetICCID, requestGetIMSI, requestGetProfile, requestSetProfile,
     requestRegistrationState, requestSetupDataCall, requestGetSignalInfo,
     requestDeactivateDefaultPDP
<1>3. /\ step \in {"ip", "ipaddr", "query"} /\ ok => conn' = Up
      /\ step = "ctlq" /\ ok /\ v = "yes" => step' = "actq" /\ conn' = conn
      /\ step = "actq" /\ ok /\ v = "yes" => conn' = Up
  BY <1>2 DEF requestGetIPAddress, requestQueryDataCall, CallSeen, Then
<1> QED BY <1>1, <1>3

\* A command that is over leaves the style and the NAT mode known (atc_init).
LEMMA StyleKept ==
  ASSUME HostTypes, Styled, modem \in Modems, reboots \in Nat,
         NEW ok \in BOOLEAN, NEW bad \in BOOLEAN, NEW v,
         Handles(ok, bad, v), Learned(ok, bad, v), UNCHANGED <<modem, told, hangup, reboots>>
  PROVE  Styled'
<1>1. CASE step \in Early
  <2>1. modem.nat \in {"0", "1"} /\ modem.style \in {"rg", "asr"}
    BY DEF Modems
  <2>2. step = "nat" /\ NatDiffers(ok, v) => ~NatSet
    BY DEF NatDiffers, Learned, NatSet, NatIsSet, newNat, Styled, Unstyled
  <2>3. /\ ~hangup /\ (told => step = "cfun") /\ (asr => modem.style = "asr") /\ reboots <= 1
        /\ step \notin Unstyled => (asr <=> modem.style = "asr")
        /\ step = "cfun" \/ told \/ reboots > 0 => NatSet
        /\ step \in {"setnat", "cfun"} \/ told => reboots = 0
        /\ NatSet' = NatSet
    BY <1>1 DEF Styled, NatSet, NatIsSet
  <2>4. reboots > 0 \/ reboots = 0
    OBVIOUS
  <2>5. CASE step = "style"
    <3>1. step' = "nat" /\ asr' = (asr \/ ~ok) /\ UNCHANGED <<conn, again>>
      BY <1>1, <2>5, StartLeads
    <3>2. (ok <=> modem.style = "rg")
      BY <2>5 DEF Learned
    <3>3. asr' <=> modem.style = "asr"
      BY <2>1, <2>3, <3>1, <3>2
    <3> QED BY <2>3, <2>5, <3>1, <3>3 DEF Styled, Early, Unstyled
  <2>6. CASE step = "setnat"
    <3>1. step' = (IF ok THEN "cfun" ELSE "cgmr") /\ UNCHANGED <<asr, conn, again>>
      BY <1>1, <2>6, StartLeads
    <3>2. ok => NatSet
      BY <2>6 DEF Learned
    <3> QED BY <2>3, <2>6, <3>1, <3>2 DEF Styled, Early, Unstyled
  <2>7. CASE step = "cfun"
    <3>1. step' = "cgmr" /\ again' = (again \/ ~bad) /\ UNCHANGED <<asr, conn>>
      BY <1>1, <2>7, StartLeads
    <3> QED BY <2>3, <2>7, <3>1 DEF Styled, Early, Unstyled
  <2>8. CASE step = "nat"
    <3>1. step' = (IF NatDiffers(ok, v) THEN "setnat" ELSE "cgmr") /\ UNCHANGED <<asr, conn, again>>
      BY <1>1, <2>8, StartLeads
    <3> QED BY <2>2, <2>3, <2>4, <2>8, <3>1 DEF Styled, Early, Unstyled
  <2>9. CASE step \notin {"style", "setnat", "cfun", "nat"}
    <3>1. /\ step \in Unstyled /\ step' \in Unstyled /\ UNCHANGED <<asr, conn, again>>
      BY <1>1, <2>9, StartLeads DEF Unstyled
    <3> QED BY <2>3, <3>1 DEF Styled, Early, Unstyled
  <2> QED BY <2>5, <2>6, <2>7, <2>8, <2>9
<1>2. CASE step \notin Early
  <2>1. /\ UNCHANGED <<asr, again>> /\ step' \notin Early
        /\ step' \in {"query", "ip"} => ~asr \/ step' = step
    BY <1>2, LaterLeads
  <2>2. modem.style \in {"rg", "asr"} /\ step \notin Unstyled
    BY <1>2 DEF Modems, Early, Unstyled
  <2>3. NatSet' = NatSet
    BY DEF NatSet, NatIsSet
  <2> QED BY <1>2, <2>1, <2>2, <2>3 DEF Styled, Early, Unstyled
<1> QED BY <1>1, <1>2

\* A command that is over leaves no call unknown (conn).
LEMMA TrackKept ==
  ASSUME HostTypes, CallTracked, NEW ok \in BOOLEAN, NEW bad \in BOOLEAN, NEW v,
         Handles(ok, bad, v), Learned(ok, bad, v), UNCHANGED modem
  PROVE  CallTracked'
<1>1. CallUp' = CallUp
  BY DEF CallUp
<1>3. CASE step \in Early
  <2>1. conn' = conn /\ step' \notin {"joining", "ended"} /\ step \notin Dialing
    BY <1>3, StartLeads DEF Early, Dialing
  <2> QED BY <1>1, <2>1 DEF CallTracked
<1>4. CASE step \notin Early
  <2>1. /\ conn' # conn => step \in {"ip", "ipaddr", "query", "ctlq", "actq"}
        /\ step' = "joining" => step = "hang"
        /\ step' # "ended"
    BY <1>4, LaterLeads
  <2>2. step' \in {"joining", "ended"} => ~CallUp
    BY <2>1 DEF Learned
  <2>3. CASE step \in {"act", "dial", "status"}
    BY <1>1, <2>1, <2>2, <2>3, CallLeads DEF CallTracked, Learned
  <2>4. CASE step \in {"ip", "ipaddr", "query"}
    <3>1. ok => conn' = Up
      BY <2>4, CallLeads
    <3>2. ~ok => ~CallUp
      BY <2>4 DEF Learned
    <3> QED BY <1>1, <2>2, <3>1, <3>2 DEF CallTracked, Up, Down
  <2>5. CASE step \in {"ctlq", "actq"}
    <3>1. ok /\ v = "yes" => (conn' = Up \/ conn' = conn)
      BY <2>5, CallLeads
    <3>2. ~(ok /\ v = "yes") => ~CallUp
      BY <2>5 DEF Learned
    <3>3. step \notin Dialing
      BY <2>5 DEF Dialing
    <3> QED BY <1>1, <2>2, <3>1, <3>2, <3>3 DEF CallTracked, Up, Down
  <2>6. CASE step \notin {"act", "dial", "status", "ip", "ipaddr", "query", "ctlq", "actq"}
    BY <1>1, <2>1, <2>2, <2>6 DEF CallTracked, Dialing
  <2> QED BY <2>3, <2>4, <2>5, <2>6
<1> QED BY <1>3, <1>4

-----------------------------------------------------------------------------
(* The commands that are answered in time *)

\* A command is over whose caller has learned what its answer says, or the greeting.
LEMMA OverInTime ==
  ASSUME Typed, Typed', InTime, NEW err \in BOOLEAN, Returned(err), Cleared,
         Learned(Ok(err), Bad(err), First), step = "ate" \/ mpc = "woken",
         UNCHANGED <<closed, stopAsked, waitQuit, modemVars, reboots>>
  PROVE  InTime'
<1> DEFINE ok == Ok(err)
           bad == Bad(err)
<1>1. /\ ok \in BOOLEAN /\ bad \in BOOLEAN /\ Handles(ok, bad, First)
      /\ quitSent' = (quitSent \/ step = "hang")
  BY ReturnedHandles
<1>1a. Learned(ok, bad, First)
  OBVIOUS
<1> HIDE DEF ok, bad
<1>2. /\ HostTypes /\ events \in Seq(EventNames) /\ modem \in Modems /\ reboots \in Nat
      /\ UNCHANGED <<modem, told, hangup, reboots, pending, wire>>
  BY DEF Typed, AtcTypes, HostTypes, modemVars
<1>3. step \in Commands
  BY <1>1, <1>2, HandledTypes
<1>4. Styled'
  BY <1>1, <1>1a, <1>2, StyleKept DEF InTime
<1>5. CallTracked'
  BY <1>1, <1>1a, <1>2, TrackKept DEF InTime
<1>6. mpc' = "ready" /\ response' = NULL
  BY DEF Cleared
<1>7. Closing'
  <2>2. CallUp' = CallUp
    BY <1>2 DEF CallUp
  <2>3. quitSent' => step' \in {"joining", "ended"}
    <3>1. ~quitSent
      BY <1>3, CommandNames DEF InTime, Closing
    <3>2. step = "hang" => step' = "joining"
      <4>1. step = "hang" => requestDeactivateDefaultPDP
        BY <1>1 DEF Handles, at_handshake, atc_init, requestBaseBandVersion,
           requestGetSIMStatus, requestEnterSimPin, requestGetICCID, requestGetIMSI,
           requestGetProfile, requestSetProfile, requestRegistrationState, requestSetupDataCall,
           requestGetIPAddress, requestQueryDataCall, requestGetSignalInfo
      <4> QED BY <4>1 DEF requestDeactivateDefaultPDP, Then
    <3> QED BY <1>1, <3>1, <3>2
  <2>4. (\E i \in 1 .. Len(events') : events'[i] = "DISCONNECTED") =>
          \E i \in 1 .. Len(events) : events[i] = "DISCONNECTED"
    <3>1. events' = events \/ events' = Posted("CALL")
      BY <1>1 DEF Handles, requestSetupDataCall, Polled
    <3>2. \A i \in 1 .. Len(Posted("CALL")) : Posted("CALL")[i] = "CALL"
             \/ (\E j \in 1 .. Len(events) : Posted("CALL")[i] = events[j])
      BY <1>2, PostedTypes DEF EventNames
    <3> QED BY <3>1, <3>2
  <2>5. (quitSent => quitSent')
    BY <1>1
  <2> QED BY <1>2, <1>6, <2>2, <2>3, <2>4, <2>5 DEF InTime, Closing
<1>8. InStep' /\ WireIsTrue' /\ ResponseIsTrue'
  <2>1. CASE step = "ate"
    <3>1. step' \in {"ate", "pause", "failed"}
      BY <1>1, <1>2, <2>1, StartLeads DEF Early
    <3>2. Greeting /\ Greeting' /\ Asked = "ate" /\ Asked' = "ate"
      BY <2>1, <3>1 DEF Greeting, Asked
    <3>3. InStep'
      BY <1>2, <3>2 DEF InTime, InStep
    <3>4. WireIsTrue'
      BY <3>2 DEF WireIsTrue
    <3>5. ResponseIsTrue'
      BY <1>6, NullFacts DEF ResponseIsTrue, HasFinal
    <3> QED BY <3>3, <3>4, <3>5
  <2>2. CASE step # "ate"
    <3>1. ~Greeting /\ mpc = "woken"
      BY <1>3, <2>2, NotGreeting
    <3>2. Quiet
      BY <3>1, QuietNow DEF InTime
    <3>3. Quiet'
      BY <1>2, <3>2 DEF Quiet
    <3> QED BY <1>6, <3>3, QuietFits
  <2> QED BY <2>1, <2>2
<1> QED BY <1>4, <1>5, <1>7, <1>8 DEF InTime

LEMMA ReturnInTime == ASSUME Typed, Typed', InTime, Return PROVE InTime'
<1>1. closed \in BOOLEAN /\ Returned(closed) /\ mpc = "woken"
  BY DEF Typed, AtcTypes, Return
<1>2. Learned(Ok(closed), Bad(closed), First)
  BY <1>1, WokenLearns
<1> QED BY <1>1, <1>2, OverInTime DEF Return, countVars

\* A greeting that is not answered in time breaks nothing (at_handshake).
LEMMA TimeoutInTime == ASSUME Typed, Typed', InTime, Timeout, slip' = "never" PROVE InTime'
<1>1. step = "ate"
  BY SlipsTypes DEF Timeout
<1>2. Learned(Ok(TRUE), Bad(TRUE), First)
  BY <1>1 DEF Learned
<1> QED BY <1>1, <1>2, OverInTime DEF Timeout

\* A command is sent when nothing is under way.
LEMMA SendInTime == ASSUME Typed, Typed', InTime, Send PROVE InTime'
<1>1. /\ mpc = "ready" /\ mpc' = "waiting" /\ ~closed /\ step \in Commands /\ response' = Pending
      /\ UNCHANGED <<hostVars, closed, readVars, events, stopAsked, deviceVars, modem,
                     profile, told, wire, hangup, countVars>>
  BY DEF Send
<1>2. /\ Closing' /\ Styled' /\ CallTracked'
  <2>1. hangup => pending' = <<>>
    BY DEF Send, InTime, Closing
  <2>2. Closing'
    BY <1>1, <2>1 DEF InTime, Closing, CallUp, hostVars, deviceVars
  <2>3. Styled'
    BY <1>1 DEF InTime, Styled, NatSet, NatIsSet, hostVars, countVars
  <2>4. CallTracked'
    BY <1>1 DEF InTime, CallTracked, CallUp, hostVars
  <2> QED BY <2>2, <2>3, <2>4
<1>3. ResponseIsTrue'
  BY <1>1, NullFacts DEF ResponseIsTrue, HasFinal
<1>4. step' = step /\ pending \in Seq(Commands) /\ wire' = wire /\ closed' = FALSE
  BY <1>1 DEF hostVars, Typed, AtcTypes
<1>5. CASE step = "ate"
  <2>1. Greeting /\ Greeting' /\ Asked = "ate" /\ Asked' = "ate"
    BY <1>4, <1>5 DEF Greeting, Asked
  <2>2. \A i \in 1 .. Len(pending') : pending'[i] = "ate"
    <3>1. \A i \in 1 .. Len(pending) : pending[i] = "ate"
      BY <2>1 DEF InTime, InStep
    <3>2. pending' = pending \/ pending' = Append(pending, "ate")
      BY <1>5 DEF Send
    <3> QED BY <1>4, <3>1, <3>2
  <2>3. InStep'
    BY <1>4, <2>1, <2>2 DEF InTime, InStep
  <2>4. WireIsTrue'
    BY <2>1 DEF WireIsTrue
  <2> QED BY <1>2, <1>3, <2>3, <2>4 DEF InTime
<1>6. CASE step # "ate"
  <2>1. ~Greeting
    BY <1>1, <1>6, NotGreeting
  <2>2. Quiet
    BY <1>1, <2>1, QuietNow DEF InTime
  <2>3. ~Greeting' /\ Asked' = step
    BY <1>1, <1>4, <1>6, CommandNames DEF Greeting, Asked
  <2>4. pending' = <<>> \/ pending' = <<step>>
    BY <2>2 DEF Send, Quiet
  <2>5. \A i \in 1 .. Len(wire') : wire'[i].of = "urc" /\ wire'[i].prefix \in UrcPrefixes
    BY <1>4, <2>2 DEF Quiet
  <2>6. InStep'
    <3>1. /\ \A i \in 1 .. Len(pending') : pending'[i] = step
          /\ pending' # <<>> => Len(pending') = 1
      BY <2>4
    <3> QED BY <1>1, <2>3, <2>5, <3>1 DEF InStep, Answers, Concludes
  <2>7. WireIsTrue'
    BY <2>5 DEF WireIsTrue, Answers
  <2> QED BY <1>2, <1>3, <2>6, <2>7 DEF InTime
<1> QED BY <1>5, <1>6

\* The commands begin when no greeting is unanswered, or the channel is closed.
LEMMA PauseInTime == ASSUME Typed, Typed', InTime, PauseOver PROVE InTime'
<1>1. /\ step = "pause" /\ step' = "usbnet" /\ UNCHANGED <<why, tries, asr, ps, conn, again>>
      /\ UNCHANGED <<mpc, response, closed, readVars, events, stopAsked, deviceVars, modemVars,
                     countVars>>
      /\ closed \/ (pending = <<>> /\ wire = <<>>)
  BY DEF PauseOver, Then, chanVars, Starved
<1>2. mpc = "ready" /\ response = NULL
  BY <1>1, CommandNames DEF Typed, AtcTypes, Waits
<1>3. Closing' /\ Styled' /\ CallTracked'
  <2>1. Closing'
    BY <1>1 DEF InTime, Closing, CallUp, modemVars, deviceVars
  <2>2. Styled'
    BY <1>1 DEF InTime, Styled, NatSet, NatIsSet, Early, Unstyled, modemVars, countVars
  <2>3. CallTracked'
    BY <1>1 DEF InTime, CallTracked, CallUp, Dialing, modemVars
  <2> QED BY <2>1, <2>2, <2>3
<1>4. ResponseIsTrue'
  BY <1>1, <1>2, NullFacts DEF ResponseIsTrue, HasFinal
<1>5. CASE closed
  <2>1. Greeting /\ Greeting' /\ Asked = "ate" /\ Asked' = "ate"
    BY <1>1, <1>2, <1>5 DEF Greeting, Asked
  <2>2. InStep' /\ WireIsTrue'
    BY <1>1, <2>1 DEF InTime, InStep, WireIsTrue, modemVars
  <2> QED BY <1>3, <1>4, <2>2 DEF InTime
<1>6. CASE pending = <<>> /\ wire = <<>>
  <2>1. Quiet'
    BY <1>1, <1>6 DEF Quiet, modemVars
  <2> QED BY <1>1, <1>2, <1>3, <2>1, QuietFits DEF InTime
<1> QED BY <1>1, <1>5, <1>6

\* The main thread chooses its next request, or leaves.
LEMMA LoopInTime ==
  ASSUME Typed, Typed', InTime, MainEvent \/ PollTimeout \/ MainStop \/ Join
  PROVE  InTime'
<1>1. /\ step \in {"loop", "joining"} /\ UNCHANGED <<tries, asr, ps, conn, again>>
      /\ UNCHANGED <<mpc, response, closed, stopAsked, waitQuit, modemVars, countVars>>
  BY DEF MainEvent, PollTimeout, MainStop, Join, LoopStep, Then, chanVars, deviceVars
<1>2. mpc = "ready" /\ response = NULL
  BY <1>1, CommandNames DEF Typed, AtcTypes, Waits
<1>3. InStep' /\ WireIsTrue' /\ ResponseIsTrue'
  <2>1. ~Greeting
    BY <1>1 DEF Greeting
  <2>2. Quiet
    BY <1>2, <2>1, QuietNow DEF InTime
  <2>3. Quiet'
    BY <1>1, <2>2 DEF Quiet, modemVars
  <2> QED BY <1>1, <1>2, <2>3, QuietFits
<1>4. step' \in {"cops", "sigcops", "hang", "joining", "ended"}
  BY DEF MainEvent, PollTimeout, MainStop, Join, Then
<1>5. Styled'
  BY <1>1, <1>4 DEF InTime, Styled, NatSet, NatIsSet, Early, Unstyled, modemVars, countVars
<1>6. CallUp' = CallUp /\ (conn = Down => ~CallUp)
  BY <1>1 DEF InTime, CallTracked, CallUp, Dialing, modemVars
<1>7. step' \in {"joining", "ended"} /\ conn # Unknow => ~CallUp
  <2>1. CASE Join
    BY <2>1 DEF Join, InTime, CallTracked
  <2>2. CASE MainEvent
    <3>1. step = "loop" /\ ~stopAsked /\ events # <<>> /\ events \in Seq(EventNames)
      BY <2>2 DEF MainEvent, LoopStep, Typed, AtcTypes
    <3>2. step' \in {"joining", "ended"} => events[1] = "DISCONNECTED"
      <4>1. Head(events) = events[1] /\ events[1] \in EventNames
        BY <3>1
      <4> QED BY <2>2, <4>1 DEF MainEvent, Then, EventNames
    <3>3. 1 \in 1 .. Len(events)
      BY <3>1
    <3>4. events[1] = "DISCONNECTED" => hangup \/ waitQuit \/ quitSent
      BY <3>3 DEF InTime, Closing
    <3> QED BY <3>1, <3>2, <3>4 DEF InTime, Closing
  <2>3. CASE PollTimeout
    BY <2>3 DEF PollTimeout, Then
  <2>4. CASE MainStop
    <3>1. conn \in {Down, Up, Unknow}
      BY DEF Typed, AtcTypes
    <3>2. conn = Up => step' = "hang"
      BY <2>4 DEF MainStop, Then
    <3> QED BY <1>6, <3>1, <3>2
  <2> QED BY <2>1, <2>2, <2>3, <2>4
<1>8. CallTracked'
  BY <1>1, <1>4, <1>6, <1>7 DEF CallTracked
<1>9. Closing'
  <2>1. quitSent' => step' \in {"joining", "ended"}
    BY DEF MainEvent, PollTimeout, MainStop, Join, LoopStep, Then, deviceVars, InTime, Closing
  <2>2. quitSent => quitSent'
    BY DEF MainEvent, PollTimeout, MainStop, Join, LoopStep, deviceVars
  <2>3. (\E i \in 1 .. Len(events') : events'[i] = "DISCONNECTED") =>
          \E i \in 1 .. Len(events) : events[i] = "DISCONNECTED"
    <3>1. events' = events \/ (events # <<>> /\ events' = Tail(events))
      BY DEF MainEvent, PollTimeout, MainStop, Join
    <3>2. events \in Seq(EventNames)
      BY DEF Typed, AtcTypes
    <3>3. CASE events # <<>> /\ events' = Tail(events)
      <4>1. /\ Len(events') = Len(events) - 1 /\ Len(events) \in Nat
            /\ \A i \in 1 .. Len(events') : events'[i] = events[i + 1]
        BY <3>2, <3>3
      <4>2. \A i \in 1 .. Len(events') : i + 1 \in 1 .. Len(events)
        BY <4>1
      <4> QED BY <4>1, <4>2
    <3> QED BY <3>1, <3>3
  <2> QED BY <1>1, <1>6, <2>1, <2>2, <2>3 DEF InTime, Closing, modemVars
<1> QED BY <1>3, <1>5, <1>8, <1>9 DEF InTime

\* A modem that was told to restart is used again.
LEMMA AgainInTime == ASSUME Typed, Typed', InTime, Again PROVE InTime'
<1>1. /\ step' = "ate" /\ conn' = Unknow /\ told = FALSE /\ mpc' = "ready" /\ response' = NULL
      /\ closed' = FALSE /\ stopAsked' = FALSE /\ waitQuit' = FALSE /\ quitSent' = FALSE
      /\ pending' = <<>> /\ wire' = <<>> /\ hangup' = FALSE /\ events' = <<>>
      /\ UNCHANGED <<asr, modem, told, reboots>> /\ step = "ended"
  BY DEF Again, Fresh, countVars, Typed, AtcTypes
<1>2. Quiet'
  BY <1>1 DEF Quiet
<1>3. InStep' /\ WireIsTrue' /\ ResponseIsTrue'
  BY <1>1, <1>2, QuietFits
<1>4. Closing'
  <2>1. ~(\E i \in 1 .. Len(events') : events'[i] = "DISCONNECTED")
    BY <1>1
  <2>2. waitQuit' = stopAsked'
    BY <1>1
  <2> QED BY <1>1, <2>1, <2>2 DEF Closing
<1>5. Styled'
  BY <1>1 DEF InTime, Styled, NatSet, NatIsSet, Unstyled
<1>6. CallTracked'
  BY <1>1 DEF CallTracked, Unknow, Down
<1> QED BY <1>3, <1>4, <1>5, <1>6 DEF InTime

\* Both threads are told of a stop.
LEMMA SignalInTime == ASSUME Typed, Typed', InTime, Signal PROVE InTime'
<1>1. /\ stopAsked' = TRUE /\ waitQuit' = TRUE
      /\ UNCHANGED <<step, asr, conn, chanVars, events, quitSent, modemVars, slip, reboots>>
  BY DEF Signal
<1>2. InStep' /\ WireIsTrue' /\ ResponseIsTrue'
  <2>1. InStep'
    BY <1>1 DEF InTime, InStep, Greeting, Asked, chanVars, modemVars
  <2>2. WireIsTrue'
    BY <1>1 DEF InTime, WireIsTrue, Greeting, FinalIsTrue, FinalSays, LineIsTrue, LineSays, NatSet, NatIsSet, CallUp,
                hostVars, chanVars, modemVars
  <2>3. ResponseIsTrue'
    BY <1>1 DEF InTime, ResponseIsTrue, HasFinal, FinalIsTrue, FinalSays, LineIsTrue, LineSays, NatSet, NatIsSet, CallUp,
                hostVars, chanVars, modemVars
  <2> QED BY <2>1, <2>2, <2>3
<1>3. Closing'
  BY <1>1 DEF InTime, Closing, CallUp, hostVars, chanVars, modemVars
<1>4. Styled' /\ CallTracked'
  BY <1>1 DEF InTime, Styled, CallTracked, NatSet, NatIsSet, CallUp, hostVars, modemVars
<1> QED BY <1>2, <1>3, <1>4 DEF InTime

\* The stream ends, or atc_read_thread leaves (at_close).
LEMMA CloseInTime ==
  ASSUME Typed, Typed', InTime, onReaderClosed \/ DeviceLeaves, slip' = "never"
  PROVE  InTime'
<1>1. /\ closed' = TRUE /\ response' = response /\ wire' = wire /\ pending' = pending
      /\ UNCHANGED <<hostVars, modem, told, hangup, stopAsked, waitQuit, quitSent, reboots>>
      /\ pending \in Seq(Commands) /\ mpc \in {"ready", "waiting", "woken"}
  BY DEF onReaderClosed, DeviceLeaves, at_close, modemVars, deviceVars, countVars, Typed, AtcTypes
<1>2. /\ mpc' = mpc \/ (mpc = "waiting" /\ mpc' = "woken")
      /\ mpc' # "waiting"
      /\ mpc' = "woken" => hangup
      /\ mpc = "waiting" => wire = <<>>
  <2>1. CASE onReaderClosed
    <3>1. CASE closed
      <4>1. mpc' = mpc
        BY <2>1, <3>1 DEF onReaderClosed
      <4> QED BY <3>1, <4>1 DEF InTime, Closing
    <3>2. CASE ~closed
      BY <1>1, <2>1, <3>2 DEF onReaderClosed, CondSignal
    <3> QED BY <3>1, <3>2
  <2>2. CASE DeviceLeaves
    <3>1. quitSent \/ step \notin Commands
      BY <2>2, SlipsTypes DEF DeviceLeaves
    <3>2. step \notin Commands
      BY <3>1, CommandNames DEF InTime, Closing
    <3>3. mpc = "ready"
      BY <1>1, <3>2 DEF Typed, Waits
    <3> QED BY <2>2, <3>3 DEF DeviceLeaves, at_close, CondSignal
  <2> QED BY <2>1, <2>2
<1>3. InStep' /\ WireIsTrue'
  <2>1. CASE Greeting
    <3>1. Greeting'
      BY <1>1, <1>2, <2>1 DEF Greeting, hostVars
    <3>2. Asked = "ate" /\ Asked' = "ate"
      BY <2>1, <3>1 DEF Asked
    <3>3. InStep'
      BY <1>1, <3>1, <3>2 DEF InTime, InStep
    <3> QED BY <3>1, <3>3 DEF WireIsTrue
  <2>2. CASE ~Greeting
    <3>1. Quiet
      <4>1. CASE mpc = "waiting"
        <5>1. wire = <<>> /\ hangup
          BY <1>2, <4>1
        <5>2. pending = <<>>
          BY <5>1 DEF InTime, Closing
        <5> QED BY <5>1, <5>2 DEF Quiet
      <4>2. CASE mpc # "waiting"
        BY <2>2, <4>2, QuietNow DEF InTime
      <4> QED BY <4>1, <4>2
    <3>2. Quiet'
      BY <1>1, <3>1 DEF Quiet
    <3>3. \A i \in 1 .. Len(wire') : ~Answers(wire'[i])
      BY <3>2 DEF Quiet, Answers
    <3> QED BY <3>2, <3>3 DEF InStep, WireIsTrue, Quiet, Concludes, Answers
  <2> QED BY <2>1, <2>2
<1>4. ResponseIsTrue'
  <2>1. mpc' = "ready" \/ closed'
    BY <1>1
  <2>2. HasFinal' = HasFinal /\ step' = step /\ modem' = modem
    BY <1>1 DEF HasFinal, hostVars
  <2> QED BY <1>1, <1>2, <2>1, <2>2 DEF InTime, ResponseIsTrue, FinalIsTrue, FinalSays, LineIsTrue, LineSays, NatSet, NatIsSet, CallUp
<1>5. Closing'
  <2>1. (\E i \in 1 .. Len(events') : events'[i] = "DISCONNECTED") => hangup \/ waitQuit \/ quitSent
    <3>1. CASE onReaderClosed
      BY <3>1 DEF onReaderClosed, InTime, Closing
    <3>2. CASE DeviceLeaves
      BY <3>2 DEF DeviceLeaves
    <3> QED BY <3>1, <3>2
  <2> QED BY <1>1, <1>2, <2>1 DEF InTime, Closing, CallUp, hostVars
<1>6. Styled' /\ CallTracked'
  BY <1>1 DEF InTime, Styled, CallTracked, NatSet, NatIsSet, CallUp, hostVars
<1> QED BY <1>3, <1>4, <1>5, <1>6 DEF InTime

\* The modem restarts or wakes up, or the network changes: a call is lost at most.
Falls == /\ modem'.style = modem.style /\ modem'.nat = modem.nat
         /\ modem'.active => modem.active
         /\ modem'.bound => modem.bound

LEMMA FallsInTime ==
  ASSUME Typed, Typed', InTime, UNCHANGED modemOnly, Falls
  PROVE  /\ ResponseIsTrue' /\ CallTracked'
         /\ CallUp' => CallUp
         /\ NatSet' = NatSet
<1>1. modem \in Modems /\ modem' \in Modems
  BY DEF Typed, AtcTypes
<1>2. CallUp' => CallUp
  BY DEF Falls, CallUp
<1>3. NatSet' = NatSet
  BY DEF Falls, NatSet, NatIsSet
<1>4. step' = step /\ conn' = conn /\ mpc' = mpc /\ response' = response /\ closed' = closed
  BY DEF modemOnly, hostVars, chanVars
<1>5. ResponseIsTrue'
  <2>1. FinalIsTrue(response.final) => FinalIsTrue(response.final)'
    BY <1>2, <1>3, <1>4 DEF FinalIsTrue, FinalSays, Falls, NatIsSet
  <2>2. \A i \in 1 .. Len(response.lines) : LineIsTrue(response.lines[i]) => LineIsTrue(response.lines[i])'
    BY <1>4 DEF LineIsTrue, LineSays, Falls
  <2> QED BY <1>4, <2>1, <2>2 DEF InTime, ResponseIsTrue, HasFinal
<1>6. CallTracked'
  BY <1>2, <1>4 DEF InTime, CallTracked
<1> QED BY <1>2, <1>3, <1>5, <1>6

LEMMA RestartInTime == ASSUME Typed, Typed', InTime, Restart \/ Wake PROVE InTime'
<1>1. /\ UNCHANGED <<modemOnly, wire>>
      /\ pending' = pending \/ pending' = <<>>
      /\ modem \in Modems
  BY DEF Restart, Wake, Typed, AtcTypes
<1>2. Falls
  BY <1>1 DEF Restart, Wake, Falls, Modems
<1>3. /\ ResponseIsTrue' /\ CallTracked'
      /\ CallUp' => CallUp
      /\ NatSet' = NatSet
  BY <1>1, <1>2, FallsInTime
<1>4. /\ step' = step /\ mpc' = mpc /\ closed' = closed /\ response' = response /\ wire' = wire
      /\ asr' = asr
  BY <1>1 DEF modemOnly, hostVars, chanVars
<1>5. InStep'
  BY <1>1, <1>4 DEF InTime, InStep, Greeting, Asked
<1>6. WireIsTrue'
  <2>1. Greeting' = Greeting
    BY <1>4 DEF Greeting
  <2>2. \A i \in 1 .. Len(wire) : /\ FinalIsTrue(wire[i]) => FinalIsTrue(wire[i])'
                                  /\ LineIsTrue(wire[i]) => LineIsTrue(wire[i])'
    BY <1>2, <1>3, <1>4 DEF FinalIsTrue, FinalSays, LineIsTrue, LineSays, Falls, NatIsSet
  <2> QED BY <1>4, <2>1, <2>2 DEF InTime, WireIsTrue
<1>7. Closing'
  <2>1. hangup' => pending' = <<>> /\ ~CallUp'
    <3>1. CASE Restart
      <4>1. pending' = <<>> /\ modem' = [modem EXCEPT !.awake = FALSE, !.active = FALSE, !.bound = FALSE]
        BY <3>1 DEF Restart
      <4>2. ~CallUp'
        BY <1>1, <4>1 DEF Modems, CallUp
      <4> QED BY <1>4, <4>1, <4>2
    <3>2. CASE Wake
      BY <3>2 DEF Wake, InTime, Closing
    <3> QED BY <3>1, <3>2
  <2>2. hangup => hangup'
    BY DEF Restart, Wake
  <2> QED BY <1>1, <1>4, <2>1, <2>2 DEF InTime, Closing, modemOnly, deviceVars
<1>8. Styled'
  <2>1. \/ UNCHANGED <<reboots, told, hangup>>
        \/ told /\ step # "cfun" /\ reboots' = reboots + 1 /\ told' = FALSE
    BY DEF Restart, Wake, countVars
  <2>2. CASE UNCHANGED <<reboots, told, hangup>>
    BY <1>2, <1>3, <1>4, <2>2 DEF InTime, Styled, Falls
  <2>3. CASE told /\ step # "cfun" /\ reboots' = reboots + 1 /\ told' = FALSE
    <3>1. reboots = 0 /\ reboots' = 1 /\ NatSet /\ step \notin Early
      BY <2>3 DEF InTime, Styled
    <3> QED BY <1>2, <1>3, <1>4, <2>3, <3>1 DEF InTime, Styled, Falls, Early
  <2> QED BY <2>1, <2>2, <2>3
<1> QED BY <1>3, <1>5, <1>6, <1>7, <1>8 DEF InTime

\* An unsolicited line changes nothing about the others, wherever it comes in.
LEMMA UrcInTime ==
  ASSUME Typed, Typed', InTime, NEW p \in UrcPrefixes, Urc(p), UNCHANGED <<modemOnly, pending>>,
         Falls, CallUp' => CallUp, NatSet' = NatSet
  PROVE  InStep' /\ WireIsTrue'
<1>1. PICK k \in 1 .. Len(wire) + 1 : wire' = InsertAt(wire, k, Line("urc", p, "no"))
  BY DEF Urc
<1> DEFINE e == Line("urc", p, "no")
           old(j) == IF j < k THEN j ELSE j - 1
           new(j) == IF j < k THEN j ELSE j + 1
<1>2. e \in Lines /\ e.of = "urc" /\ e.prefix = p
  BY UrcLine
<1> HIDE DEF e
<1>3. wire \in Seq(Lines) /\ Len(wire) \in Nat /\ k \in Nat \ {0} /\ k <= Len(wire) + 1
  BY DEF Typed, AtcTypes
<1>4. /\ Len(wire') = Len(wire) + 1
      /\ \A j \in 1 .. Len(wire') :
           wire'[j] = IF j < k THEN wire[j] ELSE IF j = k THEN e ELSE wire[j - 1]
  <2>1. wire' = InsertAt(wire, k, e)
    BY <1>1 DEF e
  <2> QED BY <1>2, <1>3, <2>1, Inserted
<1>5. \A j \in 1 .. Len(wire') : IF j = k THEN wire'[j] = e
                                 ELSE old(j) \in 1 .. Len(wire) /\ wire'[j] = wire[old(j)]
  BY <1>3, <1>4
<1>6. \A i, j \in 1 .. Len(wire') : i < j /\ i # k /\ j # k => old(i) < old(j)
  BY <1>3, <1>4
<1>7. \A i \in 1 .. Len(wire') : \A j \in 1 .. old(i) - 1 : i # k =>
        new(j) \in 1 .. i - 1 /\ new(j) # k /\ old(new(j)) = j /\ new(j) \in 1 .. Len(wire')
  BY <1>3, <1>4
<1> HIDE DEF old, new
<1>8. /\ step' = step /\ mpc' = mpc /\ closed' = closed /\ response' = response /\ pending' = pending
      /\ Greeting' = Greeting /\ Asked' = Asked
  BY DEF modemOnly, hostVars, chanVars, Greeting, Asked
<1>9. InStep'
  <2>1. \A i \in 1 .. Len(wire') :
          IF wire'[i].of = "urc" THEN wire'[i].prefix \in UrcPrefixes ELSE wire'[i].of = Asked'
    BY <1>2, <1>5, <1>8 DEF InTime, InStep
  <2>2. ASSUME ~Greeting
        PROVE  /\ \A i \in 1 .. Len(wire') : Answers(wire'[i]) => mpc = "waiting" /\ pending = <<>>
               /\ \A i, j \in 1 .. Len(wire') : i < j /\ Concludes(wire'[i]) => ~Answers(wire'[j])
    <3>1. ~Answers(e)
      BY <1>2 DEF Answers
    <3>2. /\ \A i \in 1 .. Len(wire) : Answers(wire[i]) => mpc = "waiting" /\ pending = <<>>
          /\ \A i, j \in 1 .. Len(wire) : i < j /\ Concludes(wire[i]) => ~Answers(wire[j])
      BY <2>2 DEF InTime, InStep
    <3>3. \A i \in 1 .. Len(wire') : Answers(wire'[i]) => mpc = "waiting" /\ pending = <<>>
      BY <1>5, <3>1, <3>2
    <3>4. ASSUME NEW i \in 1 .. Len(wire'), NEW j \in 1 .. Len(wire'), i < j, Concludes(wire'[i]),
                 Answers(wire'[j])
          PROVE  FALSE
      <4>1. i # k /\ j # k
        BY <1>5, <3>1, <3>4 DEF Concludes
      <4>2. /\ old(i) \in 1 .. Len(wire) /\ old(j) \in 1 .. Len(wire) /\ old(i) < old(j)
            /\ Concludes(wire[old(i)]) /\ Answers(wire[old(j)])
        BY <1>5, <1>6, <3>4, <4>1
      <4> QED BY <3>2, <4>2
    <3> QED BY <3>3, <3>4
  <2>3. ~Greeting => (pending # <<>> => mpc = "waiting" /\ Len(pending) = 1)
    BY DEF InTime, InStep
  <2>4. \A i \in 1 .. Len(pending) : pending[i] = Asked
    BY DEF InTime, InStep
  <2> QED BY <1>8, <2>1, <2>2, <2>3, <2>4 DEF InStep
<1>10. WireIsTrue'
  <2>1. SUFFICES ASSUME ~Greeting, NEW i \in 1 .. Len(wire'), Answers(wire'[i])
                 PROVE  /\ IsFinal(wire'[i]) => FinalSays(wire'[i], step', modem')
                        /\ ~IsFinal(wire'[i]) => LineSays(wire'[i], step', modem') /\ wire'[i].prefix # "+CMTI"
                        /\ wire'[i].prefix = "OK" /\ step \in Telling =>
                             \/ response.lines # <<>>
                             \/ \E j \in 1 .. i - 1 : Answers(wire'[j]) /\ wire'[j].prefix = PrefixOf(step)
    BY <1>8 DEF WireIsTrue, FinalIsTrue, LineIsTrue
  <2>2. i # k /\ old(i) \in 1 .. Len(wire) /\ wire'[i] = wire[old(i)]
    BY <1>2, <1>5, <2>1 DEF Answers
  <2> DEFINE l == wire[old(i)]
  <2>3. /\ IsFinal(l) => FinalIsTrue(l)
        /\ ~IsFinal(l) => LineIsTrue(l) /\ l.prefix # "+CMTI"
        /\ l.prefix = "OK" /\ step \in Telling =>
             \/ response.lines # <<>>
             \/ \E j \in 1 .. old(i) - 1 : Answers(wire[j]) /\ wire[j].prefix = PrefixOf(step)
    BY <2>1, <2>2 DEF InTime, WireIsTrue
  <2>4. wire'[i] = l
    BY <2>2
  <2>5. ASSUME NEW j \in 1 .. old(i) - 1, Answers(wire[j]), wire[j].prefix = PrefixOf(step)
        PROVE  \E m \in 1 .. i - 1 : Answers(wire'[m]) /\ wire'[m].prefix = PrefixOf(step)
    <3>1. new(j) \in 1 .. i - 1 /\ new(j) # k /\ old(new(j)) = j /\ new(j) \in 1 .. Len(wire')
      BY <1>7, <2>1, <2>2
    <3>2. wire'[new(j)] = wire[j]
      BY <1>5, <3>1
    <3> QED BY <2>5, <3>1, <3>2
  <2> HIDE DEF l
  <2>6. /\ FinalIsTrue(l) => FinalSays(l, step', modem')
        /\ LineIsTrue(l) => LineSays(l, step', modem')
    BY <1>8 DEF FinalIsTrue, LineIsTrue, FinalSays, LineSays, Falls, NatIsSet
  <2> QED BY <2>3, <2>4, <2>5, <2>6
<1> QED BY <1>9, <1>10

LEMMA NetworkInTime ==
  ASSUME Typed, Typed', InTime, Registers \/ Deregisters \/ DropsCall \/ (\E p \in {"+CMTI", "OK", "error"} : Unasked(p))
  PROVE  InTime'
<1>1. /\ UNCHANGED <<modemOnly, pending, told, hangup, reboots>>
      /\ modem \in Modems /\ ~hangup
  BY DEF Registers, Deregisters, DropsCall, Unasked, NetworkChange, Typed, AtcTypes
<1>2. Falls
  <2>1. CASE Registers
    BY <1>1, <2>1 DEF Registers, NetworkChange, Falls, Modems
  <2>2. CASE Deregisters
    BY <1>1, <2>2 DEF Deregisters, NetworkChange, Falls, Modems
  <2>3. CASE DropsCall
    BY <1>1, <2>3 DEF DropsCall, NetworkChange, Falls, Modems
  <2>4. CASE \E p \in {"+CMTI", "OK", "error"} : Unasked(p)
    BY <2>4 DEF Unasked, Falls
  <2> QED BY <2>1, <2>2, <2>3, <2>4
<1>3. \E p \in UrcPrefixes : Urc(p)
  BY DEF Registers, Deregisters, DropsCall, Unasked, NetworkChange, UrcPrefixes
<1>4. /\ ResponseIsTrue' /\ CallTracked'
      /\ CallUp' => CallUp
      /\ NatSet' = NatSet
  BY <1>1, <1>2, FallsInTime
<1>5. InStep' /\ WireIsTrue'
  BY <1>1, <1>2, <1>3, <1>4, UrcInTime
<1>6. Closing'
  BY <1>1, <1>4 DEF InTime, Closing, modemOnly, hostVars, chanVars, deviceVars
<1>7. Styled'
  BY <1>1, <1>2, <1>4 DEF InTime, Styled, Falls, modemOnly, hostVars
<1> QED BY <1>4, <1>5, <1>6, <1>7 DEF InTime

\* The modem's answer to the command that waits.
LEMMA AnswerInTime == ASSUME Typed, Typed', InTime, ModemAnswers PROVE InTime'
<1> DEFINE op == Head(pending)
           t == Says(op)
           e == Line(op, IF Knows(op) THEN "OK" ELSE "error", "none")
           m == modem'
<1>1. /\ op \in Commands /\ pending \in Seq(Commands) /\ pending # <<>> /\ pending' = Tail(pending)
      /\ modem \in Modems /\ wire \in Seq(Lines) /\ ~hangup /\ op = pending[1]
      /\ UNCHANGED <<modemOnly, hangup, countVars>> /\ told' = (told \/ op = "cfun")
  BY DEF Typed, AtcTypes, ModemAnswers
<1>2. m = Effect(op) /\ wire' = wire \o t \o <<e>>
  BY DEF ModemAnswers
<1>3. /\ step' = step /\ mpc' = mpc /\ closed' = closed /\ response' = response
      /\ Greeting' = Greeting /\ Asked' = Asked /\ conn' = conn /\ asr' = asr
  BY <1>1 DEF modemOnly, hostVars, chanVars, Greeting, Asked
<1>4. op = Asked
  <2>1. 1 \in 1 .. Len(pending)
    BY <1>1
  <2> QED BY <1>1, <2>1 DEF InTime, InStep
<1> HIDE DEF op
<1>5. /\ m \in Modems /\ m.style = modem.style
      /\ m.nat = (IF op = "setnat" THEN newNat ELSE modem.nat)
      /\ op \notin {"act", "dial"} => (m.active => modem.active) /\ (m.bound => modem.bound)
      /\ op = "hang" => ~m.bound
      /\ op \notin {"setnat", "pin", "act", "dial", "hang"} => m = modem
  BY <1>1, <1>2, EffectFacts
<1>6. /\ t \in Seq(Lines) /\ Len(t) \in {0, 1}
      /\ Len(t) = 1 =>
           /\ t[1] \in Lines /\ t[1].of = op
           /\ ~IsFinal(t[1]) /\ t[1].prefix # "+CMTI"
           /\ op \in Telling => t[1].prefix = PrefixOf(op)
           /\ op = "nat" => t[1].value = modem.nat
           /\ op = "ctlq" => t[1].value = yesno(modem.bound)
           /\ op = "actq" => t[1].value = yesno(modem.active)
      /\ op \in Telling /\ Knows(op) => Len(t) = 1
  BY <1>1, SaysFacts
<1>7. e \in Lines /\ e.of = op /\ IsFinal(e) /\ e.prefix = IF Knows(op) THEN "OK" ELSE "error"
  BY <1>1, FinalLine
<1> HIDE DEF t, e, m
<1>8. /\ wire' \in Seq(Lines) /\ Len(wire') = Len(wire) + Len(t) + 1
      /\ \A i \in 1 .. Len(wire) : wire'[i] = wire[i]
      /\ Len(t) = 1 => wire'[Len(wire) + 1] = t[1]
      /\ wire'[Len(wire')] = e
  BY <1>1, <1>2, <1>6, <1>7, Joined
<1>9. \A i \in 1 .. Len(wire') :
        \/ i \in 1 .. Len(wire) /\ wire'[i] = wire[i]
        \/ Len(t) = 1 /\ i = Len(wire) + 1 /\ i < Len(wire') /\ wire'[i] = t[1]
        \/ i = Len(wire') /\ wire'[i] = e
  <2>1. Len(wire) \in Nat /\ Len(t) \in {0, 1}
    BY <1>1, <1>6
  <2>2. ASSUME NEW i \in 1 .. Len(wire')
        PROVE  \/ i \in 1 .. Len(wire)
               \/ Len(t) = 1 /\ i = Len(wire) + 1 /\ i < Len(wire')
               \/ i = Len(wire')
    <3>1. CASE Len(t) = 0
      <4>1. Len(wire') = Len(wire) + 1
        BY <1>8, <2>1, <3>1
      <4> QED BY <2>1, <2>2, <4>1
    <3>2. CASE Len(t) = 1
      <4>1. Len(wire') = Len(wire) + 2
        BY <1>8, <2>1, <3>2
      <4> QED BY <2>1, <2>2, <3>2, <4>1
    <3> QED BY <2>1, <3>1, <3>2
  <2> QED BY <1>8, <2>2
<1>10. \A i \in 1 .. Len(pending') : pending'[i] = Asked
  <2>1. \A i \in 1 .. Len(pending) : pending[i] = Asked
    BY DEF InTime, InStep
  <2> QED BY <1>1, <2>1, TailMoves
<1>11. \A i \in 1 .. Len(wire') :
         IF wire'[i].of = "urc" THEN wire'[i].prefix \in UrcPrefixes ELSE wire'[i].of = Asked
  <2>1. \A i \in 1 .. Len(wire) :
          IF wire[i].of = "urc" THEN wire[i].prefix \in UrcPrefixes ELSE wire[i].of = Asked
    BY DEF InTime, InStep
  <2>2. op # "urc"
    BY <1>1, CommandNames
  <2> QED BY <1>4, <1>6, <1>7, <1>9, <2>1, <2>2
<1>12. CASE Greeting
  <2>1. Asked = "ate"
    BY <1>12 DEF Asked
  <2>2. modem' = modem
    BY <1>4, <1>5, <2>1 DEF m
  <2>3. InStep'
    BY <1>3, <1>10, <1>11, <1>12 DEF InStep
  <2>4. WireIsTrue'
    BY <1>3, <1>12 DEF WireIsTrue
  <2>5. ResponseIsTrue'
    BY <1>3, <2>2 DEF InTime, ResponseIsTrue, HasFinal, FinalIsTrue, LineIsTrue
  <2>6. Closing'
    BY <1>1, <1>3, <2>2 DEF InTime, Closing, CallUp, modemOnly, deviceVars
  <2>7. told' = told
    <3>1. told \in BOOLEAN /\ op # "cfun"
      BY <1>4, <2>1 DEF Typed, AtcTypes
    <3> QED BY <1>1, <3>1
  <2>8. Styled' /\ CallTracked'
    BY <1>1, <1>3, <2>2, <2>7 DEF InTime, Styled, CallTracked, NatSet, CallUp, countVars
  <2> QED BY <2>3, <2>4, <2>5, <2>6, <2>8 DEF InTime
<1>13. CASE ~Greeting
  <2>1. op = step /\ Asked = step
    BY <1>4, <1>13 DEF Asked
  <2>2. /\ mpc = "waiting" /\ Len(pending) = 1
        /\ \A i \in 1 .. Len(wire) : ~Answers(wire[i])
    BY <1>1, <1>13 DEF InTime, InStep
  <2>3. pending' = <<>>
    BY <1>1, <2>2
  <2>4. /\ Answers(e) /\ Concludes(e)
        /\ Len(t) = 1 => Answers(t[1]) /\ ~Concludes(t[1])
    BY <1>1, <1>6, <1>7, CommandNames DEF Answers, Concludes
  <2>5. InStep'
    <3>1. \A i, j \in 1 .. Len(wire') : i < j /\ Concludes(wire'[i]) => ~Answers(wire'[j])
      <4>1. SUFFICES ASSUME NEW i \in 1 .. Len(wire'), NEW j \in 1 .. Len(wire'), i < j, Concludes(wire'[i])
                     PROVE  FALSE
        OBVIOUS
      <4>2. i = Len(wire')
        BY <1>9, <2>2, <2>4, <4>1 DEF Concludes
      <4>3. Len(wire') \in Nat
        BY <1>8
      <4> QED BY <4>1, <4>2, <4>3
    <3> QED BY <1>3, <1>10, <1>11, <2>2, <2>3, <3>1 DEF InStep
  <2>6. modem.style \in {"rg", "asr"} /\ modem.bound \in BOOLEAN /\ modem.active \in BOOLEAN
    BY <1>1 DEF Modems
  <2>7. FinalSays(e, step, m)
    <3>1. step \in {"query", "ip", "ipaddr"} /\ e.prefix # "OK" => ~(m.active /\ m.bound)
      BY <1>5, <1>7, <2>1 DEF Knows, InTime, Styled, CallUp
    <3>2. step \in {"ctlq", "actq"} => e.prefix = "OK"
      BY <1>7, <2>1 DEF Knows
    <3>3. step = "setnat" => NatIsSet(m)
      BY <1>5, <2>1, <2>6 DEF NatIsSet, newNat, InTime, Styled, Unstyled
    <3>4. step = "style" => (e.prefix = "OK" <=> m.style = "rg")
      BY <1>5, <1>7, <2>1 DEF Knows
    <3> QED BY <1>5, <2>1, <3>1, <3>2, <3>3, <3>4 DEF FinalSays
  <2>8. Len(t) = 1 => LineSays(t[1], step, m)
    BY <1>5, <1>6, <2>1, <2>6 DEF LineSays, yesno
  <2>9. WireIsTrue'
    <3>1. SUFFICES ASSUME NEW i \in 1 .. Len(wire'), Answers(wire'[i])
                   PROVE  /\ IsFinal(wire'[i]) => FinalSays(wire'[i], step, m)
                          /\ ~IsFinal(wire'[i]) => LineSays(wire'[i], step, m) /\ wire'[i].prefix # "+CMTI"
                          /\ wire'[i].prefix = "OK" /\ step \in Telling =>
                               \E j \in 1 .. i - 1 : Answers(wire'[j]) /\ wire'[j].prefix = PrefixOf(step)
      BY <1>3 DEF WireIsTrue, FinalIsTrue, LineIsTrue, m
    <3>2. CASE Len(t) = 1 /\ wire'[i] = t[1]
      BY <1>6, <2>8, <3>2 DEF IsFinal
    <3>3. CASE i = Len(wire') /\ wire'[i] = e
      <4>1. e.prefix = "OK" /\ step \in Telling =>
              \E j \in 1 .. i - 1 : Answers(wire'[j]) /\ wire'[j].prefix = PrefixOf(step)
        <5>1. SUFFICES ASSUME e.prefix = "OK", step \in Telling
                       PROVE  \E j \in 1 .. i - 1 : Answers(wire'[j]) /\ wire'[j].prefix = PrefixOf(step)
          OBVIOUS
        <5>2. Len(t) = 1 /\ t[1].prefix = PrefixOf(step)
          BY <1>6, <1>7, <2>1, <5>1
        <5>3. Len(wire) + 1 \in 1 .. i - 1
          <6>1. Len(wire) \in Nat
            BY <1>1
          <6> QED BY <1>8, <3>3, <5>2, <6>1
        <5> QED BY <1>8, <2>4, <5>2, <5>3
      <4> QED BY <1>7, <2>7, <3>3, <4>1
    <3> QED BY <1>9, <2>2, <3>1, <3>2, <3>3
  <2>10. ResponseIsTrue'
    <3>1. ~HasFinal /\ ~HasFinal'
      BY <1>3, <2>2 DEF InTime, ResponseIsTrue, HasFinal
    <3>2. step \in {"nat", "ctlq", "actq"} => modem' = modem
      BY <1>5, <2>1 DEF m
    <3> QED BY <1>3, <2>2, <3>1, <3>2 DEF InTime, ResponseIsTrue, LineIsTrue
  <2>11. Closing'
    BY <1>1, <1>3 DEF InTime, Closing, modemOnly, deviceVars
  <2>12. Styled'
    <3>1. NatSet => NatSet'
      BY <1>5, <2>1, <2>7 DEF FinalSays, NatSet, NatIsSet, m
    <3>2. modem'.style = modem.style
      BY <1>5 DEF m
    <3>3. told' => told \/ step = "cfun"
      BY <1>1, <2>1
    <3>4. reboots' = reboots /\ hangup' = hangup
      BY <1>1 DEF countVars
    <3> QED BY <1>3, <3>1, <3>2, <3>3, <3>4 DEF InTime, Styled
  <2>13. CallTracked'
    <3>1. step \notin {"act", "dial"} => (CallUp' => CallUp)
      BY <1>5, <2>1 DEF CallUp, m
    <3>2. step \notin {"joining", "ended"}
      BY <1>1, <2>1, CommandNames
    <3> QED BY <1>3, <3>1, <3>2 DEF InTime, CallTracked, Dialing
  <2> QED BY <2>5, <2>9, <2>10, <2>11, <2>12, <2>13 DEF InTime
<1> QED BY <1>12, <1>13

\* What the reader makes of a line (processLine).
LEMMA LineTaken ==
  ASSUME Typed, ReadLine, NEW l, l = Head(wire)
  PROVE  \/ UNCHANGED <<mpc, response>>
         \/ /\ response.set /\ IsFinal(l) /\ response' = [response EXCEPT !.final = l]
            /\ mpc' = IF mpc = "waiting" THEN "woken" ELSE mpc
         \/ /\ response.set /\ ~IsFinal(l) /\ Expected(l) /\ mpc' = mpc
            /\ response' = [response EXCEPT !.lines = Append(@, l)]
  BY DEF ReadLine, processLine, CondSignal, chanVars

\* The line that the answer of a command is for is not lost.
LEMMA LineKept ==
  ASSUME Typed, InTime, ReadLine, slip' = "never", NEW l, l = Head(wire),
         ~Greeting, Answers(l), step \in Telling, l.prefix = PrefixOf(step)
  PROVE  response'.lines # <<>>
<1>1. l = wire[1] /\ l \in Lines /\ 1 \in 1 .. Len(wire)
  BY DEF Typed, AtcTypes, ReadLine, readline
<1>2. mpc = "waiting"
  BY <1>1 DEF InTime, InStep
<1>3. response.set /\ response.lines \in Seq(Lines) /\ response \in Responses
  BY <1>2 DEF Typed, AtcTypes, Waits, Responses
<1>4. /\ l.prefix # "+CMTI" /\ ~IsFinal(l)
      /\ TypeOf(step) \in {SINGLELINE, MULTILINE}
  BY DEF Telling, PrefixOf, TypeOf, IsFinal, Bare, SingleOps
<1>5. ~sms
  BY SlipsTypes DEF ReadLine, Answers
<1>6. processLine(l)
  BY <1>4, <1>5 DEF ReadLine
<1>7. CASE Expected(l)
  <2> DEFINE more == Append(response.lines, l)
  <2>1. response' = [response EXCEPT !.lines = more]
    BY <1>3, <1>4, <1>6, <1>7 DEF processLine
  <2>2. more # <<>>
    BY <1>1, <1>3
  <2> HIDE DEF more
  <2>3. response'.lines = more
    BY <1>3, <2>1 DEF Responses
  <2> QED BY <2>2, <2>3
<1>8. CASE ~Expected(l)
  <2>1. response' = response
    BY <1>3, <1>4, <1>6, <1>8 DEF processLine, chanVars
  <2>2. response.lines # <<>>
    BY <1>4, <1>8 DEF Expected, NO_RESULT, NUMERIC, SINGLELINE, MULTILINE
  <2> QED BY <2>1, <2>2
<1> QED BY <1>7, <1>8

LEMMA ReadInTime == ASSUME Typed, Typed', InTime, ReadLine, slip' = "never" PROVE InTime'
<1> DEFINE l == Head(wire)
<1>1. /\ l = wire[1] /\ l \in Lines /\ Len(wire) \in Nat \ {0} /\ Len(wire') = Len(wire) - 1
      /\ \A i \in 1 .. Len(wire') : wire'[i] = wire[i + 1] /\ i + 1 \in 1 .. Len(wire)
      /\ 1 \in 1 .. Len(wire)
  BY DEF Typed, AtcTypes, ReadLine, readline
<1>2. /\ UNCHANGED <<step, conn, asr, closed, stopAsked, waitQuit, quitSent, modem, pending, told,
                     hangup, reboots>>
      /\ closed = FALSE
  <2>1. UNCHANGED <<hostVars, stopAsked, deviceVars, modem, pending, told, hangup, reboots>> /\ ~closed
    BY DEF ReadLine
  <2>2. closed' = closed
    BY DEF ReadLine, processLine, chanVars
  <2>3. closed \in BOOLEAN
    BY DEF Typed, AtcTypes
  <2> QED BY <2>1, <2>2, <2>3 DEF hostVars, deviceVars
<1>3. /\ mpc \in {"ready", "waiting", "woken"} /\ response \in Responses
      /\ mpc = "ready" => response.set = FALSE
      /\ mpc # "ready" => response.set /\ step \in Commands
  BY NullFacts DEF Typed, AtcTypes, Waits
<1>4. \/ UNCHANGED <<mpc, response>>
      \/ /\ response.set /\ IsFinal(l) /\ response' = [response EXCEPT !.final = l]
         /\ mpc' = IF mpc = "waiting" THEN "woken" ELSE mpc
      \/ /\ response.set /\ ~IsFinal(l) /\ Expected(l) /\ mpc' = mpc
         /\ response' = [response EXCEPT !.lines = Append(@, l)]
  BY LineTaken
<1>4a. UNCHANGED <<mpc, response>> \/ ~Stray(l)
  <2>1. CASE sms \/ l.prefix = "+CMTI"
    BY <2>1 DEF ReadLine, chanVars
  <2>2. CASE ~sms /\ l.prefix # "+CMTI"
    BY <2>2, SlipsTypes DEF ReadLine
  <2> QED BY <2>1, <2>2
<1>5. /\ IF l.of = "urc" THEN l.prefix \in UrcPrefixes ELSE l.of = Asked
      /\ IsFinal(l) /\ Answers(l) => Concludes(l)
  <2>1. IF l.of = "urc" THEN l.prefix \in UrcPrefixes ELSE l.of = Asked
    BY <1>1 DEF InTime, InStep
  <2> QED BY <2>1 DEF Concludes
<1>6. ~Greeting /\ Answers(l) =>
        /\ mpc = "waiting" /\ pending = <<>>
        /\ IsFinal(l) => /\ FinalIsTrue(l)
                         /\ l.prefix = "OK" /\ step \in Telling => response.lines # <<>>
                         /\ \A i \in 1 .. Len(wire') : ~Answers(wire'[i])
        /\ ~IsFinal(l) => LineIsTrue(l) /\ l.prefix # "+CMTI"
  <2>1. SUFFICES ASSUME ~Greeting, Answers(l)
                 PROVE  /\ mpc = "waiting" /\ pending = <<>>
                        /\ IsFinal(l) => /\ FinalIsTrue(l)
                                         /\ l.prefix = "OK" /\ step \in Telling => response.lines # <<>>
                                         /\ \A i \in 1 .. Len(wire') : ~Answers(wire'[i])
                        /\ ~IsFinal(l) => LineIsTrue(l) /\ l.prefix # "+CMTI"
    OBVIOUS
  <2>2. mpc = "waiting" /\ pending = <<>>
    BY <1>1, <2>1 DEF InTime, InStep
  <2>3. /\ IsFinal(l) => FinalIsTrue(l)
        /\ ~IsFinal(l) => LineIsTrue(l) /\ l.prefix # "+CMTI"
        /\ l.prefix = "OK" /\ step \in Telling =>
             response.lines # <<>> \/ \E j \in 1 .. 1 - 1 : Answers(wire[j]) /\ wire[j].prefix = PrefixOf(step)
    BY <1>1, <2>1 DEF InTime, WireIsTrue
  <2>4. ASSUME IsFinal(l), NEW i \in 1 .. Len(wire') PROVE ~Answers(wire'[i])
    <3>1. 1 < i + 1 /\ i + 1 \in 1 .. Len(wire) /\ wire'[i] = wire[i + 1] /\ Concludes(wire[1])
      BY <1>1, <2>1, <2>4 DEF Concludes
    <3> QED BY <1>1, <2>1, <3>1 DEF InTime, InStep
  <2> QED BY <2>2, <2>3, <2>4
<1> HIDE DEF l
<1>7. (mpc' = "ready" <=> mpc = "ready") /\ Greeting' = Greeting /\ Asked' = Asked
  <2>1. mpc' = "ready" <=> mpc = "ready"
    BY <1>3, <1>4
  <2> QED BY <1>2, <2>1 DEF Greeting, Asked
<1>8. mpc' = mpc \/ (IsFinal(l) /\ (~Greeting => Answers(l)) /\ mpc = "waiting" /\ mpc' = "woken")
  <2>1. response.set /\ IsFinal(l) /\ ~Answers(l) /\ ~Stray(l) => Greeting
    BY DEF Stray, Answers, Greeting
  <2> QED BY <1>3, <1>4, <1>4a, <2>1
<1>9. InStep'
  <2>1. \A i \in 1 .. Len(wire') :
          IF wire'[i].of = "urc" THEN wire'[i].prefix \in UrcPrefixes ELSE wire'[i].of = Asked
    BY <1>1 DEF InTime, InStep
  <2>2. ASSUME ~Greeting
        PROVE  /\ pending # <<>> => mpc' = "waiting" /\ Len(pending) = 1
               /\ \A i \in 1 .. Len(wire') : Answers(wire'[i]) => mpc' = "waiting" /\ pending = <<>>
               /\ \A i, j \in 1 .. Len(wire') : i < j /\ Concludes(wire'[i]) => ~Answers(wire'[j])
    <3>1. /\ pending # <<>> => mpc = "waiting" /\ Len(pending) = 1
          /\ \A i \in 1 .. Len(wire) : Answers(wire[i]) => mpc = "waiting" /\ pending = <<>>
          /\ \A i, j \in 1 .. Len(wire) : i < j /\ Concludes(wire[i]) => ~Answers(wire[j])
      BY <2>2 DEF InTime, InStep
    <3>2. \A i, j \in 1 .. Len(wire') : i < j => i + 1 < j + 1
      OBVIOUS
    <3>3. \A i, j \in 1 .. Len(wire') : i < j /\ Concludes(wire'[i]) => ~Answers(wire'[j])
      BY <1>1, <3>1, <3>2
    <3> QED BY <1>1, <1>5, <1>6, <1>8, <2>2, <3>1, <3>3
  <2>3. \A i \in 1 .. Len(pending) : pending[i] = Asked
    BY DEF InTime, InStep
  <2> QED BY <1>2, <1>7, <2>1, <2>2, <2>3 DEF InStep
<1>10. \/ mpc' = mpc /\ response' = response
       \/ /\ response.set /\ IsFinal(l) /\ response'.final = l /\ response'.lines = response.lines
          /\ mpc' = IF mpc = "waiting" THEN "woken" ELSE mpc
       \/ /\ response.set /\ ~IsFinal(l) /\ Expected(l) /\ mpc' = mpc
          /\ response'.final = response.final /\ response'.lines = Append(response.lines, l)
  <2> DEFINE more == Append(response.lines, l)
  <2>1. response.lines \in Seq(Lines)
    BY <1>3 DEF Responses
  <2>2. more \in Seq(Lines)
    BY <1>1, <2>1
  <2> HIDE DEF more
  <2>3. response' = [response EXCEPT !.final = l] => response'.final = l /\ response'.lines = response.lines
    BY <1>1, <1>3 DEF Responses
  <2>4. response' = [response EXCEPT !.lines = more] =>
          response'.final = response.final /\ response'.lines = more
    BY <1>3, <2>2 DEF Responses
  <2> QED BY <1>4, <2>3, <2>4 DEF more
<1>11. response.lines \in Seq(Lines) /\ (response.lines # <<>> => response'.lines # <<>>)
  <2>1. response.lines \in Seq(Lines)
    BY <1>3 DEF Responses
  <2> QED BY <1>1, <1>10, <2>1
<1>12. ~Greeting /\ Answers(l) /\ step \in Telling /\ l.prefix = PrefixOf(step) => response'.lines # <<>>
  BY LineKept DEF l
<1>13. WireIsTrue'
  <2>1. SUFFICES ASSUME ~Greeting, NEW i \in 1 .. Len(wire'), Answers(wire'[i])
                 PROVE  /\ IsFinal(wire'[i]) => FinalIsTrue(wire'[i])
                        /\ ~IsFinal(wire'[i]) => LineIsTrue(wire'[i]) /\ wire'[i].prefix # "+CMTI"
                        /\ wire'[i].prefix = "OK" /\ step \in Telling =>
                             \/ response'.lines # <<>>
                             \/ \E j \in 1 .. i - 1 : Answers(wire'[j]) /\ wire'[j].prefix = PrefixOf(step)
    BY <1>2, <1>7 DEF WireIsTrue, FinalIsTrue, LineIsTrue
  <2>2. /\ wire'[i] = wire[i + 1] /\ i + 1 \in 1 .. Len(wire)
        /\ IsFinal(wire[i + 1]) => FinalIsTrue(wire[i + 1])
        /\ ~IsFinal(wire[i + 1]) => LineIsTrue(wire[i + 1]) /\ wire[i + 1].prefix # "+CMTI"
        /\ wire[i + 1].prefix = "OK" /\ step \in Telling =>
             \/ response.lines # <<>>
             \/ \E j \in 1 .. (i + 1) - 1 : Answers(wire[j]) /\ wire[j].prefix = PrefixOf(step)
    BY <1>1, <2>1 DEF InTime, WireIsTrue
  <2>3. ASSUME step \in Telling, NEW j \in 1 .. (i + 1) - 1, Answers(wire[j]), wire[j].prefix = PrefixOf(step)
        PROVE  \/ response'.lines # <<>>
               \/ \E k \in 1 .. i - 1 : Answers(wire'[k]) /\ wire'[k].prefix = PrefixOf(step)
    <3>1. CASE j = 1
      BY <1>1, <1>12, <2>1, <2>3, <3>1
    <3>2. CASE j # 1
      <4>1. j - 1 \in 1 .. i - 1 /\ j - 1 \in 1 .. Len(wire') /\ wire'[j - 1] = wire[(j - 1) + 1] /\ (j - 1) + 1 = j
        BY <1>1, <2>1, <2>3, <3>2
      <4> QED BY <2>3, <4>1
    <3> QED BY <3>1, <3>2
  <2> QED BY <1>11, <2>2, <2>3
<1>14. response.set /\ Answers(l) => step \in Commands /\ l.of = step
  <2>1. Greeting /\ mpc # "ready" /\ step \in Commands => step = "ate"
    BY CommandNames DEF Greeting
  <2> QED BY <1>3, <1>5, <2>1 DEF Asked, Answers
<1>15. ResponseIsTrue'
  <2>1. /\ mpc = "waiting" => ~HasFinal
        /\ mpc = "woken" => HasFinal \/ closed
        /\ HasFinal => /\ response.final.of = step \/ (step = "ate" /\ response.final.of = "urc")
                       /\ FinalIsTrue(response.final)
                       /\ response.final.prefix = "OK" /\ step \in Telling => response.lines # <<>>
        /\ \A i \in 1 .. Len(response.lines) :
             /\ response.lines[i].of \in {step, "urc"}
             /\ step \in {"nat", "ctlq", "actq"} =>
                  response.lines[i].of = step /\ LineIsTrue(response.lines[i])
    BY DEF InTime, ResponseIsTrue
  <2>3. CASE mpc' = mpc /\ response' = response
    BY <1>2, <2>1, <2>3 DEF ResponseIsTrue, HasFinal, FinalIsTrue, LineIsTrue
  <2>4. CASE /\ response.set /\ IsFinal(l) /\ response'.final = l /\ response'.lines = response.lines
             /\ mpc' = IF mpc = "waiting" THEN "woken" ELSE mpc
    <3>0. (Answers(l) /\ l.of = step) \/ (step = "ate" /\ l.of = "urc")
      <4>1. CASE UNCHANGED <<mpc, response>>
        <5>1. HasFinal /\ response.final = l
          BY <2>4, <4>1 DEF HasFinal, IsFinal
        <5> QED BY <1>3, <1>14, <2>1, <2>4, <5>1, CommandNames DEF Answers
      <4>2. CASE ~Stray(l)
        BY <1>14, <2>4, <4>2 DEF Stray, Answers
      <4> QED BY <1>4a, <4>1, <4>2
    <3>1. step # "ate" => Answers(l) /\ l.of = step
      BY <3>0
    <3>2. FinalIsTrue(l) /\ (l.prefix = "OK" /\ step \in Telling => response.lines # <<>>)
      <4>1. CASE Greeting
        <5>1. step = "ate"
          BY <1>3, <2>4, <4>1, CommandNames DEF Greeting
        <5> QED BY <5>1 DEF FinalIsTrue, FinalSays, Telling
      <4>2. CASE ~Greeting
        <5>1. step # "ate"
          BY <4>2 DEF Greeting
        <5> QED BY <1>6, <2>4, <3>1, <4>2, <5>1
      <4> QED BY <4>1, <4>2
    <3>3. HasFinal' /\ mpc' # "waiting"
      BY <1>3, <2>4 DEF HasFinal, IsFinal
    <3> QED BY <1>2, <2>1, <2>4, <3>0, <3>2, <3>3 DEF ResponseIsTrue, FinalIsTrue, LineIsTrue
  <2>5. CASE /\ response.set /\ ~IsFinal(l) /\ Expected(l) /\ mpc' = mpc
             /\ response'.final = response.final /\ response'.lines = Append(response.lines, l)
    <3>1. l.of \in {step, "urc"}
      BY <1>5, <1>14, <2>5 DEF Answers
    <3>2. step \in {"nat", "ctlq", "actq"} => l.of = step /\ LineIsTrue(l)
      <4>1. SUFFICES ASSUME step \in {"nat", "ctlq", "actq"} PROVE l.of = step /\ LineIsTrue(l)
        OBVIOUS
      <4>2. l.prefix = PrefixOf(step)
        BY <2>5, <4>1 DEF Expected, TypeOf, PrefixOf, NO_RESULT, NUMERIC, SINGLELINE, MULTILINE,
           Bare, SingleOps
      <4>3. PrefixOf(step) \notin UrcPrefixes
        BY <4>1 DEF PrefixOf, UrcPrefixes
      <4>4. l.of = step /\ Answers(l)
        BY <1>5, <1>14, <2>5, <4>2, <4>3 DEF Answers
      <4>5. ~Greeting
        BY <4>1 DEF Greeting
      <4> QED BY <1>6, <2>5, <4>4, <4>5
    <3>3. \A i \in 1 .. Len(response'.lines) :
            \/ i \in 1 .. Len(response.lines) /\ response'.lines[i] = response.lines[i]
            \/ response'.lines[i] = l
      BY <1>1, <1>11, <2>5
    <3>4. HasFinal' = HasFinal
      BY <2>5 DEF HasFinal
    <3>5. \A i \in 1 .. Len(response'.lines) :
            /\ response'.lines[i].of \in {step, "urc"}
            /\ step \in {"nat", "ctlq", "actq"} =>
                 response'.lines[i].of = step /\ LineIsTrue(response'.lines[i])
      BY <2>1, <3>1, <3>2, <3>3
    <3> QED BY <1>2, <1>11, <2>1, <2>5, <3>4, <3>5 DEF ResponseIsTrue, FinalIsTrue, LineIsTrue
  <2> QED BY <1>10, <2>3, <2>4, <2>5
<1>16. Closing'
  <2>1. events' \in {events, Posted("CALL"), Posted("NET")}
    BY DEF ReadLine, processLine, handleUnsolicited
  <2>2. \A i \in 1 .. Len(events') : events'[i] = "DISCONNECTED" =>
          \E j \in 1 .. Len(events) : events[j] = "DISCONNECTED"
    <3>1. events \in Seq(EventNames) /\ {"CALL", "NET"} \subseteq EventNames
      BY DEF Typed, AtcTypes, EventNames
    <3>2. \A e \in {"CALL", "NET"} : \A i \in 1 .. Len(Posted(e)) :
            Posted(e)[i] = e \/ (\E j \in 1 .. Len(events) : Posted(e)[i] = events[j])
      BY <3>1, PostedTypes
    <3> QED BY <2>1, <3>2
  <2>3. CallUp' = CallUp
    BY <1>2 DEF CallUp
  <2> QED BY <1>2, <2>2, <2>3 DEF InTime, Closing
<1>17. Styled' /\ CallTracked'
  BY <1>2 DEF InTime, Styled, CallTracked, NatSet, CallUp
<1> QED BY <1>9, <1>13, <1>15, <1>16, <1>17 DEF InTime

-----------------------------------------------------------------------------
(* The invariant, and what it says *)

LEMMA StutterInTime == ASSUME InTime, UNCHANGED vars PROVE InTime'
<1>1. UNCHANGED <<modemOnly, modemVars, countVars>>
  BY DEF vars, modemOnly, modemVars, countVars
<1>2. /\ UNCHANGED <<step, why, tries, asr, ps, conn, again, mpc, response, closed, events, stopAsked,
                     device, waitQuit, quitSent, modem, pending, told, wire, hangup, reboots>>
  BY <1>1 DEF modemOnly, hostVars, chanVars, deviceVars, modemVars, countVars
<1>3. InStep'
  BY <1>2 DEF InTime, InStep, Greeting, Asked
<1>4. WireIsTrue'
  BY <1>2 DEF InTime, WireIsTrue, Greeting, FinalIsTrue, LineIsTrue
<1>5. ResponseIsTrue'
  BY <1>2 DEF InTime, ResponseIsTrue, HasFinal, FinalIsTrue, LineIsTrue
<1>6. Closing'
  BY <1>2 DEF InTime, Closing, CallUp
<1>7. Styled' /\ CallTracked'
  BY <1>2 DEF InTime, Styled, CallTracked, NatSet, CallUp
<1> QED BY <1>3, <1>4, <1>5, <1>6, <1>7 DEF InTime

\* A step that answers no command late keeps what is known of the modem.
LEMMA InTimeKept ==
  ASSUME Typed, Typed', InTime, [Next]_vars, slip' = "never" PROVE InTime'
<1>1. CASE UNCHANGED vars
  BY <1>1, StutterInTime
<1>2. CASE MainStep
  <2>1. ~Refused
    BY SlipsTypes DEF Refused
  <2> QED BY <1>2, <2>1, SendInTime, ReturnInTime, PauseInTime, LoopInTime, AgainInTime DEF MainStep
<1>3. CASE Timeout \/ ReaderStep \/ DeviceLeaves
  BY <1>3, TimeoutInTime, ReadInTime, CloseInTime DEF ReaderStep
<1>4. CASE ModemStep
  BY <1>4, AnswerInTime, RestartInTime DEF ModemStep
<1>5. CASE Signal \/ Registers \/ Deregisters \/ DropsCall \/ Hangup \/ (\E p \in {"+CMTI", "OK", "error"} : Unasked(p))
  <2>1. ~Hangup
    BY SlipsTypes DEF Hangup
  <2> QED BY <1>5, <2>1, SignalInTime, NetworkInTime
<1> QED BY <1>1, <1>2, <1>3, <1>4, <1>5 DEF Next

LEMMA InitAtcInv == Init => AtcInv
<1> SUFFICES ASSUME Init PROVE AtcInv
  OBVIOUS
<1>1. /\ modem \in Modems /\ profile \in Profiles
  BY SetupsAssumption DEF Init
<1>2. step = "ate" /\ "ate" \in Commands /\ "ate" \in Steps
  BY CommandNames DEF Init, Commanding, Steps
<1>3. /\ 0 \in 0 .. MaxFaults /\ 0 \in 0 .. MaxChanges /\ 0 \in 0 .. MaxStops
  BY BoundsAssumption
<1>4. /\ response \in Responses /\ response = NULL /\ Len(response.lines) = 0
      /\ response.final.prefix = "none"
  BY NullFacts DEF Init
<1>5. /\ <<>> \in Seq(EventNames) /\ <<>> \in Seq(Commands) /\ <<>> \in Seq(Lines)
  OBVIOUS
<1>6. AtcTypes
  BY <1>1, <1>2, <1>3, <1>4, <1>5 DEF AtcTypes, Init
<1>7. Waits
  BY <1>2, <1>4 DEF Waits, Init
<1>8. Greeting /\ pending = <<>> /\ wire = <<>> /\ events = <<>> /\ mpc = "ready" /\ closed = FALSE
      /\ hangup = FALSE /\ told = FALSE /\ asr = FALSE /\ reboots = 0 /\ conn = Unknow
      /\ quitSent = FALSE /\ waitQuit = FALSE /\ stopAsked = FALSE
  BY DEF Init, Greeting
<1>9. InStep
  BY <1>8 DEF InStep
<1>10. WireIsTrue
  BY <1>8 DEF WireIsTrue
<1>11. ResponseIsTrue
  BY <1>4, <1>8 DEF ResponseIsTrue, HasFinal
<1>12. Closing
  <2>1. ~\E i \in 1 .. Len(events) : events[i] = "DISCONNECTED"
    BY <1>8
  <2> QED BY <1>2, <1>8, <2>1 DEF Closing
<1>13. Styled
  BY <1>2, <1>8 DEF Styled, Early, Unstyled
<1>14. CallTracked
  BY <1>2, <1>8 DEF CallTracked, Down, Unknow
<1> QED BY <1>6, <1>7, <1>9, <1>10, <1>11, <1>12, <1>13, <1>14 DEF AtcInv, InTime

LEMMA AtcInvKept == AtcInv /\ [Next]_vars => AtcInv'
<1> SUFFICES ASSUME AtcInv, [Next]_vars PROVE AtcInv'
  OBVIOUS
<1>1. Typed /\ Typed'
  BY TypesKept DEF AtcInv, Typed
<1>2. ASSUME slip' = "never" PROVE InTime'
  <2>1. InTime
    BY <1>2, SlipStays DEF AtcInv
  <2> QED BY <1>1, <1>2, <2>1, InTimeKept
<1> QED BY <1>1, <1>2 DEF AtcInv, Typed

\* Until an answer is late or broken, or a final response that came unasked is taken
\* for one, what is under way on the channel answers the command that waits, and is
\* true of the modem, for no command is sent before the answer to the one before is
\* read (at_send_command_full_nolock, processLine, readerLoop).
THEOREM AtcInvariant == Spec => []AtcInv
<1> QED BY InitAtcInv, AtcInvKept, PTL DEF Spec

LEMMA AtcInvSays == AtcInv => CallUnderControl
<1> SUFFICES ASSUME AtcInv PROVE CallUnderControl
  OBVIOUS
<1>1. AtcTypes /\ Waits /\ (slip = "never" => InTime)
  BY DEF AtcInv
<1>2. TypeOK
  <2>1. mpc = "ready" <=> ~response.set
    BY <1>1, NullFacts DEF Waits
  <2>2. {asr, ps, again, closed, sms, stopAsked, waitQuit, quitSent, told, hangup} \subseteq BOOLEAN
    BY <1>1, Zenon DEF AtcTypes
  <2>3. TypeOf(step) \in {SINGLELINE, NUMERIC} => Len(response.lines) <= 1
    BY <1>1 DEF Waits
  <2>4. step \in Commands \cup {"pause", "loop", "joining", "ended", "failed"}
    BY <1>1 DEF AtcTypes, Steps
  <2> QED BY <1>1, <2>1, <2>2, <2>3, <2>4 DEF TypeOK, AtcTypes
<1>3. AnswerIsMine
  <2>1. SUFFICES ASSUME HasFinal, slip = "never"
                 PROVE  /\ response.final.of = step \/ (step = "ate" /\ response.final.of = "urc")
                        /\ \A i \in DOMAIN response.lines : response.lines[i].of \in {step, "urc"}
    BY DEF AnswerIsMine
  <2>2. DOMAIN response.lines = 1 .. Len(response.lines)
    BY <1>1 DEF AtcTypes, Responses
  <2> QED BY <1>1, <2>1, <2>2 DEF InTime, ResponseIsTrue
<1>4. RestartedOnce
  BY <1>1 DEF RestartedOnce, InTime, Styled
<1>5. StopLeavesNoCall
  BY <1>1 DEF StopLeavesNoCall, InTime, CallTracked
<1> QED BY <1>2, <1>3, <1>4, <1>5 DEF CallUnderControl

\* As long as every command was answered in time and whole, and no final response
\* like NO CARRIER came unasked while one waited (atchannel.c:132), a command
\* returns with the modem's answer to it, although no answer carries an id and
\* whatever other lines come between (at_send_command_full_nolock, processLine);
\* the modem is restarted once at most for its NAT mode (atc_init); and a
\* manager that was told to stop and knows of the call leaves none behind.
THEOREM AtCallIsUnderControl == Spec => []CallUnderControl
<1> QED BY AtcInvariant, AtcInvSays, PTL
=============================================================================
