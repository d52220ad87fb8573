----------------------------- MODULE ProxyProofs -----------------------------
(***************************************************************************)
(* The three proxies with any number of managers, descriptors, client ids  *)
(* and requests: while no manager left with a request under way and the    *)
(* modem lost nothing, every answer reaches the manager that asked.        *)
(*                                                                         *)
(* Types and Places hold always.  Clean is what the routing rests on: the  *)
(* control queue and what the modem holds agree (QueueServed), every       *)
(* request's way back leads to its manager (QueueOwned, DevOwned), and the *)
(* client ids are those of the modem (IdsOfModem).                         *)
(***************************************************************************)
EXTENDS Proxy, SequenceTheorems, FiniteSetTheorems, WellFoundedInduction, TLAPS

-----------------------------------------------------------------------------
(* The inductive invariant *)

Queued == [fd : Fds, req : Requests]
Sent == [req : Requests, tag : Fds \cup {0}]
IdSets == SUBSET Ids
ClientSets == SUBSET Clients
Given == [req : Requests \cup {NoRequest}, to : ClientSets]

Types ==
  /\ kind \in Kinds
  /\ mpc \in {"open", "init", "serve", "ended"} /\ tries \in 0 .. Tries
  /\ quit \in {"no", "seen", "missed"}
  /\ list \in Seq(Fds) /\ conn \in [Fds -> Clients \cup {None}] /\ ids \in [Fds -> IdSets]
  /\ ctlq \in Seq(Queued) /\ busy \in BOOLEAN
  /\ pollfds \in [1 .. MaxFds + 1 -> Fds \cup {0}]
  /\ dev \in Seq(Sent) /\ granted \in [Ids -> Clients \cup {None}]
  /\ plugged \in BOOLEAN /\ clean \in BOOLEAN /\ got \in Given
  /\ leaked \in BOOLEAN /\ leftBehind \in BOOLEAN
  /\ nask \in 0 .. MaxAsks /\ nfault \in 0 .. MaxFaults

\* The list holds each connection once, a manager has one connection, and
\* only a proxy that serves has any.
Places ==
  /\ \A f \in Fds : conn[f] # None <=> \E i \in 1 .. Len(list) : list[i] = f
  /\ \A i, j \in 1 .. Len(list) : list[i] = list[j] => i = j
  /\ \A f, g \in Fds : conn[f] = conn[g] /\ conn[f] # None => f = g
  /\ \A f \in Fds : conn[f] = None => ids[f] = {}
  /\ mpc # "serve" => list = <<>>
  /\ kind # "qmi" => ctlq = <<>> /\ \A f \in Fds : ids[f] = {}

IsRelease(r) == r.what = "release"

\* A queued request belongs to the manager at the other end of its connection;
\* no client id is released twice.
QueueOwned ==
  /\ \A i \in 1 .. Len(ctlq) :
       /\ IsCtl(ctlq[i].req) /\ conn[ctlq[i].fd] = ctlq[i].req.who
       /\ IsRelease(ctlq[i].req) => ctlq[i].req.id \in ids[ctlq[i].fd]
  /\ \A i, j \in 1 .. Len(ctlq) :
       /\ IsRelease(ctlq[i].req) /\ IsRelease(ctlq[j].req)
       /\ ctlq[i].req.id = ctlq[j].req.id
       => i = j

\* The head of the queue, and no other control request, is with the modem.
QueueServed ==
  /\ \A i \in 1 .. Len(dev) :
       kind = "qmi" /\ IsCtl(dev[i].req) => ctlq # <<>> /\ dev[i].req = ctlq[1].req
  /\ \A i, j \in 1 .. Len(dev) :
       kind = "qmi" /\ IsCtl(dev[i].req) /\ IsCtl(dev[j].req) => i = j
  /\ ctlq # <<>> => \E i \in 1 .. Len(dev) : dev[i].req = ctlq[1].req

\* What the other requests are routed by leads back to their managers; none
\* comes after the release of its client id.
DevOwned ==
  \A i \in 1 .. Len(dev) :
    /\ kind = "mbim" => dev[i].tag \in Fds /\ conn[dev[i].tag] = dev[i].req.who
    /\ kind = "qmi" /\ ~IsCtl(dev[i].req) =>
         \E f \in Fds : conn[f] = dev[i].req.who /\ dev[i].req.id \in ids[f]
    /\ kind = "qmi" /\ IsRelease(dev[i].req) =>
         \A j \in 1 .. Len(dev) : j > i => dev[j].req.id # dev[i].req.id

IdsOfModem == \A f \in Fds : \A i \in ids[f] : granted[i] = conn[f]

\* Lists have only grown, but for the last connection: no old entry of pollfds
\* names a connection that another client has now.
PollIsFresh ==
  kind = "atc" => \A i \in 1 .. MaxFds + 1 : i > Len(list) /\ i > 1 => pollfds[i] = 0

Clean == plugged /\ QueueOwned /\ QueueServed /\ DevOwned /\ IdsOfModem /\ PollIsFresh

Routed == AnswerReachesAsker /\ AnswerToNobodyElse

IInv == Types /\ Places /\ (clean => Clean) /\ Routed

USE DEF lossVars

-----------------------------------------------------------------------------
(* Lemmas about the operators *)

\* The lowest free descriptor, id or place is one of them.
LEMMA LowestIsIn ==
  ASSUME NEW S, S \subseteq Nat, S # {}
  PROVE  Lowest(S) \in S
<1> DEFINE R == {ss \in Nat \X Nat : ss[1] < ss[2]}
<1>1. IsWellFoundedOn(R, Nat)
  BY NatLessThanWellFounded, Zenon DEF OpToRel
<1>2. PICK x \in S : \A y \in S : ~(<<y, x>> \in R)
  <2> HIDE DEF R
  <2> QED BY <1>1, WFMin
<1>3. ASSUME NEW y \in S PROVE x <= y
  <2>1. x \in Nat /\ y \in Nat /\ (y < x => <<y, x>> \in R)
    OBVIOUS
  <2>2. ~(y < x)
    BY <1>2, <2>1
  <2> QED BY <2>1, <2>2
<1> QED BY <1>3 DEF Lowest

\* Taking one element out of a sequence.
LEMMA RemoveAtFacts ==
  ASSUME NEW S, NEW s \in Seq(S), NEW i \in 1 .. Len(s)
  PROVE  /\ RemoveAt(s, i) \in Seq(S) /\ Len(RemoveAt(s, i)) = Len(s) - 1
         /\ \A k \in 1 .. Len(s) - 1 : RemoveAt(s, i)[k] = IF k < i THEN s[k] ELSE s[k + 1]
<1> DEFINE a == SubSeq(s, 1, i - 1)
           b == SubSeq(s, i + 1, Len(s))
<1>0. Len(s) \in Nat /\ i \in Nat /\ 1 <= i /\ i <= Len(s)
  BY LenProperties
<1>1. /\ a \in Seq(S) /\ Len(a) = i - 1
      /\ \A k \in 1 .. i - 1 : a[k] = s[k]
  <2>1. \A k \in 1 .. i - 1 : s[k] \in S
    BY <1>0, ElementOfSeq
  <2> QED BY <1>0, <2>1, SubSeqProperties
<1>2. /\ b \in Seq(S) /\ Len(b) = Len(s) - i
      /\ \A k \in 1 .. Len(s) - i : b[k] = s[i + k]
  <2>1. \A k \in i + 1 .. Len(s) : s[k] \in S
    BY <1>0, ElementOfSeq
  <2> QED BY <1>0, <2>1, SubSeqProperties
<1> HIDE DEF a, b
<1>3. /\ a \o b \in Seq(S) /\ Len(a \o b) = Len(s) - 1
      /\ \A k \in 1 .. Len(a) + Len(b) :
           (a \o b)[k] = IF k <= Len(a) THEN a[k] ELSE b[k - Len(a)]
  <2>1. a \in Seq(S) /\ b \in Seq(S)
    BY <1>1, <1>2
  <2>2. Len(a \o b) = Len(a) + Len(b)
    BY <2>1, ConcatProperties
  <2>3. Len(a) + Len(b) = Len(s) - 1
    BY <1>0, <1>1, <1>2
  <2> QED BY <2>1, <2>2, <2>3, ConcatProperties
<1>4. ASSUME NEW k \in 1 .. Len(s) - 1
      PROVE  (a \o b)[k] = IF k < i THEN s[k] ELSE s[k + 1]
  <2>1. CASE k < i
    <3>1. k \in 1 .. i - 1 /\ k \in 1 .. Len(a) + Len(b) /\ k <= Len(a)
      BY <1>0, <1>1, <1>2, <2>1
    <3> QED BY <1>1, <1>3, <3>1, <2>1
  <2>2. CASE ~(k < i)
    <3>1. /\ k \in 1 .. Len(a) + Len(b) /\ ~(k <= Len(a)) /\ k - Len(a) = k - i + 1
          /\ k - i + 1 \in 1 .. Len(s) - i /\ i + (k - i + 1) = k + 1
      BY <1>0, <1>1, <1>2, <2>2
    <3> QED BY <1>2, <1>3, <3>1, <2>2
  <2> QED BY <2>1, <2>2
<1> QED BY <1>3, <1>4 DEF RemoveAt, a, b

LEMMA RangeIs ==
  ASSUME NEW S, NEW s \in Seq(S)
  PROVE  \A x : x \in Range(s) <=> \E i \in 1 .. Len(s) : s[i] = x
BY LenProperties DEF Range

\* A list without duplicates has at most as many entries as descriptors exist.
LEMMA ListIsShort ==
  ASSUME Types, Places
  PROVE  Len(list) \in 0 .. MaxFds
<1>1. list \in Seq(Fds) /\ Len(list) \in Nat /\ MaxFds \in Nat
  BY LenProperties, FdsAssumption DEF Types
<1>2. list \in [1 .. Len(list) -> Fds]
  BY <1>1, LenProperties
<1>3. /\ IsFiniteSet(1 .. Len(list)) /\ Cardinality(1 .. Len(list)) = Len(list)
      /\ IsFiniteSet(Fds) /\ Cardinality(Fds) = MaxFds
  <2>1. \A n \in Nat : IsFiniteSet(1 .. n) /\ Cardinality(1 .. n) = n
    <3> TAKE n \in Nat
    <3>1. Cardinality(1 .. n) = IF 1 > n THEN 0 ELSE n - 1 + 1
      BY FS_Interval
    <3>2. IsFiniteSet(1 .. n)
      BY FS_Interval
    <3> QED BY <3>1, <3>2
  <2> QED BY <1>1, <2>1 DEF Fds
<1>4. CASE MaxFds < Len(list)
  <2>1. \E x, y \in 1 .. Len(list) : x # y /\ list[x] = list[y]
    BY <1>2, <1>3, <1>4, FS_PigeonHole
  <2> QED BY <2>1 DEF Places
<1> QED BY <1>1, <1>4

\* Where nobody is connected nothing is.
LEMMA NoList ==
  ASSUME Types, Places, list = <<>>
  PROVE  \A f \in Fds : conn[f] = None /\ ids[f] = {}
<1>1. 1 .. Len(list) = {}
  BY EmptySeq
<1> QED BY <1>1 DEF Places

\* The list after a connection was appended or taken out.
LEMMA ListHas ==
  ASSUME Types, Places, NEW f \in Fds
  PROVE  (f \in Range(list) <=> conn[f] # None) /\ (Connected(f) <=> conn[f] # None)
BY RangeIs DEF Types, Places, Connected

\* A step that hands nothing on.
LEMMA NothingRouted == Types /\ Places /\ got.req = NoRequest => Routed
<1> SUFFICES ASSUME Types, Places, got.req = NoRequest PROVE Routed
  OBVIOUS
<1>1. \A f \in Range(list) : conn[f] # None
  BY ListHas, RangeIs, ElementOfSeq DEF Types
<1> QED BY <1>1 DEF Routed, AnswerReachesAsker, AnswerToNobodyElse, NoRequest

LEMMA NothingIsGiven == Nothing \in Given
BY DEF Nothing, Given, ClientSets

-----------------------------------------------------------------------------
(* Steps that leave the connections and the queue alone *)

LEMMA PlacesStay ==
  ASSUME Places, UNCHANGED <<kind, list, conn, ids, ctlq>>, mpc' = "serve" \/ list = <<>>
  PROVE  Places'
BY DEF Places

LEMMA ClosedHasNone ==
  ASSUME Types, Places, mpc # "serve"
  PROVE  list = <<>>
BY DEF Places

\* What is known of a state of the invariant, and of one after a step that
\* hands nothing on.
LEMMA IInvAfter ==
  ASSUME Types', Places', clean' => Clean', got' = Nothing \/ got'.req = NoRequest
  PROVE  IInv'
<1>1. Types' /\ Places' /\ (got.req)' = NoRequest => Routed'
  <2>1. (Types /\ Places /\ got.req = NoRequest => Routed)'
    BY NothingRouted, PTL
  <2> QED BY <2>1 DEF NoRequest
<1>2. (got.req)' = NoRequest
  BY DEF Nothing
<1> QED BY <1>1, <1>2 DEF IInv

LEMMA FaultTypes ==
  ASSUME Types, Fault
  PROVE  nfault' \in 0 .. MaxFaults
BY BoundsAssumption DEF Types, Fault

\* main() and the signal: nothing that routing rests on changes.
LEMMA MainTypes ==
  ASSUME Types,
         \/ InitTimeout \/ NoServer \/ StopWhileClosed \/ Replug \/ Ended
         \/ \E when \in {"seen", "missed"} : Signal(when)
  PROVE  Types'
<1>1. CASE InitTimeout
  <2>0. tries \in Nat /\ Tries \in Nat /\ tries <= Tries /\ nfault \in 0 .. MaxFaults
    BY BoundsAssumption DEF Types
  <2>1. nfault' \in 0 .. MaxFaults /\ mpc' \in {"open", "init", "serve", "ended"}
        /\ tries' \in 0 .. Tries
    <3>1. CASE kind = "mbim"
      BY <1>1, <2>0, <3>1, FaultTypes DEF InitTimeout
    <3>2. CASE kind # "mbim"
      BY <1>1, <2>0, <3>2 DEF InitTimeout, TryAgain
    <3> QED BY <3>1, <3>2
  <2> QED BY <1>1, <2>1, NothingIsGiven DEF InitTimeout, Types, loopVars, modemVars
<1>2. CASE StopWhileClosed
  BY <1>2, NothingIsGiven DEF StopWhileClosed, Types, loopVars, modemVars
<1>3. CASE Replug
  <2>1. plugged' \in BOOLEAN
    BY <1>3, Zenon DEF Replug
  <2> QED BY <1>3, <2>1, NothingIsGiven DEF Replug, Types, loopVars, mainVars
<1>4. CASE Ended
  BY <1>4 DEF Ended, Types, vars, loopVars, modemVars, mainVars
<1>5. CASE \E when \in {"seen", "missed"} : Signal(when)
  BY <1>5, NothingIsGiven, FaultTypes DEF Signal, Types, loopVars, modemVars
<1>6. CASE NoServer
  BY <1>6, NothingIsGiven DEF NoServer, Types, loopVars, modemVars
<1> QED BY <1>1, <1>2, <1>3, <1>4, <1>5, <1>6

LEMMA MainKeeps ==
  ASSUME IInv,
         \/ InitTimeout \/ NoServer \/ StopWhileClosed \/ Replug
         \/ \E when \in {"seen", "missed"} : Signal(when)
  PROVE  IInv'
<1> USE DEF IInv
<1>1. Types'
  BY MainTypes
<1>2. /\ UNCHANGED <<kind, list, conn, ids, ctlq, pollfds, dev, granted, clean>>
      /\ got' = Nothing /\ (plugged => plugged')
  BY DEF InitTimeout, NoServer, StopWhileClosed, Replug, Signal, loopVars, modemVars, mainVars
<1>3. mpc' = "serve" \/ list = <<>>
  BY ClosedHasNone
     DEF InitTimeout, NoServer, StopWhileClosed, Replug, Signal, mainVars
<1>4. Places'
  BY <1>2, <1>3, PlacesStay
<1>5. clean' => Clean'
  BY <1>2 DEF Clean, QueueOwned, QueueServed, DevOwned, IdsOfModem, PollIsFresh
<1> QED BY <1>1, <1>2, <1>4, <1>5, IInvAfter

\* The loop starts with empty lists, and nothing is with the modem.
LEMMA OpenKeeps ==
  ASSUME IInv, Open
  PROVE  IInv'
<1> USE DEF IInv
<1>0. /\ list = <<>> /\ ctlq' = <<>> /\ dev' = <<>> /\ got' = Nothing /\ Len(<<>>) = 0
      /\ <<>> \in Seq(Sent) /\ <<>> \in Seq(Queued)
      /\ UNCHANGED <<kind, list, conn, ids, pollfds, granted, plugged, clean>>
  BY ClosedHasNone, EmptySeq DEF Open
<1>1. Types'
  <2>1. leftBehind' \in BOOLEAN
    BY Zenon DEF Open
  <2>2. tries' \in 0 .. Tries
    BY BoundsAssumption DEF Open
  <2> QED BY <1>0, <2>1, <2>2, NothingIsGiven DEF Open, Types
<1>2. Places'
  BY <1>0 DEF Places
<1>3. clean' => Clean'
  BY <1>0 DEF Clean, QueueOwned, QueueServed, DevOwned, IdsOfModem, PollIsFresh
<1> QED BY <1>0, <1>1, <1>2, <1>3, IInvAfter

\* SYNC makes the modem forget ids that no connection has.
LEMMA InitAnsweredKeeps ==
  ASSUME IInv, InitAnswered
  PROVE  IInv'
<1> USE DEF IInv
<1>0. /\ list = <<>> /\ got' = Nothing /\ mpc' = "serve"
      /\ UNCHANGED <<kind, list, conn, ids, ctlq, pollfds, dev, plugged, clean>>
  BY ClosedHasNone DEF InitAnswered, loopVars
<1>1. Types'
  <2>1. granted' \in [Ids -> Clients \cup {None}]
    BY DEF InitAnswered, Types
  <2> QED BY <1>0, <2>1, NothingIsGiven, BoundsAssumption DEF InitAnswered, Types, loopVars
<1>2. Places'
  BY <1>0, PlacesStay
<1>3. clean' => Clean'
  <2>1. IdsOfModem'
    BY <1>0, NoList DEF IdsOfModem
  <2> QED BY <1>0, <2>1 DEF Clean, QueueOwned, QueueServed, DevOwned, PollIsFresh
<1> QED BY <1>0, <1>1, <1>2, <1>3, IInvAfter

-----------------------------------------------------------------------------
(* What the modem and the loop do with a request *)

\* The client id of an answer is one the modem has, or none.
LEMMA AnswerIdOK ==
  ASSUME Types, NEW r \in Requests
  PROVE  /\ AnswerId(r) \in Ids \cup {0}
         /\ r.what = "get" /\ AnswerId(r) # 0 => granted[AnswerId(r)] = None
         /\ r.what = "release" /\ AnswerId(r) # 0 => AnswerId(r) = r.id
         /\ r.what = "data" => AnswerId(r) = 0
<1>1. r.what \in {"get", "release", "data"} /\ r.id \in Ids \cup {0}
  BY DEF Requests
<1>2. FreeIds # {} => Lowest(FreeIds) \in FreeIds
  BY LowestIsIn, BoundsAssumption DEF FreeIds
<1> QED BY <1>1, <1>2, BoundsAssumption DEF AnswerId, FreeIds

LEMMA ModemTypes ==
  ASSUME Types, NEW r \in Requests, ModemRuns(r)
  PROVE  granted' \in [Ids -> Clients \cup {None}]
<1>1. r.who \in Clients /\ r.what \in {"get", "release", "data"}
  BY DEF Requests
<1> QED BY <1>1, AnswerIdOK DEF ModemRuns, Types

LEMMA SendHeadOK ==
  ASSUME NEW q \in Seq(Queued), NEW d \in Seq(Sent)
  PROVE  /\ SendHead(q, d) \in Seq(Sent)
         /\ q = <<>> => SendHead(q, d) = d
         /\ q # <<>> /\ Connected(q[1].fd) =>
              SendHead(q, d) = Append(d, [req |-> q[1].req, tag |-> 0])
<1>1. CASE q = <<>>
  BY <1>1 DEF SendHead
<1>2. CASE q # <<>>
  <2>1. Head(q) = q[1] /\ Head(q) \in Queued
    BY <1>2, HeadTailProperties
  <2>2. [req |-> Head(q).req, tag |-> 0] \in Sent
    BY <2>1 DEF Queued, Sent
  <2>3. Append(d, [req |-> Head(q).req, tag |-> 0]) \in Seq(Sent)
    BY <2>2, AppendProperties
  <2> QED BY <1>2, <2>1, <2>3 DEF SendHead
<1> QED BY <1>1, <1>2

LEMMA ToDeviceOK ==
  ASSUME Types, NEW r \in Requests, NEW tag \in Fds \cup {0}
  PROVE  /\ ToDevice(r, tag) \in Seq(Sent)
         /\ plugged => ToDevice(r, tag) = Append(dev, [req |-> r, tag |-> tag])
<1>1. [req |-> r, tag |-> tag] \in Sent /\ dev \in Seq(Sent)
  BY DEF Sent, Types
<1> QED BY <1>1, AppendProperties DEF ToDevice

LEMMA GiveTypes ==
  ASSUME Types, Places, NEW r \in Requests \cup {NoRequest}, NEW fds,
         fds \subseteq Range(list), Give(r, fds)
  PROVE  got' \in Given /\ got'.req = r
<1>1. \A f \in fds : f \in Fds /\ conn[f] \in Clients
  <2>1. \A f \in Range(list) : f \in Fds
    BY RangeIs, ElementOfSeq DEF Types
  <2> QED BY <2>1, ListHas DEF Types
<1>2. {conn[f] : f \in fds} \in ClientSets
  BY <1>1 DEF ClientSets
<1> QED BY <1>2 DEF Give, Given

\* A request the modem holds.
LEMMA InDev ==
  ASSUME Types, NEW i \in DOMAIN dev
  PROVE  /\ i \in 1 .. Len(dev) /\ Len(dev) \in Nat /\ dev[i] \in Sent /\ dev[i].req \in Requests
         /\ RemoveAt(dev, i) \in Seq(Sent) /\ Len(RemoveAt(dev, i)) = Len(dev) - 1
         /\ \A k \in 1 .. Len(dev) - 1 :
              RemoveAt(dev, i)[k] = IF k < i THEN dev[k] ELSE dev[k + 1]
<1>1. dev \in Seq(Sent) /\ i \in 1 .. Len(dev) /\ Len(dev) \in Nat
  BY LenProperties DEF Types
<1>2. dev[i] \in Sent
  BY <1>1, ElementOfSeq
<1> QED BY <1>1, <1>2, RemoveAtFacts DEF Sent

-----------------------------------------------------------------------------
(* Steps after which the proxy is not clean *)

LEMMA TroubleKeeps ==
  ASSUME IInv,
         \/ AtcTimeout \/ Revoke \/ Unplug
         \/ \E i \in DOMAIN dev : AnswerLost(i)
  PROVE  IInv'
<1> USE DEF IInv
<1>1. /\ UNCHANGED <<kind, mpc, list, conn, ids, ctlq>>
      /\ clean' = FALSE /\ got' = Nothing
  BY DEF AtcTimeout, Revoke, Unplug, AnswerLost, mainVars, loopVars
<1>2. Types'
  <2>0. [i \in Ids |-> None] \in [Ids -> Clients \cup {None}] /\ <<>> \in Seq(Sent)
        /\ FALSE \in BOOLEAN
    BY EmptySeq
  <2>1. CASE AtcTimeout
    BY <2>1, <2>0, NothingIsGiven DEF AtcTimeout, Types, mainVars, loopVars, modemVars
  <2>2. CASE Revoke
    BY <2>2, <2>0, NothingIsGiven, FaultTypes, SendHeadOK
       DEF Revoke, Types, Turn, loopVars
  <2>3. CASE Unplug
    BY <2>3, <2>0, NothingIsGiven, FaultTypes DEF Unplug, Types, mainVars, loopVars
  <2>4. ASSUME NEW i \in DOMAIN dev, AnswerLost(i) PROVE Types'
    <3>1. leftBehind' = (leftBehind \/ IsCtl(dev[i].req))
      BY <2>4 DEF AnswerLost
    <3>2. leftBehind' \in BOOLEAN
      BY <3>1, Zenon
    <3> QED BY <2>4, <2>0, <3>2, NothingIsGiven, FaultTypes, InDev, ModemTypes
            DEF AnswerLost, Types, mainVars, loopVars
  <2> QED BY <2>1, <2>2, <2>3, <2>4
<1>3. Places'
  BY <1>1 DEF Places
<1> QED BY <1>1, <1>2, <1>3, IInvAfter

\* A request that is queued, and one that the modem holds.
LEMMA QueuedIs ==
  ASSUME Types
  PROVE  /\ Len(ctlq) \in Nat
         /\ \A i \in 1 .. Len(ctlq) : /\ ctlq[i] \in Queued /\ ctlq[i].fd \in Fds
                                      /\ ctlq[i].req \in Requests
                                      /\ ctlq[i].req.who \in Clients /\ ctlq[i].req.who # None
<1>1. ctlq \in Seq(Queued)
  BY DEF Types
<1>2. \A i \in 1 .. Len(ctlq) : ctlq[i] \in Queued
  BY <1>1, ElementOfSeq
<1>3. \A q \in Queued : /\ q.fd \in Fds /\ q.req \in Requests
                        /\ q.req.who \in Clients /\ q.req.who # None
  BY DEF Queued, Requests, Clients, None
<1> QED BY <1>1, <1>2, <1>3, LenProperties

LEMMA DevIs ==
  ASSUME Types
  PROVE  /\ Len(dev) \in Nat
         /\ \A i \in 1 .. Len(dev) : /\ dev[i] \in Sent /\ dev[i].req \in Requests
                                     /\ dev[i].req.who \in Clients /\ dev[i].req.who # None
<1>1. dev \in Seq(Sent)
  BY DEF Types
<1>2. \A i \in 1 .. Len(dev) : dev[i] \in Sent
  BY <1>1, ElementOfSeq
<1>3. \A d \in Sent : d.req \in Requests /\ d.req.who \in Clients /\ d.req.who # None
  BY DEF Sent, Requests, Clients, None
<1> QED BY <1>1, <1>2, <1>3, LenProperties

-----------------------------------------------------------------------------
(* Connections come and go *)

\* The loop ends clean only if it had no connection.
LEMMA LoopExitKeeps ==
  ASSUME IInv, LoopExit
  PROVE  IInv'
<1> USE DEF IInv
<1>0. /\ list' = <<>> /\ conn' = [f \in Fds |-> None] /\ ids' = NoIds
      /\ got' = Nothing /\ clean' = (clean /\ list = <<>>)
      /\ UNCHANGED <<kind, ctlq, pollfds, dev, granted, plugged>>
  BY DEF LoopExit, LoopEnds, modemVars
<1>1. Types'
  <2>1. clean' \in BOOLEAN
    BY <1>0, Zenon
  <2>2. list' \in Seq(Fds) /\ conn' \in [Fds -> Clients \cup {None}] /\ ids' \in [Fds -> IdSets]
    BY <1>0, EmptySeq DEF NoIds, IdSets
  <2> QED BY <1>0, <2>1, <2>2, NothingIsGiven DEF LoopExit, LoopEnds, Types, modemVars
<1>2. Places'
  <2>1. 1 .. Len(list') = {}
    BY <1>0, EmptySeq
  <2> QED BY <1>0, <2>1 DEF Places, NoIds
<1>3. clean' => Clean'
  <2>1. SUFFICES ASSUME clean, list = <<>> PROVE Clean'
    BY <1>0
  <2>2. \A f \in Fds : conn[f] = conn'[f] /\ ids[f] = ids'[f]
    BY <1>0, <2>1, NoList DEF NoIds
  <2>3. list' = list
    BY <1>0, <2>1
  <2>4. QueueOwned'
    BY <1>0, <2>1, <2>2, QueuedIs DEF Clean, QueueOwned
  <2>5. DevOwned'
    BY <1>0, <2>1, <2>2 DEF Clean, DevOwned
  <2> QED BY <1>0, <2>1, <2>2, <2>3, <2>4, <2>5
          DEF Clean, QueueServed, IdsOfModem, PollIsFresh
<1> QED BY <1>0, <1>1, <1>2, <1>3, IInvAfter

\* The loop that returns without cleanup leaves no connection in the new one.
LEMMA HalfCloseKeeps ==
  ASSUME IInv, NEW f \in Fds, HalfClose(f)
  PROVE  IInv'
<1> USE DEF IInv
<1>0. /\ list' = <<>> /\ conn' = [g \in Fds |-> None] /\ ids' = NoIds
      /\ got' = Nothing /\ clean' = FALSE /\ leaked' = TRUE
      /\ UNCHANGED <<kind, ctlq, pollfds, dev, granted, plugged>>
  BY DEF HalfClose, modemVars
<1>1. Types'
  <2>1. clean' \in BOOLEAN /\ leaked' \in BOOLEAN
    BY <1>0, Zenon
  <2>2. list' \in Seq(Fds) /\ conn' \in [Fds -> Clients \cup {None}] /\ ids' \in [Fds -> IdSets]
    BY <1>0, EmptySeq DEF NoIds, IdSets
  <2> QED BY <1>0, <2>1, <2>2, NothingIsGiven DEF HalfClose, Types, modemVars
<1>2. Places'
  <2>1. 1 .. Len(list') = {}
    BY <1>0, EmptySeq
  <2> QED BY <1>0, <2>1 DEF Places, NoIds
<1> QED BY <1>0, <1>1, <1>2, IInvAfter

\* The array of the next poll.
LEMMA NextPollOK ==
  ASSUME Types, NEW l \in Seq(Fds)
  PROVE  /\ NextPoll(l) \in [1 .. MaxFds + 1 -> Fds \cup {0}]
         /\ \A i \in 1 .. MaxFds + 1 : i > Len(l) => NextPoll(l)[i] = pollfds[i]
<1>1. Len(l) \in Nat /\ \A i \in 1 .. Len(l) : l[i] \in Fds
  BY LenProperties, ElementOfSeq
<1>2. DOMAIN pollfds = 1 .. MaxFds + 1 /\ \A i \in 1 .. MaxFds + 1 : i \in Nat /\ i >= 1
  BY FdsAssumption DEF Types
<1> QED BY <1>1, <1>2 DEF NextPoll, Types

\* A new connection gets a descriptor and a manager that nothing refers to.
LEMMA ConnectKeeps ==
  ASSUME IInv, Connect
  PROVE  IInv'
<1> USE DEF IInv
<1> DEFINE f == FirstFree
           c == Lowest(Strangers)
<1>0. f \in Fds /\ conn[f] = None /\ f \in FreeFds
  <2>1. FreeFds # {} /\ FreeFds \subseteq Nat
    BY DEF Connect, FreeFds, Fds
  <2>2. f \in FreeFds
    BY <2>1, LowestIsIn DEF FirstFree
  <2> QED BY <2>2 DEF FreeFds
<1>1. c \in Clients /\ c # None /\ \A g \in Fds : conn[g] # c
  <2>1. Strangers \subseteq Clients /\ Clients \subseteq Nat /\ Strangers # {} /\ None \notin Clients
    BY DEF Connect, Strangers, Clients, None
  <2>2. c \in Strangers
    BY <2>1, LowestIsIn
  <2>3. \A g \in Fds : conn[g] # c
    BY <2>2 DEF Strangers
  <2> QED BY <2>1, <2>2, <2>3
<1>2. /\ list' = Append(list, f) /\ conn' = [conn EXCEPT ![f] = c]
      /\ pollfds' = NextPoll(list') /\ got' = Nothing /\ mpc = "serve" /\ mpc' = mpc
      /\ UNCHANGED <<kind, ids, ctlq, dev, granted, plugged, clean>>
  BY DEF Connect, Looping, modemVars
<1> HIDE DEF f, c
<1>3. /\ list \in Seq(Fds) /\ list' \in Seq(Fds) /\ Len(list) \in Nat
      /\ Len(list') = Len(list) + 1 /\ list'[Len(list) + 1] = f
      /\ \A i \in 1 .. Len(list) : list'[i] = list[i]
  BY <1>0, <1>2, AppendProperties, LenProperties DEF Types
<1>4. /\ conn' \in [Fds -> Clients \cup {None}] /\ conn'[f] = c
      /\ \A g \in Fds : g # f => conn'[g] = conn[g]
  BY <1>0, <1>1, <1>2 DEF Types
<1>5. Types'
  <2>1. pollfds' \in [1 .. MaxFds + 1 -> Fds \cup {0}]
    BY <1>2, <1>3, NextPollOK
  <2> QED BY <1>2, <1>3, <1>4, <2>1, NothingIsGiven DEF Connect, Types, Turn, modemVars
<1>6. ids[f] = {}
  BY <1>0 DEF Places
<1>7. Places'
  <2>1. \A g \in Fds : conn'[g] # None <=> \E i \in 1 .. Len(list') : list'[i] = g
    <3> TAKE g \in Fds
    <3>1. CASE g = f
      BY <3>1, <1>1, <1>3, <1>4
    <3>2. CASE g # f
      <4>1. (\E i \in 1 .. Len(list') : list'[i] = g) <=> \E i \in 1 .. Len(list) : list[i] = g
        BY <1>3, <3>2
      <4> QED BY <4>1, <3>2, <1>4 DEF Places
    <3> QED BY <3>1, <3>2
  <2>2. \A i, j \in 1 .. Len(list') : list'[i] = list'[j] => i = j
    <3>1. \A i \in 1 .. Len(list) : list[i] # f
      BY <1>0 DEF Places
    <3> QED BY <3>1, <1>3 DEF Places
  <2> QED BY <2>1, <2>2, <1>0, <1>1, <1>2, <1>4, <1>6 DEF Places
<1>8. clean' => Clean'
  <2>1. SUFFICES ASSUME clean, Clean PROVE Clean'
    BY <1>2
  <2>2. QueueOwned'
    <3>1. \A i \in 1 .. Len(ctlq) : ctlq[i].fd # f
      BY <2>1, QueuedIs, <1>0 DEF Clean, QueueOwned
    <3> QED BY <2>1, QueuedIs, <3>1, <1>2, <1>4 DEF Clean, QueueOwned
  <2>3. DevOwned'
    <3>1. \A i \in 1 .. Len(dev) : \A g \in Fds : conn[g] = dev[i].req.who => conn'[g] = conn[g]
      BY DevIs, <1>0, <1>4
    <3> QED BY <2>1, <3>1, <1>2, <1>4 DEF Clean, DevOwned
  <2>4. IdsOfModem'
    BY <2>1, <1>2, <1>4, <1>6 DEF Clean, IdsOfModem
  <2>5. PollIsFresh'
    <3> SUFFICES ASSUME kind = "atc", NEW i \in 1 .. MaxFds + 1, i > Len(list'), i > 1
                 PROVE  pollfds'[i] = 0
      BY <1>2 DEF PollIsFresh
    <3>0. i \in Nat /\ i > Len(list)
      BY <1>3, FdsAssumption
    <3>1. pollfds'[i] = pollfds[i]
      <4>1. \A k \in 1 .. MaxFds + 1 : k > Len(list') => NextPoll(list')[k] = pollfds[k]
        BY <1>3, NextPollOK
      <4> QED BY <4>1, <1>2
    <3> QED BY <2>1, <3>0, <3>1 DEF Clean, PollIsFresh
  <2> QED BY <2>1, <2>2, <2>3, <2>4, <2>5, <1>2 DEF Clean, QueueServed
<1> QED BY <1>2, <1>5, <1>7, <1>8, IInvAfter

\* The queue without the first request of a connection; it stays as it is if
\* there is none.
LEMMA ForgetCtlOK ==
  ASSUME Types, NEW f \in Fds
  PROVE  /\ ForgetCtl(ctlq, f) \in Seq(Queued)
         /\ (\A i \in 1 .. Len(ctlq) : ctlq[i].fd # f) => ForgetCtl(ctlq, f) = ctlq
         /\ ctlq = <<>> => ForgetCtl(ctlq, f) = <<>>
<1>1. ctlq \in Seq(Queued) /\ DOMAIN ctlq = 1 .. Len(ctlq) /\ Len(ctlq) \in Nat
  BY LenProperties DEF Types
<1>2. CASE QueuedOf(ctlq, f) = {}
  BY <1>1, <1>2 DEF ForgetCtl
<1>3. CASE QueuedOf(ctlq, f) # {}
  <2>1. QueuedOf(ctlq, f) \subseteq 1 .. Len(ctlq)
    BY <1>1 DEF QueuedOf
  <2>2. Lowest(QueuedOf(ctlq, f)) \in QueuedOf(ctlq, f)
    BY <1>1, <1>3, <2>1, LowestIsIn
  <2>3. ctlq # <<>> /\ \E i \in 1 .. Len(ctlq) : ctlq[i].fd = f
    BY <1>1, <1>3, EmptySeq DEF QueuedOf
  <2> QED BY <1>1, <1>3, <2>1, <2>2, <2>3, RemoveAtFacts DEF ForgetCtl
<1> QED BY <1>2, <1>3

\* A manager that leaves clean has nothing queued and nothing with the modem;
\* on the AT proxy it was alone.
LEMMA LeaveKeeps ==
  ASSUME IInv, NEW f \in Fds, Leave(f)
  PROVE  IInv'
<1> USE DEF IInv
<1>0. /\ conn[f] # None /\ conn' = [conn EXCEPT ![f] = None] /\ ids' = [ids EXCEPT ![f] = {}]
      /\ ctlq' = ForgetCtl(ctlq, f) /\ pollfds' = NextPoll(list') /\ got' = Nothing
      /\ clean' = (clean /\ ~UnderWay(conn[f]) /\ ~(kind = "atc" /\ Len(list) > 1))
      /\ mpc = "serve" /\ mpc' = mpc
      /\ UNCHANGED <<kind, dev, granted, plugged>>
  BY DEF Leave, Looping, modemVars
<1>1. list \in Seq(Fds) /\ DOMAIN list = 1 .. Len(list) /\ Len(list) \in Nat
  BY LenProperties DEF Types
<1>2. PICK p \in 1 .. Len(list) : list[p] = f /\ list' = RemoveAt(list, p)
  BY <1>1 DEF Leave
<1>3. /\ list' \in Seq(Fds) /\ Len(list') = Len(list) - 1
      /\ \A k \in 1 .. Len(list) - 1 : list'[k] = IF k < p THEN list[k] ELSE list[k + 1]
  BY <1>1, <1>2, RemoveAtFacts
<1>4. /\ conn' \in [Fds -> Clients \cup {None}] /\ conn'[f] = None
      /\ ids' \in [Fds -> IdSets] /\ ids'[f] = {}
      /\ \A g \in Fds : g # f => conn'[g] = conn[g] /\ ids'[g] = ids[g]
  BY <1>0 DEF Types, IdSets
<1>5. Types'
  <2>1. pollfds' \in [1 .. MaxFds + 1 -> Fds \cup {0}] /\ ctlq' \in Seq(Queued)
    BY <1>0, <1>3, NextPollOK, ForgetCtlOK
  <2>2. clean' \in BOOLEAN
    BY <1>0, Zenon
  <2>3. leftBehind' \in BOOLEAN
    BY Zenon DEF Leave
  <2> QED BY <1>0, <1>3, <1>4, <2>1, <2>2, <2>3, NothingIsGiven
          DEF Leave, Types, Turn, modemVars
<1>6. Places'
  <2>1. \A g \in Fds : conn'[g] # None <=> \E i \in 1 .. Len(list') : list'[i] = g
    <3> TAKE g \in Fds
    <3>1. CASE g = f
      <4>1. \A k \in 1 .. Len(list) - 1 : list'[k] # f
        BY <1>1, <1>2, <1>3 DEF Places
      <4> QED BY <1>3, <1>4, <3>1, <4>1
    <3>2. CASE g # f
      <4>1. ASSUME NEW i \in 1 .. Len(list), list[i] = g
            PROVE  \E k \in 1 .. Len(list') : list'[k] = g
        <5>1. CASE i < p
          BY <1>1, <1>3, <4>1, <5>1
        <5>2. CASE i > p
          <6>1. i - 1 \in 1 .. Len(list') /\ ~(i - 1 < p) /\ (i - 1) + 1 = i
            BY <1>1, <1>3, <5>2
          <6> QED BY <1>3, <4>1, <6>1
        <5> QED BY <1>1, <1>2, <4>1, <3>2, <5>1, <5>2
      <4>2. ASSUME NEW k \in 1 .. Len(list'), list'[k] = g
            PROVE  \E i \in 1 .. Len(list) : list[i] = g
        BY <1>1, <1>3, <4>2
      <4> QED BY <1>4, <3>2, <4>1, <4>2 DEF Places
    <3> QED BY <3>1, <3>2
  <2>2. \A i, j \in 1 .. Len(list') : list'[i] = list'[j] => i = j
    BY <1>1, <1>2, <1>3 DEF Places
  <2>3. kind' # "qmi" => ctlq' = <<>>
    BY <1>0, ForgetCtlOK DEF Places
  <2> QED BY <1>0, <1>4, <2>1, <2>2, <2>3 DEF Places
<1>7. clean' => Clean'
  <2>1. SUFFICES ASSUME clean, Clean, ~UnderWay(conn[f]), ~(kind = "atc" /\ Len(list) > 1)
                 PROVE  Clean'
    BY <1>0
  <2>2. /\ \A i \in 1 .. Len(ctlq) : ctlq[i].req.who # conn[f] /\ ctlq[i].fd # f
        /\ \A i \in 1 .. Len(dev) : dev[i].req.who # conn[f]
    <3>1. DOMAIN ctlq = 1 .. Len(ctlq) /\ DOMAIN dev = 1 .. Len(dev)
      BY LenProperties DEF Types
    <3> QED BY <2>1, <3>1 DEF UnderWay, Clean, QueueOwned
  <2>3. ctlq' = ctlq
    BY <1>0, <2>2, ForgetCtlOK
  <2>4. QueueOwned'
    BY <2>1, <2>2, <2>3, <1>4, QueuedIs DEF Clean, QueueOwned
  <2>5. DevOwned'
    BY <2>1, <2>2, <1>0, <1>4 DEF Clean, DevOwned
  <2>6. IdsOfModem'
    BY <2>1, <1>0, <1>4 DEF Clean, IdsOfModem
  <2>7. PollIsFresh'
    <3> SUFFICES ASSUME kind = "atc", NEW i \in 1 .. MaxFds + 1, i > Len(list'), i > 1
                 PROVE  pollfds'[i] = 0
      BY <1>0 DEF PollIsFresh
    <3>0. i \in Nat /\ i > Len(list)
      BY <1>1, <1>3, <2>1, FdsAssumption
    <3>1. pollfds'[i] = pollfds[i]
      <4>1. \A k \in 1 .. MaxFds + 1 : k > Len(list') => NextPoll(list')[k] = pollfds[k]
        BY <1>3, NextPollOK
      <4> QED BY <4>1, <1>0
    <3> QED BY <2>1, <3>0, <3>1 DEF Clean, PollIsFresh
  <2>8. QueueServed'
    BY <2>1, <2>3, <1>0 DEF Clean, QueueServed
  <2> QED BY <2>1, <2>4, <2>5, <2>6, <2>7, <2>8, <1>0 DEF Clean
<1> QED BY <1>0, <1>5, <1>6, <1>7, IInvAfter

-----------------------------------------------------------------------------
(* Requests *)

\* The request of a manager.
LEMMA AskFacts ==
  ASSUME IInv, NEW f \in Fds, NEW what \in Wants, NEW id \in Ids \cup {0}, Ask(f, what, id)
  PROVE  LET r == [who |-> conn[f], what |-> what, id |-> id] IN
         /\ r \in Requests /\ conn[f] # None
         /\ QmiFromClient(f, r) \/ MbimFromClient(f, r) \/ AtcFromClient(f, r)
         /\ kind = "qmi" /\ what # "get" => id \in ids[f] \ Releasing
         /\ kind # "qmi" => what = "data"
         /\ what \in {"get", "release", "data"}
         /\ mpc = "serve" /\ mpc' = mpc /\ got' = Nothing /\ nask' \in 0 .. MaxAsks
         /\ UNCHANGED <<kind, list, conn, ids, pollfds, granted, plugged, clean>>
<1>1. conn[f] \in Clients /\ what \in {"get", "release", "data"}
  BY DEF Ask, IInv, Types, Wants
<1>2. nask' \in 0 .. MaxAsks
  BY BoundsAssumption DEF Ask, IInv, Types
<1> QED BY <1>1, <1>2 DEF Ask, Requests, Looping, Wants

LEMMA AskTypes ==
  ASSUME IInv, NEW f \in Fds, NEW what \in Wants, NEW id \in Ids \cup {0}, Ask(f, what, id)
  PROVE  Types'
<1> DEFINE r == [who |-> conn[f], what |-> what, id |-> id]
<1>0. /\ r \in Requests
      /\ QmiFromClient(f, r) \/ MbimFromClient(f, r) \/ AtcFromClient(f, r)
      /\ got' = Nothing /\ nask' \in 0 .. MaxAsks
  BY AskFacts
<1> HIDE DEF r
<1>1. Types
  BY DEF IInv
<1>2. ctlq' \in Seq(Queued)
  <2>1. [fd |-> f, req |-> r] \in Queued /\ ctlq \in Seq(Queued)
    BY <1>0, <1>1 DEF Queued, Types
  <2>2. Append(ctlq, [fd |-> f, req |-> r]) \in Seq(Queued)
    BY <2>1, AppendProperties
  <2> QED BY <1>0, <2>1, <2>2 DEF QmiFromClient, MbimFromClient, AtcFromClient
<1>3. dev' \in Seq(Sent)
  <2>1. ToDevice(r, 0) \in Seq(Sent) /\ ToDevice(r, f) \in Seq(Sent) /\ dev \in Seq(Sent)
    <3>1. dev \in Seq(Sent)
      BY <1>1 DEF Types
    <3> QED BY <1>0, <1>1, <3>1, ToDeviceOK
  <2> QED BY <1>0, <2>1 DEF QmiFromClient, MbimFromClient, AtcFromClient
<1>4. busy' \in BOOLEAN
  BY <1>0, <1>1 DEF QmiFromClient, MbimFromClient, AtcFromClient, Types
<1> QED BY <1>0, <1>1, <1>2, <1>3, <1>4, NothingIsGiven DEF Ask, Turn, Types

\* A request that is queued behind others, or finds the queue empty and goes to
\* the modem at once.
LEMMA QmiAskClean ==
  ASSUME IInv, Clean, kind = "qmi",
         NEW f \in Fds, NEW r \in Requests, QmiFromClient(f, r),
         conn[f] = r.who, r.what \in {"get", "release", "data"},
         r.what # "get" => r.id \in ids[f] \ Releasing,
         UNCHANGED <<kind, list, conn, ids, pollfds, granted, plugged>>
  PROVE  Clean'
<1> DEFINE q == [fd |-> f, req |-> r]
           d == [req |-> r, tag |-> 0]
<1>0. /\ Types /\ plugged /\ ctlq \in Seq(Queued) /\ Len(ctlq) \in Nat
      /\ dev \in Seq(Sent) /\ Len(dev) \in Nat /\ q \in Queued /\ d \in Sent
      /\ DOMAIN ctlq = 1 .. Len(ctlq)
  BY LenProperties DEF IInv, Types, Clean, Queued, Sent
<1>1. /\ Append(dev, d) \in Seq(Sent) /\ Len(Append(dev, d)) = Len(dev) + 1
      /\ Append(dev, d)[Len(dev) + 1] = d
      /\ \A i \in 1 .. Len(dev) : Append(dev, d)[i] = dev[i]
  BY <1>0, AppendProperties
<1>2. /\ Append(ctlq, q) \in Seq(Queued) /\ Len(Append(ctlq, q)) = Len(ctlq) + 1
      /\ Append(ctlq, q)[Len(ctlq) + 1] = q /\ Append(ctlq, q) # <<>>
      /\ \A i \in 1 .. Len(ctlq) : Append(ctlq, q)[i] = ctlq[i]
  BY <1>0, AppendProperties
<1>3. d.req = r /\ q.req = r /\ q.fd = f
  OBVIOUS
<1>4. ctlq = <<>> <=> Len(ctlq) = 0
  BY <1>0, EmptySeq
<1>5. ToDevice(r, 0) = Append(dev, d)
  BY <1>0, ToDeviceOK
<1> HIDE DEF q, d
<1>6. r.what # "get" => \A i \in 1 .. Len(ctlq) : ctlq[i].req.id # r.id
  BY <1>0 DEF Releasing
<1>7. CASE ~IsCtl(r)
  <2>1. r.what = "data" /\ dev' = Append(dev, d) /\ ctlq' = ctlq
    BY <1>5, <1>7 DEF QmiFromClient, IsCtl, q, d
  <2>2. QueueServed'
    <3>1. \A i \in 1 .. Len(dev') : IsCtl(dev'[i].req) => i \in 1 .. Len(dev)
      BY <1>0, <1>1, <1>3, <1>7, <2>1
    <3>2. \A i \in 1 .. Len(dev) : dev'[i] = dev[i] /\ i \in 1 .. Len(dev')
      BY <1>0, <1>1, <2>1
    <3> QED BY <2>1, <3>1, <3>2 DEF Clean, QueueServed
  <2>3. DevOwned'
    <3> SUFFICES ASSUME NEW i \in 1 .. Len(dev')
                 PROVE  /\ ~IsCtl(dev'[i].req) =>
                             \E g \in Fds : conn[g] = dev'[i].req.who /\ dev'[i].req.id \in ids[g]
                        /\ IsRelease(dev'[i].req) =>
                             \A j \in 1 .. Len(dev') : j > i => dev'[j].req.id # dev'[i].req.id
      BY DEF DevOwned
    <3>1. CASE i \in 1 .. Len(dev)
      <4>1. dev'[i] = dev[i]
        BY <1>1, <2>1, <3>1
      <4>2. ASSUME IsRelease(dev[i].req), NEW j \in 1 .. Len(dev'), j > i
            PROVE  dev'[j].req.id # dev[i].req.id
        <5>1. CASE j \in 1 .. Len(dev)
          BY <1>1, <2>1, <3>1, <4>2, <5>1 DEF Clean, DevOwned
        <5>2. CASE j = Len(dev) + 1
          <6>1. dev[i].req = ctlq[1].req /\ 1 \in 1 .. Len(ctlq)
            BY <1>0, <1>4, <3>1, <4>2 DEF Clean, QueueServed, IsCtl, IsRelease
          <6> QED BY <1>1, <1>3, <1>6, <2>1, <5>2, <6>1
        <5> QED BY <1>0, <1>1, <2>1, <5>1, <5>2
      <4> QED BY <3>1, <4>1, <4>2 DEF Clean, DevOwned
    <3>2. CASE i = Len(dev) + 1
      BY <1>0, <1>1, <1>3, <2>1, <3>2 DEF IsRelease
    <3> QED BY <1>0, <1>1, <2>1, <3>1, <3>2
  <2> QED BY <1>7, <2>1, <2>2, <2>3 DEF Clean, QueueOwned, IdsOfModem, PollIsFresh
<1>8. CASE IsCtl(r)
  <2>1. /\ ctlq' = Append(ctlq, q)
        /\ dev' = IF ctlq = <<>> THEN Append(dev, d) ELSE dev
    BY <1>5, <1>8 DEF QmiFromClient, q, d
  <2>2. QueueOwned'
    <3>1. ASSUME NEW i \in 1 .. Len(ctlq')
          PROVE  /\ IsCtl(ctlq'[i].req) /\ conn[ctlq'[i].fd] = ctlq'[i].req.who
                 /\ IsRelease(ctlq'[i].req) => ctlq'[i].req.id \in ids[ctlq'[i].fd]
      <4>1. CASE i \in 1 .. Len(ctlq)
        BY <1>2, <2>1, <4>1 DEF Clean, QueueOwned
      <4>2. CASE i = Len(ctlq) + 1
        BY <1>2, <1>3, <1>8, <2>1, <4>2 DEF IsRelease
      <4> QED BY <1>0, <1>2, <2>1, <4>1, <4>2
    <3>2. ASSUME NEW i \in 1 .. Len(ctlq'), NEW j \in 1 .. Len(ctlq'),
                 IsRelease(ctlq'[i].req), IsRelease(ctlq'[j].req),
                 ctlq'[i].req.id = ctlq'[j].req.id
          PROVE  i = j
      <4>1. CASE i \in 1 .. Len(ctlq) /\ j \in 1 .. Len(ctlq)
        BY <1>2, <2>1, <3>2, <4>1 DEF Clean, QueueOwned
      <4>2. CASE i \in 1 .. Len(ctlq) /\ j = Len(ctlq) + 1
        BY <1>2, <1>3, <1>6, <2>1, <3>2, <4>2 DEF IsRelease
      <4>3. CASE j \in 1 .. Len(ctlq) /\ i = Len(ctlq) + 1
        BY <1>2, <1>3, <1>6, <2>1, <3>2, <4>3 DEF IsRelease
      <4> QED BY <1>0, <1>2, <2>1, <4>1, <4>2, <4>3
    <3> QED BY <3>1, <3>2 DEF QueueOwned
  <2>3. CASE ctlq = <<>>
    <3>1. dev' = Append(dev, d) /\ ctlq'[1].req = r /\ ctlq' # <<>>
      BY <1>2, <1>3, <1>4, <2>1, <2>3
    <3>2. \A i \in 1 .. Len(dev) : ~IsCtl(dev[i].req)
      BY <2>3 DEF Clean, QueueServed
    <3>3. \A i \in 1 .. Len(dev') : i \in 1 .. Len(dev) \/ i = Len(dev) + 1
      BY <1>0, <1>1, <3>1
    <3>4. Len(dev) + 1 \in 1 .. Len(dev')
      BY <1>0, <1>1, <3>1
    <3>5. QueueServed'
      BY <1>1, <1>3, <3>1, <3>2, <3>3, <3>4 DEF QueueServed
    <3>6. DevOwned'
      <4>1. \A i \in 1 .. Len(dev) : ~IsRelease(dev'[i].req) /\ dev'[i] = dev[i]
        BY <1>1, <3>1, <3>2 DEF IsRelease, IsCtl
      <4>2. \A i \in 1 .. Len(dev') : IsRelease(dev'[i].req) => ~\E j \in 1 .. Len(dev') : j > i
        BY <1>0, <1>1, <3>1, <3>3, <4>1
      <4> QED BY <1>1, <1>3, <1>8, <3>1, <3>3, <4>1, <4>2 DEF Clean, DevOwned
    <3> QED BY <2>2, <3>5, <3>6 DEF Clean, IdsOfModem, PollIsFresh
  <2>4. CASE ctlq # <<>>
    <3>1. dev' = dev /\ ctlq'[1] = ctlq[1] /\ ctlq' # <<>>
      BY <1>0, <1>2, <1>4, <2>1, <2>4
    <3> QED BY <2>2, <2>4, <3>1 DEF Clean, QueueServed, DevOwned, IdsOfModem, PollIsFresh
  <2> QED BY <2>3, <2>4
<1> QED BY <1>7, <1>8

\* The slot of the connection travels with an MBIM request; an AT command needs
\* no owner, its answer goes to all.
LEMMA OtherAskClean ==
  ASSUME IInv, Clean, NEW f \in Fds, NEW r \in Requests,
         MbimFromClient(f, r) \/ AtcFromClient(f, r), conn[f] = r.who,
         UNCHANGED <<kind, list, conn, ids, pollfds, granted, plugged>>
  PROVE  Clean'
<1> DEFINE tag == IF kind = "mbim" THEN f ELSE 0
           d == [req |-> r, tag |-> tag]
<1>0. /\ Types /\ plugged /\ ctlq = <<>> /\ ctlq' = <<>> /\ kind \in {"mbim", "atc"}
      /\ dev \in Seq(Sent) /\ Len(dev) \in Nat /\ tag \in Fds \cup {0} /\ d \in Sent
      /\ Len(<<>>) = 0
  BY LenProperties, EmptySeq
     DEF IInv, Types, Places, Clean, Sent, MbimFromClient, AtcFromClient
<1>1. dev' = Append(dev, d)
  BY <1>0, ToDeviceOK DEF MbimFromClient, AtcFromClient
<1>2. d.req = r /\ (kind = "mbim" => d.tag = f)
  OBVIOUS
<1> HIDE DEF d, tag
<1>3. /\ Len(dev') = Len(dev) + 1 /\ dev'[Len(dev) + 1] = d
      /\ \A i \in 1 .. Len(dev) : dev'[i] = dev[i]
  BY <1>0, <1>1, AppendProperties
<1>4. \A i \in 1 .. Len(dev') : i \in 1 .. Len(dev) \/ i = Len(dev) + 1
  BY <1>0, <1>3
<1>5. DevOwned'
  BY <1>0, <1>2, <1>3, <1>4 DEF Clean, DevOwned
<1>6. QueueServed' /\ QueueOwned'
  BY <1>0 DEF QueueServed, QueueOwned
<1> QED BY <1>5, <1>6 DEF Clean, IdsOfModem, PollIsFresh

LEMMA AskKeeps ==
  ASSUME IInv, NEW f \in Fds, NEW what \in Wants, NEW id \in Ids \cup {0}, Ask(f, what, id)
  PROVE  IInv'
<1> DEFINE r == [who |-> conn[f], what |-> what, id |-> id]
<1>0. /\ r \in Requests
      /\ QmiFromClient(f, r) \/ MbimFromClient(f, r) \/ AtcFromClient(f, r)
      /\ kind = "qmi" /\ what # "get" => id \in ids[f] \ Releasing
      /\ what \in {"get", "release", "data"}
      /\ mpc = "serve" /\ mpc' = mpc /\ got' = Nothing
      /\ UNCHANGED <<kind, list, conn, ids, pollfds, granted, plugged, clean>>
  BY AskFacts
<1>1. r.who = conn[f] /\ r.what = what /\ r.id = id
  OBVIOUS
<1> HIDE DEF r
<1>2. Types'
  BY AskTypes
<1>3. Places'
  <2>1. kind # "qmi" => ctlq' = ctlq
    BY <1>0 DEF QmiFromClient, MbimFromClient, AtcFromClient
  <2> QED BY <1>0, <2>1 DEF IInv, Places
<1>4. clean' => Clean'
  <2>1. SUFFICES ASSUME clean, Clean PROVE Clean'
    BY <1>0 DEF IInv
  <2>2. CASE QmiFromClient(f, r)
    <3>1. kind = "qmi"
      BY <2>2 DEF QmiFromClient
    <3> QED BY <1>0, <1>1, <2>1, <2>2, <3>1, QmiAskClean
  <2>3. CASE MbimFromClient(f, r) \/ AtcFromClient(f, r)
    BY <1>0, <1>1, <2>1, <2>3, OtherAskClean
  <2> QED BY <1>0, <2>2, <2>3
<1> QED BY <1>0, <1>2, <1>3, <1>4, IInvAfter

-----------------------------------------------------------------------------
(* Answers *)

LEMMA ReceiversListed ==
  ASSUME Types
  PROVE  AtcReceivers \subseteq Range(list)
BY DEF AtcReceivers, Connected

\* An indication answers nobody; the head of the queue is sent again only by a
\* proxy that is not clean then.
LEMMA IndicationKeeps ==
  ASSUME IInv, NEW ctl \in BOOLEAN, Indication(ctl)
  PROVE  IInv'
<1> USE DEF IInv
<1>0. /\ clean' = (clean /\ (ctl => ctlq = <<>>)) /\ mpc = "serve" /\ mpc' = mpc
      /\ dev' = IF ctl THEN SendHead(ctlq, dev) ELSE dev
      /\ UNCHANGED <<kind, list, conn, ids, ctlq, pollfds, busy, nask, granted, plugged, tries>>
  BY DEF Indication, loopVars
<1>1. got' \in Given /\ got'.req = NoRequest
  <2>1. PICK fds : fds \subseteq Range(list) /\ Give(NoRequest, fds)
    <3> DEFINE S == CASE ctl -> {}
                      [] kind = "qmi" /\ ~ctl -> {f \in Range(list) : ids[f] # {}}
                      [] kind = "mbim" -> Range(list)
                      [] kind = "atc" -> AtcReceivers
    <3>1. Give(NoRequest, S) /\ (ctl => kind = "qmi") /\ kind \in {"qmi", "mbim", "atc"}
      BY KindsAssumption DEF Indication, Types
    <3>2. S \subseteq Range(list)
      BY <3>1, ReceiversListed
    <3> QED BY <3>1, <3>2
  <2> QED BY <2>1, GiveTypes
<1>2. Types'
  <2>1. dev \in Seq(Sent) /\ ctlq \in Seq(Queued)
    BY DEF Types
  <2>2. dev' \in Seq(Sent)
    BY <1>0, <2>1, SendHeadOK
  <2>3. clean' \in BOOLEAN
    BY <1>0, Zenon
  <2>4. nfault' \in 0 .. MaxFaults
    BY FaultTypes DEF Indication
  <2> QED BY <1>0, <1>1, <2>2, <2>3, <2>4 DEF Indication, Turn, Types
<1>3. Places'
  BY <1>0, PlacesStay
<1>4. clean' => Clean'
  <2>1. SUFFICES ASSUME clean, Clean, ctl => ctlq = <<>> PROVE Clean'
    BY <1>0
  <2>2. dev' = dev
    BY <1>0, <2>1, SendHeadOK DEF Types
  <2> QED BY <1>0, <2>1, <2>2
          DEF Clean, QueueOwned, QueueServed, DevOwned, IdsOfModem, PollIsFresh
<1> QED BY <1>1, <1>2, <1>3, <1>4, IInvAfter

\* Where the k-th of the other requests was before request i was taken out.
Origin(k, i) == IF k < i THEN k ELSE k + 1

LEMMA OthersInDev ==
  ASSUME Types, NEW i \in DOMAIN dev
  PROVE  LET rest == RemoveAt(dev, i) IN
         /\ rest \in Seq(Sent) /\ Len(rest) \in Nat
         /\ \A k \in 1 .. Len(rest) : /\ Origin(k, i) \in 1 .. Len(dev) /\ Origin(k, i) # i
                                      /\ rest[k] = dev[Origin(k, i)]
         /\ \A k, l \in 1 .. Len(rest) : k < l <=> Origin(k, i) < Origin(l, i)
         /\ \A m \in 1 .. Len(dev) : m # i => \E k \in 1 .. Len(rest) : Origin(k, i) = m
<1> DEFINE rest == RemoveAt(dev, i)
<1>1. /\ i \in 1 .. Len(dev) /\ Len(dev) \in Nat /\ rest \in Seq(Sent)
      /\ Len(rest) = Len(dev) - 1
      /\ \A k \in 1 .. Len(dev) - 1 : rest[k] = IF k < i THEN dev[k] ELSE dev[k + 1]
  BY InDev
<1> HIDE DEF rest
<1>2. ASSUME NEW m \in 1 .. Len(dev), m # i
      PROVE  \E k \in 1 .. Len(rest) : Origin(k, i) = m
  <2>1. CASE m < i
    BY <1>1, <2>1 DEF Origin
  <2>2. CASE m > i
    <3>1. m - 1 \in 1 .. Len(rest) /\ Origin(m - 1, i) = m
      BY <1>1, <2>2 DEF Origin
    <3> QED BY <3>1
  <2> QED BY <1>1, <1>2, <2>1, <2>2
<1>3. \A k, l \in 1 .. Len(rest) : k < l <=> Origin(k, i) < Origin(l, i)
  BY <1>1 DEF Origin
<1>4. \A k \in 1 .. Len(rest) : /\ Origin(k, i) \in 1 .. Len(dev) /\ Origin(k, i) # i
                                /\ rest[k] = dev[Origin(k, i)]
  BY <1>1 DEF Origin
<1>5. Len(rest) \in Nat
  BY <1>1
<1>6. \A m \in 1 .. Len(dev) : m # i => \E k \in 1 .. Len(rest) : Origin(k, i) = m
  BY <1>2
<1> QED BY <1>1, <1>3, <1>4, <1>5, <1>6, Zenon DEF rest

\* What the other requests are routed by does not depend on the one that is
\* answered.
LEMMA OthersOwned ==
  ASSUME IInv, Clean, NEW i \in DOMAIN dev, dev' = RemoveAt(dev, i),
         ~(kind = "qmi" /\ IsCtl(dev[i].req)),
         UNCHANGED <<kind, conn, ids, ctlq>>
  PROVE  QueueServed' /\ DevOwned'
<1> USE DEF Clean, IInv
<1>1. /\ Len(dev') \in Nat
      /\ \A k \in 1 .. Len(dev') : /\ Origin(k, i) \in 1 .. Len(dev) /\ Origin(k, i) # i
                                   /\ dev'[k] = dev[Origin(k, i)]
      /\ \A k, l \in 1 .. Len(dev') : k < l <=> Origin(k, i) < Origin(l, i)
      /\ \A m \in 1 .. Len(dev) : m # i => \E k \in 1 .. Len(dev') : Origin(k, i) = m
  BY OthersInDev
<1>2. DevOwned'
  <2> SUFFICES ASSUME NEW k \in 1 .. Len(dev')
               PROVE  /\ kind = "mbim" => dev'[k].tag \in Fds /\ conn[dev'[k].tag] = dev'[k].req.who
                      /\ kind = "qmi" /\ ~IsCtl(dev'[k].req) =>
                           \E f \in Fds : conn[f] = dev'[k].req.who /\ dev'[k].req.id \in ids[f]
                      /\ kind = "qmi" /\ IsRelease(dev'[k].req) =>
                           \A j \in 1 .. Len(dev') : j > k => dev'[j].req.id # dev'[k].req.id
    BY DEF DevOwned
  <2>1. PICK m \in 1 .. Len(dev) : m = Origin(k, i) /\ dev'[k] = dev[m]
    BY <1>1
  <2>2. ASSUME kind = "qmi", IsRelease(dev[m].req), NEW j \in 1 .. Len(dev'), j > k
        PROVE  dev'[j].req.id # dev[m].req.id
    <3>1. PICK n \in 1 .. Len(dev) : n = Origin(j, i) /\ dev'[j] = dev[n]
      BY <1>1
    <3>2. n > m
      BY <1>1, <2>1, <2>2, <3>1 DEF Origin
    <3> QED BY <2>2, <3>1, <3>2 DEF DevOwned
  <2> QED BY <2>1, <2>2 DEF DevOwned
<1>3. QueueServed'
  <2>1. ASSUME NEW k \in 1 .. Len(dev'), NEW l \in 1 .. Len(dev'),
               kind = "qmi", IsCtl(dev'[k].req), IsCtl(dev'[l].req)
        PROVE  k = l
    <3>1. Origin(k, i) = Origin(l, i)
      BY <1>1, <2>1 DEF QueueServed
    <3> QED BY <1>1, <3>1 DEF Origin
  <2>2. ASSUME ctlq # <<>>
        PROVE  \E k \in 1 .. Len(dev') : dev'[k].req = ctlq[1].req
    <3>1. PICK m \in 1 .. Len(dev) : dev[m].req = ctlq[1].req
      BY <2>2 DEF QueueServed
    <3>2. kind = "qmi" /\ IsCtl(ctlq[1].req)
      <4>1. 1 \in 1 .. Len(ctlq)
        BY <2>2, EmptySeq, QueuedIs DEF Types
      <4> QED BY <2>2, <4>1 DEF Places, QueueOwned
    <3>3. m # i
      BY <3>1, <3>2
    <3> QED BY <1>1, <3>1, <3>3
  <2>3. \A k \in 1 .. Len(dev') :
          kind = "qmi" /\ IsCtl(dev'[k].req) => ctlq # <<>> /\ dev'[k].req = ctlq[1].req
    BY <1>1 DEF QueueServed
  <2> QED BY <2>1, <2>2, <2>3 DEF QueueServed
<1> QED BY <1>2, <1>3

\* What an answer leaves alone, whoever gets it.
LEMMA AnswerFacts ==
  ASSUME IInv, NEW i \in DOMAIN dev, Answer(i)
  PROVE  LET r == dev[i].req  rest == RemoveAt(dev, i) IN
         /\ mpc = "serve" /\ mpc' = mpc /\ plugged /\ MayRunNow(i) /\ ModemRuns(r)
         /\ r \in Requests /\ rest \in Seq(Sent) /\ kind \in {"qmi", "mbim", "atc"}
         /\ \/ kind = "qmi" /\ IsCtl(r) /\ QmiCtlAnswer(r, rest)
            \/ kind = "qmi" /\ ~IsCtl(r) /\ QmiDataAnswer(r, rest)
            \/ kind = "mbim" /\ MbimAnswer(r, dev[i].tag, rest)
            \/ kind = "atc" /\ AtcAnswer(r, rest)
         /\ busy' = FALSE /\ Turn
         /\ UNCHANGED <<kind, tries, list, conn, pollfds, nask, plugged, clean, nfault, lossVars>>
<1>1. kind \in {"qmi", "mbim", "atc"}
  BY KindsAssumption DEF IInv, Types
<1>2. dev[i].req \in Requests /\ RemoveAt(dev, i) \in Seq(Sent)
  BY InDev DEF IInv
<1> QED BY <1>1, <1>2 DEF Answer

\* The answer reaches clients of the list; the head of the queue is the owner.
LEMMA AnswerGives ==
  ASSUME IInv, NEW i \in DOMAIN dev, Answer(i)
  PROVE  got' \in Given /\ got'.req = dev[i].req
<1> DEFINE r == dev[i].req
<1>1. PICK fds : fds \subseteq Range(list) /\ Give(r, fds)
  <2>1. CASE kind = "qmi" /\ IsCtl(r)
    <3>1. ctlq = <<>> => Give(r, {})
      BY <2>1, AnswerFacts DEF QmiCtlAnswer
    <3>2. ctlq # <<>> => Give(r, {CtlOwner.fd} \cap Range(list))
      BY <2>1, AnswerFacts DEF QmiCtlAnswer
    <3> QED BY <3>1, <3>2
  <2>2. CASE kind = "qmi" /\ ~IsCtl(r)
    <3>1. Give(r, {f \in Range(list) : r.id \in ids[f]})
      BY <2>2, AnswerFacts DEF QmiDataAnswer
    <3> QED BY <3>1
  <2>3. CASE kind = "mbim"
    <3>1. Give(r, {dev[i].tag} \cap Range(list))
      BY <2>3, AnswerFacts DEF MbimAnswer
    <3> QED BY <3>1
  <2>4. CASE kind = "atc"
    <3>1. Give(r, AtcReceivers)
      BY <2>4, AnswerFacts DEF AtcAnswer
    <3> QED BY <3>1, ReceiversListed DEF IInv
  <2> QED BY <2>1, <2>2, <2>3, <2>4, AnswerFacts
<1>2. r \in Requests
  BY AnswerFacts
<1> QED BY <1>1, <1>2, GiveTypes DEF IInv

LEMMA LearnedTypes ==
  ASSUME Types, NEW r \in Requests, NEW held \in IdSets
  PROVE  Learned(held, r) \in IdSets
<1>1. AnswerId(r) \in Ids \cup {0}
  BY AnswerIdOK
<1> QED BY <1>1 DEF Learned, IdSets

LEMMA AnswerTypes ==
  ASSUME IInv, NEW i \in DOMAIN dev, Answer(i)
  PROVE  Types' /\ Places'
<1> DEFINE r == dev[i].req
           rest == RemoveAt(dev, i)
<1>0. Types /\ Places /\ ctlq \in Seq(Queued)
  BY DEF IInv, Types
<1>1. granted' \in [Ids -> Clients \cup {None}]
  BY <1>0, AnswerFacts, ModemTypes
<1>2. got' \in Given
  BY AnswerGives
<1>3. /\ ids' \in [Fds -> IdSets] /\ ctlq' \in Seq(Queued) /\ dev' \in Seq(Sent)
      /\ kind # "qmi" => ids' = ids /\ ctlq' = ctlq
      /\ \A f \in Fds : conn[f] = None => ids'[f] = ids[f]
  <2>1. CASE kind = "qmi" /\ IsCtl(r) /\ ctlq # <<>>
    <3>1. Head(ctlq) \in Queued /\ Tail(ctlq) \in Seq(Queued)
      BY <1>0, <2>1, HeadTailProperties
    <3>2. CtlOwner.fd \in Fds
      BY <3>1 DEF CtlOwner, Queued
    <3>3. /\ ids' = IF Connected(CtlOwner.fd)
                    THEN [ids EXCEPT ![CtlOwner.fd] = Learned(ids[CtlOwner.fd], r)] ELSE ids
          /\ ctlq' = Tail(ctlq) /\ dev' = SendHead(ctlq', rest)
      BY <2>1, AnswerFacts DEF QmiCtlAnswer, Popped
    <3>4. Learned(ids[CtlOwner.fd], r) \in IdSets
      BY <1>0, <3>2, LearnedTypes, AnswerFacts DEF Types
    <3>5. ids' \in [Fds -> IdSets]
      BY <1>0, <3>3, <3>4 DEF Types
    <3>6. dev' \in Seq(Sent)
      BY <3>1, <3>3, SendHeadOK, AnswerFacts
    <3>7. \A f \in Fds : conn[f] = None => ids'[f] = ids[f]
      BY <1>0, <3>2, <3>3, ListHas DEF Types
    <3> QED BY <2>1, <3>1, <3>3, <3>5, <3>6, <3>7
  <2>2. CASE kind = "qmi" /\ IsCtl(r) /\ ctlq = <<>>
    <3>1. ids' = ids /\ ctlq' = ctlq /\ dev' = SendHead(ctlq', rest)
      BY <2>2, AnswerFacts DEF QmiCtlAnswer
    <3>2. dev' \in Seq(Sent)
      BY <1>0, <3>1, SendHeadOK, AnswerFacts
    <3> QED BY <1>0, <3>1, <3>2 DEF Types
  <2>3. CASE ~(kind = "qmi" /\ IsCtl(r))
    <3>1. ids' = ids /\ ctlq' = ctlq /\ dev' = rest
      BY <2>3, AnswerFacts DEF QmiDataAnswer, MbimAnswer, AtcAnswer
    <3> QED BY <1>0, <3>1, AnswerFacts DEF Types
  <2> QED BY <2>1, <2>2, <2>3
<1>4. Types'
  BY <1>0, <1>1, <1>2, <1>3, AnswerFacts DEF Types, Turn
<1>5. Places'
  <2>1. mpc = "serve" /\ mpc' = mpc /\ UNCHANGED <<kind, list, conn>>
    BY AnswerFacts
  <2>2. \A f \in Fds : conn[f] = None => ids'[f] = {}
    BY <1>0, <1>3 DEF Places
  <2>3. kind # "qmi" => ctlq' = <<>> /\ \A f \in Fds : ids'[f] = {}
    BY <1>0, <1>3, Zenon DEF Places
  <2>4. /\ \A f \in Fds : conn[f] # None <=> \E k \in 1 .. Len(list) : list[k] = f
        /\ \A k, j \in 1 .. Len(list) : list[k] = list[j] => k = j
        /\ \A f, g \in Fds : conn[f] = conn[g] /\ conn[f] # None => f = g
    BY <1>0, Zenon DEF Places
  <2> HIDE DEF r, rest
  <2> QED BY <2>1, <2>2, <2>3, <2>4 DEF Places
<1> QED BY <1>4, <1>5

\* A data answer of the QMI proxy goes to the owner of its client id, an MBIM
\* answer to the connection in its tag.
LEMMA OtherAnswerClean ==
  ASSUME IInv, Clean, NEW i \in DOMAIN dev, Answer(i), ~(kind = "qmi" /\ IsCtl(dev[i].req))
  PROVE  Clean'
<1> DEFINE r == dev[i].req
<1>1. ids' = ids /\ ctlq' = ctlq /\ dev' = RemoveAt(dev, i)
  BY AnswerFacts DEF QmiDataAnswer, MbimAnswer, AtcAnswer
<1>2. QueueServed' /\ DevOwned'
  BY <1>1, OthersOwned, AnswerFacts
<1>3. IdsOfModem'
  <2>1. CASE kind = "qmi"
    <3>1. r \in Requests /\ r.what = "data" /\ Types
      BY <2>1, AnswerFacts DEF IsCtl, Requests, IInv
    <3>2. AnswerId(r) = 0
      BY <3>1, AnswerIdOK
    <3>3. granted' = granted
      <4>1. ModemRuns(r)
        BY AnswerFacts
      <4> QED BY <3>2, <4>1 DEF ModemRuns
    <3> QED BY <1>1, <3>3, AnswerFacts DEF Clean, IdsOfModem
  <2>2. CASE kind # "qmi"
    BY <1>1, <2>2 DEF IInv, Places, IdsOfModem
  <2> QED BY <2>1, <2>2
<1>4. QueueOwned' /\ PollIsFresh' /\ plugged'
  BY <1>1, AnswerFacts DEF Clean, QueueOwned, PollIsFresh
<1> QED BY <1>2, <1>3, <1>4 DEF Clean

\* A control answer belongs to the head of the queue.
LEMMA CtlAnswerFacts ==
  ASSUME IInv, Clean, NEW i \in DOMAIN dev, Answer(i), kind = "qmi", IsCtl(dev[i].req)
  PROVE  LET r == dev[i].req  o == ctlq[1].fd IN
         /\ r = ctlq[1].req /\ ctlq # <<>> /\ 1 \in 1 .. Len(ctlq)
         /\ o \in Fds /\ conn[o] = r.who /\ conn[o] # None /\ CtlOwner = ctlq[1]
         /\ Connected(o) /\ r \in Requests
         /\ ids' = [ids EXCEPT ![o] = Learned(ids[o], r)]
         /\ ctlq' \in Seq(Queued) /\ Len(ctlq') = Len(ctlq) - 1
         /\ \A k \in 1 .. Len(ctlq) - 1 : ctlq'[k] = ctlq[k + 1]
         /\ Give(r, {o}) /\ dev' = SendHead(ctlq', RemoveAt(dev, i))
<1>0. Types /\ Places
  BY DEF IInv
<1>1. dev[i].req = ctlq[1].req /\ ctlq # <<>> /\ ctlq \in Seq(Queued)
  BY <1>0, InDev DEF Clean, QueueServed, Types
<1>2. /\ 1 \in 1 .. Len(ctlq) /\ Head(ctlq) = ctlq[1] /\ CtlOwner = ctlq[1]
      /\ Tail(ctlq) \in Seq(Queued) /\ Len(Tail(ctlq)) = Len(ctlq) - 1
      /\ \A k \in 1 .. Len(ctlq) - 1 : Tail(ctlq)[k] = ctlq[k + 1]
  <2>1. Len(ctlq) \in Nat \ {0}
    BY <1>1, EmptySeq
  <2>2. Head(ctlq) = ctlq[1]
    BY <1>1, HeadTailProperties
  <2> QED BY <1>1, <2>1, <2>2, HeadTailProperties DEF CtlOwner
<1>3. ctlq[1].fd \in Fds /\ conn[ctlq[1].fd] = ctlq[1].req.who /\ conn[ctlq[1].fd] # None
  BY <1>0, <1>2, QueuedIs DEF Clean, QueueOwned
<1>4. Connected(ctlq[1].fd) /\ ctlq[1].fd \in Range(list)
  BY <1>0, <1>3, ListHas
<1>5. QmiCtlAnswer(dev[i].req, RemoveAt(dev, i)) /\ dev[i].req \in Requests
  BY AnswerFacts
<1>6. /\ ids' = [ids EXCEPT ![ctlq[1].fd] = Learned(ids[ctlq[1].fd], dev[i].req)]
      /\ ctlq' = Tail(ctlq) /\ dev' = SendHead(ctlq', RemoveAt(dev, i))
      /\ Give(dev[i].req, {ctlq[1].fd} \cap Range(list))
  BY <1>1, <1>2, <1>4, <1>5 DEF QmiCtlAnswer, Popped
<1>7. {ctlq[1].fd} \cap Range(list) = {ctlq[1].fd}
  BY <1>4
<1> QED BY <1>1, <1>2, <1>3, <1>4, <1>5, <1>6, <1>7

\* The ids the owner has after it: an id is lost only by its release, and all
\* are still the modem's.
LEMMA CtlAnswerIds ==
  ASSUME IInv, Clean, NEW i \in DOMAIN dev, Answer(i), kind = "qmi", IsCtl(dev[i].req)
  PROVE  LET r == dev[i].req IN
         /\ \A f \in Fds : \A a \in ids[f] : ~(IsRelease(r) /\ a = r.id) => a \in ids'[f]
         /\ IdsOfModem'
<1> DEFINE r == dev[i].req
           o == ctlq[1].fd
           a == AnswerId(r)
<1>0. Types /\ Places
  BY DEF IInv
<1>1. /\ r \in Requests /\ o \in Fds /\ conn[o] = r.who /\ conn[o] # None
      /\ ids' = [ids EXCEPT ![o] = Learned(ids[o], r)]
      /\ r = ctlq[1].req /\ 1 \in 1 .. Len(ctlq)
  BY CtlAnswerFacts
<1>2. ids'[o] = Learned(ids[o], r) /\ \A f \in Fds : f # o => ids'[f] = ids[f]
  BY <1>0, <1>1 DEF Types
<1>3. r.what = "get" \/ r.what = "release"
  BY DEF IsCtl
<1>4. /\ a \in Ids \cup {0} /\ (r.what = "get" /\ a # 0 => granted[a] = None)
      /\ (r.what = "release" /\ a # 0 => a = r.id)
  BY <1>0, <1>1, AnswerIdOK
<1>5. ModemRuns(r) /\ UNCHANGED conn
  BY AnswerFacts
<1>6. granted \in [Ids -> Clients \cup {None}] /\ \A f \in Fds : ids[f] \subseteq Ids
  BY <1>0 DEF Types, IdSets
<1>7. \A f \in Fds : \A x \in ids[f] : granted[x] = conn[f]
  BY DEF Clean, IdsOfModem
<1> HIDE DEF r, o
<1>8. CASE a = 0
  <2>1. granted' = granted /\ \A f \in Fds : ids'[f] = ids[f]
    BY <1>1, <1>2, <1>5, <1>8 DEF ModemRuns, Learned
  <2> QED BY <1>5, <1>7, <2>1 DEF IdsOfModem, r
<1>9. CASE a # 0 /\ r.what = "get"
  <2>1. granted' = [granted EXCEPT ![a] = r.who] /\ ids'[o] = ids[o] \cup {a}
    BY <1>2, <1>5, <1>9 DEF ModemRuns, Learned
  <2>2. a \in Ids /\ granted'[a] = r.who /\ \A x \in Ids : x # a => granted'[x] = granted[x]
    BY <1>4, <1>6, <1>9, <2>1
  <2>3. \A f \in Fds : a \notin ids[f]
    BY <1>0, <1>4, <1>7, <1>9 DEF Places
  <2>4. \A f \in Fds : \A x \in ids'[f] : granted'[x] = conn[f]
    BY <1>1, <1>2, <1>6, <1>7, <2>1, <2>2, <2>3
  <2>5. \A f \in Fds : \A x \in ids[f] : x \in ids'[f]
    BY <1>2, <2>1
  <2> QED BY <1>5, <2>4, <2>5 DEF IdsOfModem, r
<1>10. CASE a # 0 /\ r.what = "release"
  <2>1. /\ granted' = [granted EXCEPT ![a] = None] /\ ids'[o] = ids[o] \ {a} /\ a = r.id
        /\ IsRelease(r)
    BY <1>2, <1>4, <1>5, <1>10 DEF ModemRuns, Learned, IsRelease
  <2>2. a \in ids[o]
    BY <1>1, <2>1 DEF Clean, QueueOwned, o
  <2>3. \A f \in Fds : f # o => a \notin ids[f]
    BY <1>0, <1>1, <1>7, <2>2 DEF Places
  <2>4. \A x \in Ids : x # a => granted'[x] = granted[x]
    BY <1>6, <2>1
  <2>5. \A f \in Fds : \A x \in ids'[f] : x # a /\ x \in ids[f]
    BY <1>1, <1>2, <2>1, <2>3
  <2>6. \A f \in Fds : \A x \in ids'[f] : granted'[x] = conn[f]
    BY <1>6, <1>7, <2>4, <2>5
  <2>7. \A f \in Fds : \A x \in ids[f] : x # r.id => x \in ids'[f]
    BY <1>2, <2>1
  <2>8. IsRelease(r)
    BY <2>1
  <2> QED BY <1>5, <2>6, <2>7, <2>8 DEF IdsOfModem, r
<1> QED BY <1>3, <1>8, <1>9, <1>10 DEF r

\* After a control answer the next head, and no other control request, is with
\* the modem, and no request has lost its way back.
LEMMA CtlAnswerClean ==
  ASSUME IInv, Clean, NEW i \in DOMAIN dev, Answer(i), kind = "qmi", IsCtl(dev[i].req)
  PROVE  Clean'
<1> DEFINE r == dev[i].req
           rest == RemoveAt(dev, i)
           o == ctlq[1].fd
           d == [req |-> ctlq'[1].req, tag |-> 0]
<1>0. Types /\ i \in 1 .. Len(dev) /\ Len(ctlq) \in Nat
  BY InDev, QueuedIs DEF IInv
<1>1. /\ UNCHANGED <<kind, list, conn, pollfds, plugged>> /\ MayRunNow(i)
  BY AnswerFacts
<1>2. /\ r = ctlq[1].req /\ ctlq # <<>> /\ 1 \in 1 .. Len(ctlq)
      /\ ctlq' \in Seq(Queued) /\ Len(ctlq') = Len(ctlq) - 1
      /\ \A k \in 1 .. Len(ctlq) - 1 : ctlq'[k] = ctlq[k + 1]
      /\ dev' = SendHead(ctlq', rest)
  BY CtlAnswerFacts
<1>3. /\ \A f \in Fds : \A a \in ids[f] : ~(IsRelease(r) /\ a = r.id) => a \in ids'[f]
      /\ IdsOfModem'
  BY CtlAnswerIds
<1>4. /\ rest \in Seq(Sent) /\ Len(rest) \in Nat
      /\ \A k \in 1 .. Len(rest) : /\ Origin(k, i) \in 1 .. Len(dev) /\ Origin(k, i) # i
                                   /\ rest[k] = dev[Origin(k, i)]
  BY <1>0, OthersInDev
<1> HIDE DEF rest
\* none of the others is a control request, none uses the id that is released
<1>5. \A k \in 1 .. Len(rest) :
        ~IsCtl(rest[k].req) /\ (IsRelease(r) => rest[k].req.id # r.id)
  <2> TAKE k \in 1 .. Len(rest)
  <2>1. PICK m \in 1 .. Len(dev) : m # i /\ rest[k] = dev[m]
    BY <1>4
  <2>2. ~IsCtl(dev[m].req)
    BY <1>0, <2>1 DEF Clean, QueueServed
  <2>3. ASSUME IsRelease(r)
        PROVE  dev[m].req.id # r.id
    <3>1. CASE m < i
      <4>1. m \in 1 .. i - 1
        BY <1>0, <2>1, <3>1
      <4> QED BY <1>1, <4>1 DEF MayRunNow
    <3>2. CASE m > i
      BY <1>0, <2>3, <3>2 DEF Clean, DevOwned
    <3> QED BY <1>0, <2>1, <3>1, <3>2
  <2> QED BY <2>1, <2>2, <2>3
<1>6. \A k \in 1 .. Len(rest) :
        \E f \in Fds : conn[f] = rest[k].req.who /\ rest[k].req.id \in ids'[f]
  <2> TAKE k \in 1 .. Len(rest)
  <2>1. PICK m \in 1 .. Len(dev) : rest[k] = dev[m]
    BY <1>4
  <2>2. PICK f \in Fds : conn[f] = rest[k].req.who /\ rest[k].req.id \in ids[f]
    BY <1>5, <2>1 DEF Clean, DevOwned
  <2> QED BY <1>3, <1>5, <2>2
<1>7. QueueOwned'
  <2>1. \A k \in 1 .. Len(ctlq') : k + 1 \in 1 .. Len(ctlq) /\ ctlq'[k] = ctlq[k + 1] /\ k + 1 # 1
    BY <1>0, <1>2
  <2>2. \A k, l \in 1 .. Len(ctlq') : k + 1 = l + 1 => k = l
    OBVIOUS
  <2>3. ASSUME NEW k \in 1 .. Len(ctlq'), IsRelease(ctlq'[k].req)
        PROVE  ctlq'[k].req.id \in ids'[ctlq'[k].fd]
    <3>1. PICK n \in 1 .. Len(ctlq) : n # 1 /\ ctlq'[k] = ctlq[n]
      BY <2>1
    <3>2. ctlq[n].req.id \in ids[ctlq[n].fd] /\ ctlq[n].fd \in Fds
      BY <1>0, <2>3, <3>1, QueuedIs DEF Clean, QueueOwned
    <3>3. ~(IsRelease(r) /\ ctlq[n].req.id = r.id)
      BY <1>2, <2>3, <3>1 DEF Clean, QueueOwned
    <3> QED BY <1>3, <3>1, <3>2, <3>3
  <2>4. ASSUME NEW k \in 1 .. Len(ctlq')
        PROVE  IsCtl(ctlq'[k].req) /\ conn'[ctlq'[k].fd] = ctlq'[k].req.who
    BY <1>1, <2>1 DEF Clean, QueueOwned
  <2>5. ASSUME NEW k \in 1 .. Len(ctlq'), NEW l \in 1 .. Len(ctlq'),
               IsRelease(ctlq'[k].req), IsRelease(ctlq'[l].req), ctlq'[k].req.id = ctlq'[l].req.id
        PROVE  k = l
    <3>1. PICK m \in 1 .. Len(ctlq) : m = k + 1 /\ ctlq'[k] = ctlq[m]
      BY <2>1
    <3>2. PICK n \in 1 .. Len(ctlq) : n = l + 1 /\ ctlq'[l] = ctlq[n]
      BY <2>1
    <3>3. m = n
      BY <2>5, <3>1, <3>2 DEF Clean, QueueOwned
    <3> QED BY <2>2, <3>1, <3>2, <3>3
  <2> QED BY <2>3, <2>4, <2>5 DEF QueueOwned
<1>8. CASE ctlq' = <<>>
  <2>1. dev' = rest
    BY <1>2, <1>4, <1>8, SendHeadOK
  <2>2. QueueServed' /\ DevOwned'
    BY <1>1, <1>5, <1>6, <1>8, <2>1 DEF QueueServed, DevOwned, IsCtl, IsRelease
  <2> QED BY <1>1, <1>3, <1>7, <2>2 DEF Clean, PollIsFresh
<1>9. CASE ctlq' # <<>>
  <2>1. Len(ctlq') \in Nat \ {0} /\ 1 \in 1 .. Len(ctlq')
    BY <1>2, <1>9, EmptySeq
  <2>2. ctlq'[1] \in Queued /\ IsCtl(ctlq'[1].req) /\ ctlq'[1].fd \in Fds /\ conn[ctlq'[1].fd] # None
    <3>1. 2 \in 1 .. Len(ctlq) /\ ctlq'[1] = ctlq[2]
      BY <1>0, <1>2, <2>1
    <3> QED BY <1>0, <3>1, QueuedIs DEF Clean, QueueOwned
  <2>3. dev' = Append(rest, d)
    <3>1. Connected(ctlq'[1].fd)
      BY <1>0, <2>2, ListHas DEF IInv
    <3> QED BY <1>2, <1>4, <1>9, <3>1, SendHeadOK
  <2>4. d \in Sent /\ d.req = ctlq'[1].req
    BY <2>2 DEF Queued, Sent
  <2> HIDE DEF d
  <2>5. /\ Len(dev') = Len(rest) + 1 /\ dev'[Len(rest) + 1] = d
        /\ \A k \in 1 .. Len(rest) : dev'[k] = rest[k]
    BY <1>4, <2>3, <2>4, AppendProperties
  <2>6. /\ \A k \in 1 .. Len(dev') : k \in 1 .. Len(rest) \/ k = Len(rest) + 1
        /\ Len(rest) + 1 \in 1 .. Len(dev')
    BY <1>4, <2>5
  <2>7. \A k \in 1 .. Len(dev') : IsCtl(dev'[k].req) => k = Len(rest) + 1
    BY <1>5, <2>5, <2>6
  <2>8. QueueServed'
    BY <1>9, <2>4, <2>5, <2>6, <2>7 DEF QueueServed
  <2>9. DevOwned'
    <3>1. \A k \in 1 .. Len(dev') : IsRelease(dev'[k].req) => ~\E j \in 1 .. Len(dev') : j > k
      BY <1>4, <2>5, <2>6, <2>7 DEF IsRelease, IsCtl
    <3>2. \A k \in 1 .. Len(dev') : ~IsCtl(dev'[k].req) => k \in 1 .. Len(rest)
      BY <2>2, <2>4, <2>5, <2>6
    <3> QED BY <1>1, <1>6, <2>5, <3>1, <3>2 DEF DevOwned
  <2> QED BY <1>1, <1>3, <1>7, <2>8, <2>9 DEF Clean, PollIsFresh
<1> QED BY <1>8, <1>9

\* Whoever asked and is still there gets the answer; over QMI and MBIM nobody
\* else does.
LEMMA AnswerRouted ==
  ASSUME IInv, NEW i \in DOMAIN dev, Answer(i)
  PROVE  Routed'
<1> DEFINE r == dev[i].req
           Reached == \A f \in Range(list) : conn[f] = r.who => r.who \in got'.to
           Alone == kind # "atc" => got'.to \subseteq {r.who}
<1>0. Types /\ Places /\ i \in 1 .. Len(dev) /\ dev[i] \in Sent
  BY InDev DEF IInv
<1>1. got'.req = r /\ r \in Requests
  BY AnswerGives, AnswerFacts
<1>2. UNCHANGED <<kind, list, conn, clean>> /\ kind \in {"qmi", "mbim", "atc"}
  BY AnswerFacts
<1>3. SUFFICES ASSUME clean PROVE Reached /\ Alone
  BY <1>1, <1>2 DEF Routed, AnswerReachesAsker, AnswerToNobodyElse
<1>4. Clean
  BY <1>3 DEF IInv
<1>5. CASE kind = "qmi" /\ IsCtl(r)
  <2>1. PICK o \in Fds : conn[o] = r.who /\ Give(r, {o})
    BY <1>4, <1>5, CtlAnswerFacts
  <2>2. got'.to = {r.who}
    BY <2>1 DEF Give
  <2> QED BY <2>2
<1>6. CASE kind = "qmi" /\ ~IsCtl(r)
  <2>1. PICK o \in Fds : conn[o] = r.who /\ r.id \in ids[o]
    BY <1>0, <1>4, <1>6 DEF Clean, DevOwned
  <2>2. Give(r, {f \in Range(list) : r.id \in ids[f]})
    BY <1>6, AnswerFacts DEF QmiDataAnswer
  <2>3. got'.to = {conn[f] : f \in {g \in Range(list) : r.id \in ids[g]}}
    BY <2>2 DEF Give
  <2>4. conn[o] # None
    BY <1>1, <2>1 DEF Requests, Clients, None
  <2>5. o \in Range(list)
    BY <1>0, <2>4, ListHas
  <2>6. \A f \in Range(list) : r.id \in ids[f] => conn[f] = conn[o]
    <3>1. \A f \in Range(list) : f \in Fds
      BY <1>0, RangeIs, ElementOfSeq DEF Types
    <3> QED BY <1>4, <2>1, <3>1 DEF Clean, IdsOfModem
  <2> QED BY <2>1, <2>3, <2>5, <2>6
<1>7. CASE kind = "mbim"
  <2>1. dev[i].tag \in Fds /\ conn[dev[i].tag] = r.who
    BY <1>0, <1>4, <1>7 DEF Clean, DevOwned
  <2>2. Give(r, {dev[i].tag} \cap Range(list))
    BY <1>7, AnswerFacts DEF MbimAnswer
  <2>3. got'.to = {conn[f] : f \in {dev[i].tag} \cap Range(list)}
    BY <2>2 DEF Give
  <2>4. conn[dev[i].tag] # None
    BY <1>1, <2>1 DEF Requests, Clients, None
  <2>5. dev[i].tag \in Range(list)
    BY <1>0, <2>1, <2>4, ListHas
  <2> QED BY <2>1, <2>3, <2>5
<1>8. CASE kind = "atc"
  <2>1. Give(r, AtcReceivers)
    BY <1>8, AnswerFacts DEF AtcAnswer
  <2>2. got'.to = {conn[f] : f \in AtcReceivers}
    BY <2>1 DEF Give
  <2>3. ASSUME NEW f \in Range(list) PROVE conn[f] \in got'.to
    <3>1. Len(list) \in 0 .. MaxFds /\ MaxFds \in Nat
      BY <1>0, ListIsShort, FdsAssumption
    <3>2. Len(list) # 0
      BY <1>0, <2>3, RangeIs DEF Types
    <3>3. pollfds[Len(list) + 1] = 0
      BY <1>4, <1>8, <3>1, <3>2 DEF Clean, PollIsFresh
    <3>4. ~Connected(CurrentClient)
      <4>1. \A g \in Range(list) : g \in Fds
        BY <1>0, RangeIs, ElementOfSeq DEF Types
      <4> QED BY <3>3, <4>1 DEF Connected, CurrentClient, Fds
    <3>5. f \in AtcReceivers
      BY <2>3, <3>4 DEF AtcReceivers
    <3> QED BY <2>2, <3>5
  <2> QED BY <1>8, <2>3
<1> QED BY <1>2, <1>5, <1>6, <1>7, <1>8

LEMMA AnswerKeeps ==
  ASSUME IInv, NEW i \in DOMAIN dev, Answer(i)
  PROVE  IInv'
<1>1. Types' /\ Places' /\ Routed'
  BY AnswerTypes, AnswerRouted
<1>2. ASSUME clean' PROVE Clean'
  <2>1. Clean
    BY <1>2, AnswerFacts DEF IInv
  <2>2. CASE kind = "qmi" /\ IsCtl(dev[i].req)
    BY <2>1, <2>2, CtlAnswerClean
  <2>3. CASE ~(kind = "qmi" /\ IsCtl(dev[i].req))
    BY <2>1, <2>3, OtherAnswerClean
  <2> QED BY <2>2, <2>3
<1> QED BY <1>1, <1>2 DEF IInv

-----------------------------------------------------------------------------
(* The theorems *)

LEMMA InitHolds == Init => IInv
<1> SUFFICES ASSUME Init PROVE IInv
  OBVIOUS
<1>0. /\ kind \in Kinds /\ mpc = "open" /\ tries = 0 /\ quit = "no" /\ list = <<>>
      /\ conn = [f \in Fds |-> None] /\ ids = [f \in Fds |-> {}] /\ ctlq = <<>> /\ busy = FALSE
      /\ pollfds = [i \in 1 .. MaxFds + 1 |-> 0] /\ nask = 0 /\ dev = <<>>
      /\ granted = [i \in Ids |-> None] /\ plugged = TRUE /\ got = Nothing
      /\ clean = TRUE /\ nfault = 0 /\ leaked = FALSE /\ leftBehind = FALSE
  BY DEF Init, NoIds
<1>1. /\ <<>> \in Seq(Fds) /\ <<>> \in Seq(Queued) /\ <<>> \in Seq(Sent)
      /\ Len(<<>>) = 0 /\ 1 .. 0 = {}
  BY EmptySeq
<1>2. /\ busy \in BOOLEAN /\ plugged \in BOOLEAN /\ clean \in BOOLEAN
      /\ leaked \in BOOLEAN /\ leftBehind \in BOOLEAN
  BY <1>0, Zenon
<1>3. {} \in IdSets
  BY DEF IdSets
<1>4. Types
  BY <1>0, <1>1, <1>2, <1>3, NothingIsGiven, BoundsAssumption DEF Types
<1>5. Places
  BY <1>0, <1>1 DEF Places
<1>6. Clean
  BY <1>0, <1>1 DEF Clean, QueueOwned, QueueServed, DevOwned, IdsOfModem, PollIsFresh
<1>7. Routed
  <2>1. got.req = NoRequest
    BY <1>0 DEF Nothing
  <2> QED BY <1>4, <1>5, <2>1, NothingRouted
<1> QED BY <1>4, <1>5, <1>6, <1>7 DEF IInv

LEMMA StepKeeps == IInv /\ [Next]_vars => IInv'
<1> SUFFICES ASSUME IInv, [Next]_vars PROVE IInv'
  OBVIOUS
<1>1. CASE Main
  BY <1>1, OpenKeeps, InitAnsweredKeeps, MainKeeps DEF Main
<1>2. CASE Loop
  BY <1>2, LoopExitKeeps, TroubleKeeps DEF Loop
<1>3. CASE ModemAnswers
  BY <1>3, AnswerKeeps DEF ModemAnswers
<1>4. CASE ClientStep
  BY <1>4, ConnectKeeps, LeaveKeeps, HalfCloseKeeps, AskKeeps DEF ClientStep
<1>5. CASE Trouble
  BY <1>5, MainKeeps, TroubleKeeps, IndicationKeeps DEF Trouble
<1>6. CASE Replug
  BY <1>6, MainKeeps
<1>7. CASE UNCHANGED vars
  BY <1>7 DEF IInv, Types, Places, Clean, QueueOwned, QueueServed, DevOwned, IdsOfModem,
              PollIsFresh, Routed, AnswerReachesAsker, AnswerToNobodyElse, Connected,
              vars, mainVars, loopVars, modemVars
<1>8. Ended => UNCHANGED vars
  BY DEF Ended
<1> QED BY <1>1, <1>2, <1>3, <1>4, <1>5, <1>6, <1>7, <1>8 DEF Next

\* The inductive invariant holds in every state of the three proxies
\* (qmi_proxy_loop, mbim proxy_loop, atc_proxy_loop): the queue of control
\* requests, what the modem holds and the client ids lead back to the managers
\* that asked.
THEOREM ProxyInvariant == Spec => []IInv
<1>1. Init => IInv
  BY InitHolds
<1>2. IInv /\ [Next]_vars => IInv'
  BY StepKeeps
<1> QED BY <1>1, <1>2, PTL DEF Spec

\* The list of connections as TypeOK states it.
LEMMA ListTyped ==
  ASSUME Types, Places
  PROVE  list \in BoundedSeq(Fds, MaxFds) /\ IsInjective(list)
<1>1. Len(list) \in 0 .. MaxFds /\ list \in [1 .. Len(list) -> Fds] /\ DOMAIN list = 1 .. Len(list)
  BY ListIsShort, LenProperties DEF Types
<1>2. list \in BoundedSeq(Fds, MaxFds)
  BY <1>1 DEF BoundedSeq, SeqOf
<1>3. IsInjective(list)
  BY <1>1 DEF Places, IsInjective
<1> QED BY <1>2, <1>3

LEMMA InvGivesRouted == IInv => AnswersRouted
<1> SUFFICES ASSUME IInv PROVE AnswersRouted
  OBVIOUS
<1>0. Types /\ Places /\ (clean => Clean) /\ Routed
  BY DEF IInv
<1>1. TypeOK
  <2>1. /\ \A k \in DOMAIN ctlq : ctlq[k] \in [fd : Fds, req : Requests]
        /\ \A k \in DOMAIN dev : dev[k] \in [req : Requests, tag : Fds \cup {0}]
    <3>1. ctlq \in Seq(Queued) /\ dev \in Seq(Sent)
      BY <1>0 DEF Types
    <3>2. (\A k \in DOMAIN ctlq : ctlq[k] \in Queued) /\ (\A k \in DOMAIN dev : dev[k] \in Sent)
      BY <3>1, ElementOfSeq, LenProperties
    <3> QED BY <3>2 DEF Queued, Sent
  <2>2. got.to \subseteq Clients /\ got.req \in Requests \cup {NoRequest}
    BY <1>0 DEF Types, Given, ClientSets
  <2> QED BY <1>0, <2>1, <2>2, ListTyped DEF Types, TypeOK, IdSets
<1>2. IdsAgree
  <2>1. \A f \in Range(list) : f \in Fds
    BY <1>0, RangeIs, ElementOfSeq DEF Types
  <2> QED BY <1>0, <2>1 DEF IdsAgree, Clean, IdsOfModem
<1>3. CleanIsNotWedged
  <2>1. ASSUME clean, ctlq # <<>>
        PROVE  \E k \in DOMAIN dev : dev[k].req = Head(ctlq).req
    <3>1. PICK k \in 1 .. Len(dev) : dev[k].req = ctlq[1].req
      BY <1>0, <2>1 DEF Clean, QueueServed
    <3>2. Head(ctlq) = ctlq[1] /\ DOMAIN dev = 1 .. Len(dev)
      BY <1>0, <2>1, HeadTailProperties, LenProperties DEF Types
    <3> QED BY <3>1, <3>2
  <2> QED BY <2>1 DEF CleanIsNotWedged, Wedged
<1> QED BY <1>0, <1>1, <1>2, <1>3 DEF AnswersRouted, Routed

\* While no manager has left with a request under way and the modem has lost
\* nothing, every answer reaches the manager that asked, over QMI and MBIM
\* nobody else, the client ids are the modem's and the control queue is not
\* stuck (recv_qmi_from_dev, handle_device_response, onUnsolicited).
THEOREM AnswersAreRouted == Spec => []AnswersRouted
<1>1. IInv => AnswersRouted
  BY InvGivesRouted
<1> QED BY <1>1, ProxyInvariant, PTL
=============================================================================
