------------------------------ MODULE CfProofs ------------------------------
(***************************************************************************)
(* What a deployment of the Cloudflare Tunnel plugin promises, for any     *)
(* hostnames, accounts and ids, any number of failures and any             *)
(* interference: the router's tunnels and records are never forgotten and  *)
(* never made twice, the cleanup deletes no record but its own, and        *)
(* a router nobody interferes with stays reachable.                        *)
(*                                                                         *)
(* The invariant has three layers: where a deployment stands and what it   *)
(* then holds (Types, Holds), what the database knows of the tunnels and   *)
(* records (Remembered, Known), and what visitors reach (Reachable).       *)
(*                                                                         *)
(* The second part is about the lock, for every set of processes and any   *)
(* number of crashes: as long as nobody got in beside it, a deployment     *)
(* that has asked for its origin is never taken for a stale lock.          *)
(***************************************************************************)
EXTENDS CfDeploy, CfLock, FiniteSetTheorems, WellFoundedInduction, TLAPS

CleanStages == {"clean", "clean_get", "clean_delete", "verify"}

\* From here on the run has a tunnel.
HasTunnel == Stages \ {"idle", "records", "tunnel", "intent", "post_tunnel"}

\* A database that knows record r of ours: by its id, or by an intent that has
\* no id yet.
Knows(db, r) ==
  LET d == db.dns[r.host] IN
    d # None /\ d.tun = r.to /\ (d.id = r.id \/ (d.pending /\ d.id = 0))

-----------------------------------------------------------------------------
(* The inductive invariant *)

\* What a deployment holds at each of its stages.
Holds ==
  /\ pc # "idle" => host \in Hosts /\ org \in Origins
  /\ pc \in HasTunnel => tun \in TunIds
  /\ pc \in {"save_dns", "patch"} => rec # None
  /\ pc \notin CleanStages \cup {"idle"} => mem = disk
  /\ pc \in CleanStages => mem.tunnels = disk.tunnels /\ mem.active = disk.active
  /\ pc \in CleanStages => \A h \in todo : h # host /\ mem.dns[h] # None
  /\ pc \in {"clean_get", "clean_delete"} =>
        cur \in Hosts /\ cur # host /\ mem.dns[cur] # None

\* No tunnel of ours exists in the account before the POST, and none but the
\* one just made after it.
Remembered ==
  /\ NoOrphanTunnel
  /\ NoSecondTunnel
  /\ pc \in {"intent", "post_tunnel"} =>
        \A t \in tunnels : t.creator = "us" => t.acc # Account
  /\ pc = "post_tunnel" => disk.tunnels[Account] # None /\ disk.tunnels[Account].pending
  /\ pc = "save_tunnel" =>
        \A t \in tunnels : t.creator = "us" /\ t.acc = Account => t.id = tun

\* Records have their own ids, and a CNAME has its name to itself.
RecordsApart ==
  /\ \A r, q \in records : r.id = q.id => r = q
  /\ \A r, q \in records : r.host = q.host /\ r.type = "CNAME" => r = q
  /\ \A r \in records : r.creator = "us" => r.type = "CNAME"

Ours(r) == r.creator = "us" /\ ~r.edited

\* The records the run has read are all of ours that there are, until it makes
\* the one it needs.
Read ==
  /\ pc \in {"tunnel", "intent", "post_tunnel", "save_tunnel", "config", "dns"} =>
        \A r \in records : r.host = host /\ r.creator = "us" => \E q \in recs : q.id = r.id
  /\ pc \in {"idle", "records", "tunnel", "intent", "post_tunnel", "save_tunnel"} => rec = None
  /\ pc \in {"intent", "post_tunnel", "save_tunnel"} => recs = {}
  /\ pc \in {"config", "dns"} => recs = IF rec = None THEN {} ELSE {rec}
  /\ pc \in {"post_dns", "save_dns"} =>
        disk.dns[host] = [id |-> 0, tun |-> tun, pending |-> TRUE]
  /\ pc = "post_dns" => \A r \in records : r.host = host => r.creator # "us"
  /\ pc = "save_dns" => \A r \in records : r.host = host /\ r.creator = "us" => r.id = rec.id

\* Both databases know every record of ours.
Known ==
  /\ \A r \in records : Ours(r) => Knows(disk, r)
  /\ pc # "idle" => \A r \in records : Ours(r) => Knows(mem, r)

\* Record r leads visitors of h to tunnel t.
Leads(r, h, t) == r.host = h /\ r.type = "CNAME" /\ r.to = t /\ r.proxied
Reaches(t) ==
  t \in TunIds /\ \E h \in Hosts : routes[t][h] \in Origins /\ \E r \in records : Leads(r, h, t)

\* The run's own hostname is live in Cloudflare.
HostLeads == \E r \in records : Leads(r, host, tun)
HostIsLive == HostLeads /\ routes[tun][host] \in Origins
LiveStages == {"token", "restart", "save_active"} \cup CleanStages

AllOurs == \A r \in records : Ours(r) /\ r.proxied

\* The run's record is there from the moment the run has it, and its hostname
\* is live before the connector is told.
RunGoesLive ==
  /\ pc = "tunnel" => recs \subseteq records /\ \A r \in recs : r.host = host
  /\ pc \in {"config", "dns", "save_dns"} /\ rec # None => rec \in records /\ Leads(rec, host, tun)
  /\ pc # "patch"
  /\ pc = "put" => HostLeads
  /\ pc \in {"dns", "post_dns", "save_dns", "put"} => config[host] \in Origins
  /\ pc \in LiveStages => HostIsLive
  /\ pc \in LiveStages \ {"token"} => token = tun

\* The tunnel of the connector token reaches the router, and so does the one
\* before it as long as it may come back.
TokenReaches ==
  disk.active # None => Reaches(token) /\ (pc = "restart" => Reaches(prev))

Undisturbed == AllOurs /\ RunGoesLive /\ TokenReaches

Reachable == others = 0 => Undisturbed

\* Where the DELETE is about to be sent.
DeletesWhatLeadsHere ==
  pc = "clean_delete" => \A r \in records : r.id = mem.dns[cur].id =>
    /\ r.host = cur
    /\ ~r.edited => r.type = "CNAME" /\ r.to = mem.dns[cur].tun

\* The records a database names are ours or were adopted, and an entry without
\* an id is an intent.
MineIn(db, rs, ad) ==
  \A h \in Hosts : db.dns[h] # None =>
    /\ db.dns[h].id = 0 => db.dns[h].pending
    /\ \A r \in rs : r.id = db.dns[h].id => r.creator = "us" \/ r.id \in ad

Mine ==
  /\ MineIn(disk, records, adopted) /\ MineIn(mem, records, adopted)
  /\ pc = "save_dns" => \A r \in records : r.id = rec.id => r.creator = "us"

IInv ==
  /\ TypeOK /\ Holds /\ Remembered /\ RecordsApart /\ Read /\ Known
  /\ Mine /\ DeletesWhatLeadsHere /\ Reachable

-----------------------------------------------------------------------------
(* Operators *)

\* Cloudflare gives out an id that is free.
LEMMA LeastIsIn ==
  ASSUME NEW S, S \subseteq Nat, S # {}
  PROVE  Least(S) \in S
<1> DEFINE R == {ss \in Nat \X Nat : ss[1] < ss[2]}
<1>1. IsWellFoundedOn(R, Nat)
  BY NatLessThanWellFounded, Zenon DEF OpToRel
<1>2. PICK x \in S : \A y \in S : ~(<<y, x>> \in R)
  <2> HIDE DEF R
  <2>. QED
    BY <1>1, WFMin
<1>3. ASSUME NEW y \in S PROVE x <= y
  <2>1. x \in Nat /\ y \in Nat /\ (y < x => <<y, x>> \in R)
    OBVIOUS
  <2>2. ~(y < x)
    BY <1>2, <2>1
  <2>. QED
    BY <2>1, <2>2
<1>. QED
  BY <1>3 DEF Least

LEMMA FreeIds ==
  /\ FreeTuns # {} => Least(FreeTuns) \in FreeTuns /\ Least(FreeTuns) \in TunIds
  /\ FreeRecs # {} => Least(FreeRecs) \in FreeRecs /\ Least(FreeRecs) \in RecIds
<1>1. FreeTuns \subseteq TunIds /\ FreeRecs \subseteq RecIds
  BY DEF FreeTuns, FreeRecs
<1>2. FreeTuns \subseteq Nat /\ FreeRecs \subseteq Nat
  BY <1>1, CfDeployAssumption
<1>. QED
  BY <1>1, <1>2, LeastIsIn

\* The three ways a save changes the database.
WithTunnel(db, a, s) == [db EXCEPT !.tunnels[a] = s]
WithDns(db, h, d) == [db EXCEPT !.dns[h] = d]
WithActive(db, a) == [db EXCEPT !.active = a]

LEMMA WithTunnelSaves ==
  ASSUME NEW db \in Database, NEW a \in Accounts, NEW s \in SavedTun
  PROVE  /\ WithTunnel(db, a, s) \in Database
         /\ WithTunnel(db, a, s).dns = db.dns /\ WithTunnel(db, a, s).active = db.active
         /\ WithTunnel(db, a, s).tunnels[a] = s
         /\ \A b \in Accounts \ {a} : WithTunnel(db, a, s).tunnels[b] = db.tunnels[b]
  BY DEF WithTunnel, Database

LEMMA WithDnsSaves ==
  ASSUME NEW db \in Database, NEW h \in Hosts, NEW d \in SavedDns \cup {None}
  PROVE  /\ WithDns(db, h, d) \in Database
         /\ WithDns(db, h, d).tunnels = db.tunnels /\ WithDns(db, h, d).active = db.active
         /\ WithDns(db, h, d).dns[h] = d
         /\ \A g \in Hosts \ {h} : WithDns(db, h, d).dns[g] = db.dns[g]
  BY DEF WithDns, Database

LEMMA WithActiveSaves ==
  ASSUME NEW db \in Database, NEW a \in Active
  PROVE  /\ WithActive(db, a) \in Database
         /\ WithActive(db, a).tunnels = db.tunnels /\ WithActive(db, a).dns = db.dns
         /\ WithActive(db, a).active = a
  BY DEF WithActive, Database

LEMMA NoneIsAbsent ==
  /\ \A x \in SavedTun : x # None
  /\ \A x \in SavedDns : x # None
  /\ \A x \in Active : x # None
  /\ \A x \in Record : x # None
  BY NoneAssumption

LEMMA EmptyIsDatabase == Empty \in Database
  BY DEF Empty, Database

LEMMA NoRoutesIsRoute == NoRoutes \in Route
  BY DEF NoRoutes, Route

-----------------------------------------------------------------------------
(* Types *)

\* A run that ends leaves nothing behind but what it saved.
LEMMA QuitTypes ==
  ASSUME TypeOK, Quit, tunnels' \subseteq Tunnel, records' \subseteq Record, routes' \in [TunIds -> Route],
         disk' \in Database, token' \in TunIds \cup {None}, origin' \in Origins,
         fails' \in 0..MaxFails, UNCHANGED <<others, moves>>, adopted' \subseteq RecIds
  PROVE  TypeOK' /\ Holds'
<1>1. TypeOK'
  <2>1. mem' \in Database /\ config' \in Route
    BY EmptyIsDatabase, NoRoutesIsRoute DEF Quit
  <2>. QED
    BY <2>1 DEF TypeOK, Quit, Stages
<1>2. Holds'
  BY DEF Quit, Holds, HasTunnel, CleanStages
<1>. QED
  BY <1>1, <1>2

LEMMA InitTypes == Init => TypeOK /\ Holds
<1> SUFFICES ASSUME Init PROVE TypeOK /\ Holds
  OBVIOUS
<1>1. TypeOK
  BY EmptyIsDatabase, NoRoutesIsRoute, CfDeployAssumption DEF Init, TypeOK, Stages
<1>2. Holds
  BY DEF Init, Holds, HasTunnel, CleanStages
<1>. QED
  BY <1>1, <1>2

\* Looking before creating anything.
LEMMA LookTypes ==
  ASSUME TypeOK, Holds, (\E h \in Hosts : Deploy(h)) \/ ReadRecords
  PROVE  TypeOK' /\ Holds'
<1>1. TypeOK'
  BY DEF TypeOK, Deploy, ReadRecords, RecordsOf, Stages, cloud, budget
<1>2. Holds'
  BY DEF TypeOK, Holds, Deploy, ReadRecords, HasTunnel, CleanStages, cloud, budget
<1>. QED
  BY <1>1, <1>2

LEMMA QuitsTypes ==
  ASSUME TypeOK, Holds, Fail \/ Conflict \/ RestartFails \/ Verify
  PROVE  TypeOK' /\ Holds'
<1>1. Quit /\ UNCHANGED <<cloud, origin, others, moves, adopted>>
  BY DEF Fail, Conflict, RestartFails, Verify, budget
<1>2. disk' \in Database /\ token' \in TunIds \cup {None}
  BY DEF TypeOK, Fail, Conflict, RestartFails, Verify
<1>3. fails' \in 0..MaxFails
  BY CfDeployAssumption DEF TypeOK, Fail, Conflict, RestartFails, Verify, budget
<1>4. tunnels' \subseteq Tunnel /\ records' \subseteq Record /\ routes' \in [TunIds -> Route] /\ origin' \in Origins
      /\ adopted' \subseteq RecIds
  BY <1>1 DEF TypeOK, cloud
<1>. QED
  BY <1>1, <1>2, <1>3, <1>4, QuitTypes

LEMMA AccountIsAccount ==
  ASSUME TypeOK, Holds, pc # "idle"
  PROVE  Account \in Accounts /\ Saved \in SavedTun \cup {None}
  BY CfDeployAssumption DEF TypeOK, Holds, Account, Saved, Database

\* Each branch of ReadTunnels, with the tunnel and the record it has chosen.
LEMMA ReadTunnelsDoes ==
  ASSUME TypeOK, Holds, ReadTunnels
  PROVE  \/ Conflict
         \/ /\ TunnelsOf(Account) = {} /\ recs = {} /\ pc' = "intent"
            /\ UNCHANGED <<cloud, disk, token, origin, mem, local, budget>>
         \/ \E t \in tunnels :
              /\ TunnelsOf(Account) = {t} /\ t.id \in TunIds
              /\ disk' = disk \/ disk' = WithTunnel(mem, Account, [id |-> t.id, pending |-> FALSE])
              /\ UNCHANGED <<cloud, token, origin, budget>>
              /\ \/ Quit
                 \/ /\ pc' = "config" /\ tun' = t.id /\ mem' = disk'
                    /\ recs = IF rec' = None THEN {} ELSE {rec'}
                    /\ rec' \in recs \cup {None}
                    /\ rec' # None => rec'.type = "CNAME" /\ rec'.to = t.id
                    /\ UNCHANGED <<host, org, recs, config, prev, todo, cur>>
<1> DEFINE ts == TunnelsOf(Account)
<1>0. pc = "tunnel" /\ mem = disk
  BY DEF ReadTunnels, Holds, CleanStages
<1>1. ASSUME NEW t \in ts, ts = {t}
      PROVE  t \in tunnels /\ t.id \in TunIds /\ (CHOOSE x \in ts : TRUE) = t
  BY <1>1 DEF TunnelsOf, TypeOK, Tunnel
<1>2. ASSUME NEW t \in ts, ts = {t}, matching_dns(t.id),
             rec' = IF recs = {} THEN None ELSE CHOOSE r \in recs : TRUE
      PROVE  /\ recs = IF rec' = None THEN {} ELSE {rec'}
             /\ rec' \in recs \cup {None}
             /\ rec' # None => rec'.type = "CNAME" /\ rec'.to = t.id
  <2>1. \A r \in recs : r # None
    BY NoneAssumption DEF TypeOK
  <2>. QED
    BY <1>2, <2>1 DEF matching_dns
<1>3. ASSUME NEW t \in ts, ts = {t}, Usable(t), matching_dns(t.id),
             tun' = t.id,
             IF Saved.pending
               THEN Save([mem EXCEPT !.tunnels[Account] = [id |-> t.id, pending |-> FALSE]])
               ELSE UNCHANGED <<mem, disk>>
      PROVE  /\ mem' = disk'
             /\ disk' = disk \/ disk' = WithTunnel(mem, Account, [id |-> t.id, pending |-> FALSE])
  BY <1>0, <1>3 DEF Save, WithTunnel
<1>. QED
  <2>1. \/ Conflict
        \/ /\ ts = {} /\ recs = {} /\ pc' = "intent"
           /\ UNCHANGED <<cloud, disk, token, origin, mem, local, budget>>
        \/ \E t \in ts :
             /\ ts = {t} /\ Usable(t) /\ matching_dns(t.id)
             /\ tun' = t.id
             /\ IF Saved.pending
                  THEN Save([mem EXCEPT !.tunnels[Account] = [id |-> t.id, pending |-> FALSE]])
                  ELSE UNCHANGED <<mem, disk>>
             /\ rec' = (IF recs = {} THEN None ELSE CHOOSE r \in recs : TRUE)
             /\ pc' = "config"
             /\ UNCHANGED <<cloud, token, origin, host, org, recs, config, prev, todo, cur, budget>>
        \/ \E t \in ts :
             /\ ts = {t}
             /\ disk' = (IF Saved.pending
                          THEN [mem EXCEPT !.tunnels[Account] = [id |-> t.id, pending |-> FALSE]]
                          ELSE disk)
             /\ Quit /\ UNCHANGED <<cloud, token, origin, budget>>
    BY <1>1 DEF ReadTunnels
  <2>. QED
    BY <1>1, <1>2, <1>3, <2>1 DEF WithTunnel

LEMMA ReadTunnelsTypes ==
  ASSUME TypeOK, Holds, ReadTunnels
  PROVE  TypeOK' /\ Holds'
<1>0. pc = "tunnel" /\ mem = disk /\ Account \in Accounts
  BY AccountIsAccount DEF ReadTunnels, Holds, CleanStages
<1>1. CASE Conflict
  BY <1>1, QuitsTypes
<1>2. CASE pc' = "intent" /\ UNCHANGED <<cloud, disk, token, origin, mem, local, budget>>
  <2>1. TypeOK'
    BY <1>2 DEF TypeOK, cloud, local, budget, Stages
  <2>2. Holds'
    BY <1>0, <1>2 DEF Holds, local, HasTunnel, CleanStages
  <2>. QED
    BY <2>1, <2>2
<1>3. ASSUME NEW t \in tunnels, t.id \in TunIds,
             disk' = disk \/ disk' = WithTunnel(mem, Account, [id |-> t.id, pending |-> FALSE]),
             UNCHANGED <<cloud, token, origin, budget>>
      PROVE  /\ disk' \in Database
             /\ Quit => TypeOK' /\ Holds'
             /\ (/\ pc' = "config" /\ tun' = t.id /\ mem' = disk' /\ rec' \in recs \cup {None}
                 /\ UNCHANGED <<host, org, recs, config, prev, todo, cur>>) => TypeOK' /\ Holds'
  <2>1. disk' \in Database
    <3>1. mem \in Database /\ disk \in Database /\ [id |-> t.id, pending |-> FALSE] \in SavedTun
      BY <1>3 DEF TypeOK, SavedTun
    <3>. QED
      BY <1>0, <1>3, <3>1, WithTunnelSaves
  <2>2. ASSUME Quit PROVE TypeOK' /\ Holds'
    BY <1>3, <2>1, <2>2, QuitTypes DEF TypeOK, cloud, budget
  <2>3. ASSUME pc' = "config", tun' = t.id, mem' = disk', rec' \in recs \cup {None},
               UNCHANGED <<host, org, recs, config, prev, todo, cur>>
        PROVE  TypeOK' /\ Holds'
    <3>1. TypeOK'
      BY <1>3, <2>1, <2>3 DEF TypeOK, cloud, budget, Stages
    <3>2. Holds'
      BY <1>0, <1>3, <2>3 DEF Holds, HasTunnel, CleanStages
    <3>. QED
      BY <3>1, <3>2
  <2>. QED
    BY <2>1, <2>2, <2>3
<1>. QED
  BY <1>1, <1>2, <1>3, ReadTunnelsDoes

LEMMA MakeTunnelTypes ==
  ASSUME TypeOK, Holds, SaveTunnelIntent \/ PostTunnel \/ SaveTunnel
  PROVE  TypeOK' /\ Holds'
<1>0. Account \in Accounts /\ mem = disk /\ mem \in Database
  BY AccountIsAccount DEF SaveTunnelIntent, PostTunnel, SaveTunnel, Holds, CleanStages, TypeOK
<1>1. CASE SaveTunnelIntent \/ SaveTunnel
  <2>1. PICK s \in SavedTun : mem' = WithTunnel(mem, Account, s) /\ disk' = mem'
    BY <1>1 DEF SaveTunnelIntent, SaveTunnel, Save, WithTunnel, SavedTun, TypeOK
  <2>2. mem' \in Database /\ disk' \in Database
    BY <1>0, <2>1, WithTunnelSaves
  <2>3. TypeOK'
    BY <1>1, <2>2 DEF TypeOK, SaveTunnelIntent, SaveTunnel, cloud, local, budget, Stages
  <2>4. Holds'
    BY <1>1, <2>1 DEF Holds, SaveTunnelIntent, SaveTunnel, local, HasTunnel, CleanStages, Stages
  <2>. QED
    BY <2>3, <2>4
<1>2. CASE PostTunnel
  <2>1. Least(FreeTuns) \in TunIds
    BY <1>2, FreeIds DEF PostTunnel
  <2>2. [id |-> Least(FreeTuns), acc |-> Account, managed |-> TRUE, creator |-> "us"] \in Tunnel
    BY <1>0, <2>1 DEF Tunnel
  <2>3. TypeOK'
    BY <1>2, <2>1, <2>2, NoRoutesIsRoute DEF TypeOK, PostTunnel, budget, Stages
  <2>4. Holds'
    BY <1>2, <2>1 DEF Holds, PostTunnel, HasTunnel, CleanStages
  <2>. QED
    BY <2>3, <2>4
<1>. QED
  BY <1>1, <1>2

LEMMA ReadConfigTypes ==
  ASSUME TypeOK, Holds, ReadConfig
  PROVE  TypeOK' /\ Holds'
<1>0. tun \in TunIds /\ host \in Hosts /\ org \in Origins /\ mem = disk
  BY DEF ReadConfig, Holds, HasTunnel, CleanStages, Stages
<1>1. CASE Conflict
  BY <1>1, QuitsTypes
<1>2. CASE /\ config' = ingress_for(routes[tun]) /\ pc' = "dns"
           /\ UNCHANGED <<cloud, disk, token, origin, mem, host, org, recs, tun, rec, prev, todo, cur, budget>>
  <2>1. routes[tun] \in Route
    BY <1>0 DEF TypeOK
  <2>2. ingress_for(routes[tun]) \in Route
    BY <1>0, <2>1 DEF ingress_for, Route, Names
  <2>3. TypeOK'
    BY <1>2, <2>2 DEF TypeOK, cloud, budget, Stages
  <2>4. Holds'
    BY <1>0, <1>2 DEF Holds, HasTunnel, CleanStages
  <2>. QED
    BY <2>3, <2>4
<1>. QED
  BY <1>1, <1>2 DEF ReadConfig, Refused

\* The database after a record was adopted, or not.
LEMMA AdoptedIs ==
  ASSUME TypeOK, Holds, pc = "dns", rec # None
  PROVE  \/ Adopted = mem
         \/ \E d \in SavedDns :
              /\ Adopted = WithDns(mem, host, d)
              /\ mem.dns[host] # None /\ d.tun = mem.dns[host].tun
              /\ d.id = rec.id /\ ~d.pending
<1>0. host \in Hosts /\ mem.dns[host] \in SavedDns \cup {None} /\ rec.id \in RecIds
  BY DEF TypeOK, Holds, Database, Record
<1> DEFINE d == mem.dns[host]
<1>1. CASE d # None /\ d.pending /\ d.tun = tun
  <2> DEFINE e == [d EXCEPT !.id = rec.id, !.pending = FALSE]
  <2>1. e \in SavedDns /\ e.tun = d.tun /\ e.id = rec.id /\ ~e.pending
    BY <1>0, <1>1 DEF SavedDns
  <2>2. Adopted = WithDns(mem, host, e)
    BY <1>1 DEF Adopted, Intent, WithDns
  <2>. QED
    BY <1>1, <2>1, <2>2
<1>2. CASE ~(d # None /\ d.pending /\ d.tun = tun)
  BY <1>2 DEF Adopted, Intent
<1>. QED
  BY <1>1, <1>2

\* Each outcome of CheckDns.
LEMMA CheckDnsDoes ==
  ASSUME TypeOK, Holds, CheckDns
  PROVE  /\ mem = disk /\ disk' = Adopted /\ Adopted \in Database
         /\ Adopted.tunnels = disk.tunnels /\ Adopted.active = disk.active
         /\ UNCHANGED <<cloud, token, origin, fails, others, moves>>
         /\ adopted' = adopted \cup (IF Intent THEN {rec.id} ELSE {}) /\ rec.id \in RecIds
         /\ \/ Quit
            \/ /\ mem' = disk' /\ UNCHANGED local
               /\ pc' = IF rec.proxied THEN "put" ELSE "patch"
<1>0. mem = disk /\ host \in Hosts /\ mem \in Database /\ pc = "dns" /\ rec # None
  BY DEF CheckDns, Holds, CleanStages, TypeOK
<1>1. disk' = Adopted
  BY <1>0 DEF CheckDns
<1>2. Adopted \in Database /\ Adopted.tunnels = disk.tunnels /\ Adopted.active = disk.active
  BY <1>0, AdoptedIs, WithDnsSaves
<1>3. /\ UNCHANGED <<cloud, token, origin, fails, others, moves>>
      /\ adopted' = adopted \cup (IF Intent THEN {rec.id} ELSE {})
      /\ \/ Quit
         \/ /\ mem' = disk' /\ UNCHANGED local
            /\ pc' = IF rec.proxied THEN "put" ELSE "patch"
  BY <1>1 DEF CheckDns
<1>4. rec.id \in RecIds
  BY <1>0 DEF TypeOK, Record
<1>. QED
  BY <1>0, <1>1, <1>2, <1>3, <1>4

LEMMA CheckDnsTypes ==
  ASSUME TypeOK, Holds, CheckDns
  PROVE  TypeOK' /\ Holds'
<1>1. /\ disk' \in Database /\ UNCHANGED <<cloud, token, origin, fails, others, moves>>
      /\ adopted' \subseteq adopted \cup {rec.id} /\ rec.id \in RecIds
      /\ \/ Quit
         \/ /\ mem' = disk' /\ UNCHANGED local
            /\ pc' = IF rec.proxied THEN "put" ELSE "patch"
  BY CheckDnsDoes
<1>2. CASE Quit
  BY <1>1, <1>2, QuitTypes DEF TypeOK, cloud
<1>3. CASE mem' = disk' /\ UNCHANGED local /\ pc' \in {"put", "patch"}
  <2>1. TypeOK'
    BY <1>1, <1>3 DEF TypeOK, cloud, local, budget, Stages
  <2>2. rec # None /\ pc = "dns"
    BY DEF CheckDns
  <2>3. Holds'
    BY <1>1, <1>3, <2>2 DEF Holds, local, HasTunnel, CleanStages, Stages
  <2>. QED
    BY <2>1, <2>3
<1>. QED
  BY <1>1, <1>2, <1>3

LEMMA MakeRecordTypes ==
  ASSUME TypeOK, Holds, SaveDnsIntent \/ PostDns \/ SaveDns \/ PatchDns
  PROVE  TypeOK' /\ Holds'
<1>0. tun \in TunIds /\ host \in Hosts /\ mem = disk /\ mem \in Database
  BY DEF SaveDnsIntent, PostDns, SaveDns, PatchDns, Holds, HasTunnel, CleanStages, Stages, TypeOK
<1>1. CASE SaveDnsIntent \/ SaveDns
  <2>1. PICK d \in SavedDns : mem' = WithDns(mem, host, d) /\ disk' = mem'
    <3>1. CASE SaveDnsIntent
      BY <1>0, <3>1 DEF SaveDnsIntent, Save, WithDns, SavedDns
    <3>2. CASE SaveDns
      <4>1. rec.id \in RecIds
        BY <3>2 DEF SaveDns, Holds, TypeOK, Record
      <4>. QED
        BY <1>0, <3>2, <4>1 DEF SaveDns, Save, WithDns, SavedDns
    <3>. QED
      BY <1>1, <3>1, <3>2
  <2>2. mem' \in Database /\ disk' \in Database
    BY <1>0, <2>1, WithDnsSaves
  <2>3. TypeOK'
    BY <1>1, <2>2 DEF TypeOK, SaveDnsIntent, SaveDns, cloud, local, budget, Stages
  <2>4. Holds'
    BY <1>1, <2>1 DEF Holds, SaveDnsIntent, SaveDns, local, HasTunnel, CleanStages, Stages
  <2>. QED
    BY <2>3, <2>4
<1>2. CASE PostDns
  <2>1. CASE Conflict
    BY <2>1, QuitsTypes
  <2>2. CASE ~Conflict
    <3>1. Least(FreeRecs) \in RecIds
      BY <1>2, <2>2, FreeIds DEF PostDns, Refused
    <3>2. rec' \in Record /\ records' = records \cup {rec'} /\ rec' # None
      <4>1. /\ records' = records \cup {rec'}
            /\ rec' = [id |-> Least(FreeRecs), host |-> host, type |-> "CNAME", to |-> tun,
                       proxied |-> TRUE, creator |-> "us", edited |-> FALSE]
        BY <1>2, <2>2 DEF PostDns, Refused
      <4>2. rec' \in Record
        BY <1>0, <3>1, <4>1 DEF Record
      <4>. QED
        BY <4>1, <4>2, NoneAssumption
    <3>3. TypeOK'
      BY <1>2, <2>2, <3>2 DEF TypeOK, PostDns, Refused, budget, Stages
    <3>4. Holds'
      BY <1>2, <2>2, <3>2 DEF Holds, PostDns, Refused, HasTunnel, CleanStages, Stages
    <3>. QED
      BY <3>3, <3>4
  <2>. QED
    BY <2>1, <2>2
<1>3. CASE PatchDns
  <2>1. CASE Conflict
    BY <2>1, QuitsTypes
  <2>2. CASE ~Conflict
    <3>1. PICK r \in records : records' = (records \ {r}) \cup {[r EXCEPT !.proxied = TRUE]}
      BY <1>3, <2>2 DEF PatchDns, Refused
    <3>2. records' \subseteq Record
      BY <3>1 DEF TypeOK, Record
    <3>3. TypeOK'
      BY <1>3, <2>2, <3>2 DEF TypeOK, PatchDns, Refused, local, budget, Stages
    <3>4. Holds'
      BY <1>3, <2>2 DEF Holds, PatchDns, Refused, local, HasTunnel, CleanStages, Stages
    <3>. QED
      BY <3>3, <3>4
  <2>. QED
    BY <2>1, <2>2
<1>. QED
  BY <1>1, <1>2, <1>3

LEMMA GoLiveTypes ==
  ASSUME TypeOK, Holds, PutConfig \/ WriteToken \/ Restart \/ SaveActive
  PROVE  TypeOK' /\ Holds'
<1>0. tun \in TunIds /\ host \in Hosts /\ org \in Origins /\ mem = disk /\ mem \in Database
  BY DEF PutConfig, WriteToken, Restart, SaveActive, Holds, HasTunnel, CleanStages, Stages, TypeOK
<1>1. CASE PutConfig
  <2>1. CASE Conflict
    BY <2>1, QuitsTypes
  <2>2. CASE ~Conflict
    <3>1. TypeOK'
      BY <1>0, <1>1, <2>2 DEF TypeOK, PutConfig, Refused, local, budget, Stages
    <3>2. Holds'
      BY <1>1, <2>2 DEF Holds, PutConfig, Refused, local, HasTunnel, CleanStages, Stages
    <3>. QED
      BY <3>1, <3>2
  <2>. QED
    BY <2>1, <2>2
<1>2. CASE WriteToken \/ Restart
  <2>1. TypeOK'
    BY <1>0, <1>2 DEF TypeOK, WriteToken, Restart, cloud, local, budget, Stages
  <2>2. Holds'
    BY <1>2 DEF Holds, WriteToken, Restart, local, HasTunnel, CleanStages, Stages
  <2>. QED
    BY <2>1, <2>2
<1>3. CASE SaveActive
  <2> DEFINE a == [host |-> host, tun |-> tun, org |-> org]
  <2>1. a \in Active /\ mem' = WithActive(mem, a) /\ disk' = mem'
    BY <1>0, <1>3 DEF SaveActive, Save, WithActive, Active
  <2>2. mem' \in Database /\ disk' \in Database /\ mem'.dns = mem.dns
    BY <1>0, <2>1, WithActiveSaves
  <2>3. TypeOK'
    BY <1>3, <2>2 DEF TypeOK, SaveActive, Stale, cloud, budget, Stages
  <2>4. Holds'
    BY <1>3, <2>1, <2>2 DEF Holds, SaveActive, Stale, HasTunnel, CleanStages, Stages
  <2>. QED
    BY <2>3, <2>4
<1>. QED
  BY <1>1, <1>2, <1>3

\* What the cleanup leaves alone, and how it changes the database of the run.
CleanStep == CleanGet \/ CleanDelete \/ CleanFails \/ \E h \in Hosts : CleanLookup(h)

Forgets(h) == mem' = WithDns(mem, h, None) /\ todo' = todo \ {h} /\ pc' = "clean"
FindsId(h) ==
  /\ pc = "clean" /\ pc' = "clean_get"
  /\ \E r \in RecordsOf(h) :
       /\ [mem.dns[h] EXCEPT !.id = r.id] \in SavedDns
       /\ mem' = WithDns(mem, h, [mem.dns[h] EXCEPT !.id = r.id])
Moves(h) ==
  /\ mem' = mem
  /\ \/ pc = "clean" /\ pc' = "clean_get" /\ h \in todo /\ UNCHANGED <<todo, records>>
     \/ pc = "clean_get" /\ pc' = "clean_delete" /\ h = cur /\ UNCHANGED <<todo, records>>
     \/ pc' = "clean" /\ todo' = todo \ {h}

LEMMA CleanDoes ==
  ASSUME TypeOK, Holds, CleanStep
  PROVE  /\ UNCHANGED <<tunnels, routes, disk, token, origin, host, org, recs, tun, rec, config, prev>>
         /\ others' = others /\ moves' = moves /\ fails' \in 0..MaxFails
         /\ adopted \subseteq adopted' /\ adopted' \subseteq RecIds
         /\ pc \in {"clean", "clean_get", "clean_delete"} /\ pc' \in {"clean", "clean_get", "clean_delete"}
         /\ records' \subseteq records
         /\ todo' \subseteq todo /\ cur' \in Hosts /\ cur' # host /\ mem.dns[cur'] # None
         /\ Forgets(cur') \/ (FindsId(cur') /\ UNCHANGED records) \/ Moves(cur')
<1>1. ASSUME NEW h \in Hosts, CleanLookup(h)
      PROVE  /\ h # host /\ mem.dns[h] # None
             /\ adopted \subseteq adopted' /\ adopted' \subseteq RecIds
             /\ Forgets(h) \/ FindsId(h) \/ Moves(h)
  <2>0. adopted \subseteq RecIds
    BY DEF TypeOK
  <2>1. pc = "clean" /\ h \in todo /\ cur' = h
    BY <1>1 DEF CleanLookup
  <2>2. h # host /\ mem.dns[h] # None /\ mem.dns[h] \in SavedDns
    BY <2>1 DEF Holds, CleanStages, TypeOK, Database
  <2>3. CASE mem.dns[h].id # 0
    BY <1>1, <2>0, <2>1, <2>2, <2>3 DEF CleanLookup, Moves, cloud
  <2>4. CASE mem.dns[h].id = 0 /\ Cardinality(RecordsOf(h)) # 1
    BY <1>1, <2>0, <2>1, <2>2, <2>4 DEF CleanLookup, Forget, Forgets, Visited, WithDns
  <2>5. CASE mem.dns[h].id = 0 /\ Cardinality(RecordsOf(h)) = 1
    <3>1. PICK r \in RecordsOf(h) :
            /\ mem' = [mem EXCEPT !.dns[h].id = r.id]
            /\ adopted' = adopted \cup (IF mem.dns[h].pending THEN {r.id} ELSE {})
      BY <1>1, <2>5 DEF CleanLookup
    <3>2. r.id \in RecIds
      BY DEF TypeOK, RecordsOf, Record
    <3>3. [mem.dns[h] EXCEPT !.id = r.id] \in SavedDns
      BY <2>2, <3>2 DEF SavedDns
    <3>4. mem' = WithDns(mem, h, [mem.dns[h] EXCEPT !.id = r.id])
      BY <3>1 DEF WithDns
    <3>5. pc' = "clean_get"
      BY <1>1, <2>5 DEF CleanLookup
    <3>. QED
      BY <2>0, <2>1, <2>2, <3>1, <3>2, <3>3, <3>4, <3>5 DEF FindsId
  <2>. QED
    BY <2>2, <2>3, <2>4, <2>5
<1>2. CASE \E h \in Hosts : CleanLookup(h)
  <2>1. PICK h \in Hosts : CleanLookup(h)
    BY <1>2
  <2>2. /\ h # host /\ mem.dns[h] # None
        /\ adopted \subseteq adopted' /\ adopted' \subseteq RecIds
        /\ Forgets(h) \/ FindsId(h) \/ Moves(h)
    BY <1>1, <2>1
  <2>3. fails' \in 0..MaxFails
    BY <2>1 DEF CleanLookup, TypeOK
  <2>. QED
    BY <2>1, <2>2, <2>3 DEF CleanLookup, Visited, cloud
<1>3. CASE CleanGet
  <2>1. cur \in Hosts /\ cur # host /\ mem.dns[cur] # None
    BY <1>3 DEF CleanGet, Holds
  <2>2. Forgets(cur) \/ Moves(cur)
    BY <1>3 DEF CleanGet, Forgets, Moves, Forget, Visited, WithDns, cloud
  <2>. QED
    BY <1>3, <2>1, <2>2 DEF CleanGet, Visited, cloud, budget, TypeOK
<1>4. CASE CleanDelete
  <2>1. cur \in Hosts /\ cur # host /\ mem.dns[cur] # None
    BY <1>4 DEF CleanDelete, Holds
  <2>2. Forgets(cur) \/ Moves(cur)
    BY <1>4 DEF CleanDelete, Forgets, Moves, Forget, Visited, WithDns
  <2>. QED
    BY <1>4, <2>1, <2>2 DEF CleanDelete, Visited, budget, TypeOK
<1>5. CASE CleanFails
  <2>1. cur' \in Hosts /\ cur' # host /\ mem.dns[cur'] # None
    BY <1>5 DEF CleanFails, Holds, CleanStages, TypeOK
  <2>2. Moves(cur')
    BY <1>5 DEF CleanFails, Moves, Visited
  <2>3. fails' \in 0..MaxFails /\ adopted \subseteq RecIds
    BY <1>5, CfDeployAssumption DEF CleanFails, TypeOK
  <2>. QED
    BY <1>5, <2>1, <2>2, <2>3 DEF CleanFails, Visited
<1>. QED
  BY <1>2, <1>3, <1>4, <1>5 DEF CleanStep

\* What both databases then are.
LEMMA CleanSaves ==
  ASSUME TypeOK, Holds, CleanStep
  PROVE  /\ mem' \in Database /\ mem'.tunnels = mem.tunnels /\ mem'.active = mem.active
         /\ \A h \in Hosts \ {cur'} : mem'.dns[h] = mem.dns[h]
         /\ ~Forgets(cur') => mem'.dns[cur'] # None /\ mem'.dns[cur'].tun = mem.dns[cur'].tun
<1>0. cur' \in Hosts /\ mem \in Database /\ mem.dns[cur'] \in SavedDns
  BY CleanDoes DEF TypeOK, Database
<1>1. CASE Forgets(cur')
  BY <1>0, <1>1, WithDnsSaves DEF Forgets
<1>2. CASE FindsId(cur')
  <2>1. PICK r \in RecordsOf(cur') :
          /\ [mem.dns[cur'] EXCEPT !.id = r.id] \in SavedDns
          /\ mem' = WithDns(mem, cur', [mem.dns[cur'] EXCEPT !.id = r.id])
    BY <1>2 DEF FindsId
  <2> DEFINE e == [mem.dns[cur'] EXCEPT !.id = r.id]
  <2>2. e.tun = mem.dns[cur'].tun /\ e \in SavedDns /\ e # None /\ mem' = WithDns(mem, cur', e)
    BY <1>0, <2>1, NoneAssumption DEF SavedDns
  <2> HIDE DEF e
  <2>3. /\ mem' \in Database /\ mem'.tunnels = mem.tunnels /\ mem'.active = mem.active
        /\ \A h \in Hosts \ {cur'} : mem'.dns[h] = mem.dns[h]
        /\ mem'.dns[cur'] = e
    BY <1>0, <2>2, WithDnsSaves
  <2>. QED
    BY <2>2, <2>3
<1>3. CASE Moves(cur')
  BY <1>0, <1>3, NoneAssumption DEF Moves
<1>. QED
  BY <1>1, <1>2, <1>3, CleanDoes

LEMMA CleanTypes ==
  ASSUME TypeOK, Holds, CleanStep \/ Cleaned
  PROVE  TypeOK' /\ Holds'
<1>1. CASE Cleaned
  <2>1. TypeOK'
    BY <1>1 DEF Cleaned, TypeOK, cloud, local, budget, Stages
  <2>2. Holds'
    BY <1>1 DEF Cleaned, Holds, local, HasTunnel, CleanStages, Stages
  <2>. QED
    BY <2>1, <2>2
<1>2. CASE CleanStep
  <2>1. TypeOK'
    <3>1. mem' \in Database
      BY <1>2, CleanSaves
    <3>2. pc' \in Stages
      BY <1>2, CleanDoes DEF Stages
    <3>. QED
      BY <1>2, <3>1, <3>2, CleanDoes DEF TypeOK
  <2>2. /\ mem'.tunnels = disk'.tunnels /\ mem'.active = disk'.active
        /\ UNCHANGED <<host, org, tun>> /\ tun \in TunIds /\ host \in Hosts /\ org \in Origins
        /\ pc' \in CleanStages
    BY <1>2, CleanDoes, CleanSaves DEF Holds, CleanStages, HasTunnel, Stages
  <2>3. \A h \in todo' : h # host /\ mem'.dns[h] # None
    <3> SUFFICES ASSUME NEW h \in todo' PROVE h # host /\ mem'.dns[h] # None
      OBVIOUS
    <3>1. h \in todo /\ h \in Hosts /\ h # host /\ mem.dns[h] # None
      BY <1>2, CleanDoes DEF Holds, TypeOK, CleanStages
    <3>2. CASE h = cur'
      <4>1. ~Forgets(cur')
        BY <3>2 DEF Forgets
      <4>. QED
        BY <1>2, <3>1, <3>2, <4>1, CleanSaves
    <3>3. CASE h # cur'
      BY <1>2, <3>1, <3>3, CleanSaves
    <3>. QED
      BY <3>2, <3>3
  <2>4. pc' \in {"clean_get", "clean_delete"} => cur' \in Hosts /\ cur' # host /\ mem'.dns[cur'] # None
    <3>1. pc' \in {"clean_get", "clean_delete"} => ~Forgets(cur')
      BY DEF Forgets
    <3>. QED
      BY <1>2, <3>1, CleanDoes, CleanSaves
  <2>5. Holds'
    BY <2>2, <2>3, <2>4 DEF Holds, CleanStages
  <2>. QED
    BY <2>1, <2>5
<1>. QED
  BY <1>1, <1>2

\* Nobody outside touches the run or the database.
LEMMA OutsideTypes ==
  ASSUME TypeOK, Holds, Outside
  PROVE  TypeOK' /\ Holds'
<1>1. UNCHANGED <<disk, token, pc, mem, local, fails, adopted>>
  BY DEF Outside, OtherMakesTunnel, OtherDropsTunnel, OtherMakesRecord, OtherEditsRecord,
         OtherDropsRecord, OtherRoutes, OriginMoves, Other
<1>2. Holds'
  BY <1>1 DEF Holds, local
<1>3. others' \in 0..MaxOthers /\ moves' \in 0..MaxOrigins /\ origin' \in Origins
  <2>1. CASE OriginMoves
    BY <2>1, CfDeployAssumption DEF OriginMoves, TypeOK
  <2>2. CASE \E S : Other(S)
    BY <2>2, CfDeployAssumption DEF Other, TypeOK
  <2>. QED
    BY <2>1, <2>2 DEF Outside, OtherMakesTunnel, OtherDropsTunnel, OtherMakesRecord,
                      OtherEditsRecord, OtherDropsRecord, OtherRoutes
<1>4. tunnels' \subseteq Tunnel /\ records' \subseteq Record /\ routes' \in [TunIds -> Route]
  <2>1. CASE OtherMakesTunnel
    <3>1. PICK a \in Accounts, m \in BOOLEAN :
            /\ tunnels' = tunnels \cup {[id |-> Least(FreeTuns), acc |-> a, managed |-> m, creator |-> "other"]}
            /\ routes' = [routes EXCEPT ![Least(FreeTuns)] = NoRoutes]
      BY <2>1 DEF OtherMakesTunnel
    <3>2. Least(FreeTuns) \in TunIds
      BY <2>1, FreeIds DEF OtherMakesTunnel
    <3>3. [id |-> Least(FreeTuns), acc |-> a, managed |-> m, creator |-> "other"] \in Tunnel
      BY <3>2 DEF Tunnel
    <3>. QED
      BY <2>1, <3>1, <3>2, <3>3, NoRoutesIsRoute DEF TypeOK, OtherMakesTunnel, Other
  <2>2. CASE OtherDropsTunnel
    BY <2>2, NoRoutesIsRoute DEF TypeOK, OtherDropsTunnel, Other, Tunnel
  <2>3. CASE OtherMakesRecord
    <3>1. PICK h \in Hosts, to \in {t.id : t \in tunnels} \cup {Elsewhere},
               type \in {"CNAME", "A"}, p \in BOOLEAN :
            records' = records \cup {[id |-> Least(FreeRecs), host |-> h, type |-> type, to |-> to,
                                      proxied |-> p, creator |-> "other", edited |-> FALSE]}
      BY <2>3 DEF OtherMakesRecord
    <3>2. Least(FreeRecs) \in RecIds /\ to \in TunIds \cup {Elsewhere}
      BY <2>3, FreeIds DEF OtherMakesRecord, TypeOK, Tunnel
    <3>3. [id |-> Least(FreeRecs), host |-> h, type |-> type, to |-> to,
           proxied |-> p, creator |-> "other", edited |-> FALSE] \in Record
      BY <3>2 DEF Record
    <3>. QED
      BY <2>3, <3>1, <3>3 DEF TypeOK, OtherMakesRecord, Other
  <2>4. CASE OtherEditsRecord
    <3>1. PICK r \in records, to \in {t.id : t \in tunnels} \cup {Elsewhere}, p \in BOOLEAN :
            records' = (records \ {r}) \cup {[r EXCEPT !.to = to, !.proxied = p, !.edited = TRUE]}
      BY <2>4 DEF OtherEditsRecord
    <3>2. to \in TunIds \cup {Elsewhere} /\ r \in Record
      BY DEF TypeOK, Tunnel
    <3>3. [r EXCEPT !.to = to, !.proxied = p, !.edited = TRUE] \in Record
      BY <3>2 DEF Record
    <3>. QED
      BY <2>4, <3>1, <3>3 DEF TypeOK, OtherEditsRecord, Other
  <2>5. CASE OtherDropsRecord \/ OriginMoves
    BY <2>5 DEF TypeOK, OtherDropsRecord, OriginMoves, Other, cloud
  <2>6. CASE OtherRoutes
    <3>1. PICK t \in tunnels, n \in Names, x \in {Elsewhere, None} : routes' = [routes EXCEPT ![t.id][n] = x]
      BY <2>6 DEF OtherRoutes
    <3>2. t.id \in TunIds
      BY DEF TypeOK, Tunnel
    <3>3. routes' \in [TunIds -> Route]
      BY <3>1, <3>2 DEF TypeOK, Route
    <3>. QED
      BY <2>6, <3>3 DEF TypeOK, OtherRoutes, Other
  <2>. QED
    BY <2>1, <2>2, <2>3, <2>4, <2>5, <2>6 DEF Outside
<1>5. TypeOK'
  BY <1>1, <1>3, <1>4 DEF TypeOK, local
<1>. QED
  BY <1>2, <1>5

LEMMA TypesKept ==
  ASSUME TypeOK, Holds, Next
  PROVE  TypeOK' /\ Holds'
  BY LookTypes, QuitsTypes, ReadTunnelsTypes, MakeTunnelTypes, ReadConfigTypes, CheckDnsTypes,
     MakeRecordTypes, GoLiveTypes, CleanTypes, OutsideTypes
     DEF Next, User, Worker, Trouble, CleanStep

-----------------------------------------------------------------------------
(* Tunnels *)

\* A step that makes no tunnel of ours and keeps the saved ones.
LEMMA QuietTunnels ==
  ASSUME Remembered, tunnels' \subseteq tunnels, disk'.tunnels = disk.tunnels,
         pc' \notin {"intent", "post_tunnel", "save_tunnel"}
  PROVE  Remembered'
  BY DEF Remembered, NoOrphanTunnel, NoSecondTunnel

LEMMA ReadTunnelsRemembers ==
  ASSUME TypeOK, Holds, Remembered, ReadTunnels
  PROVE  Remembered'
<1>0. pc = "tunnel" /\ mem = disk /\ Account \in Accounts /\ disk \in Database
  BY AccountIsAccount DEF ReadTunnels, Holds, CleanStages, TypeOK
<1>1. CASE Conflict
  BY <1>1, QuietTunnels DEF Conflict, Quit, cloud
<1>2. CASE /\ TunnelsOf(Account) = {} /\ pc' = "intent"
           /\ UNCHANGED <<cloud, disk, token, origin, mem, local, budget>>
  <2>1. UNCHANGED <<tunnels, disk, host>> /\ Account' = Account
    BY <1>2 DEF cloud, local, Account
  <2>2. \A t \in tunnels : t.acc # Account
    BY <1>2 DEF TunnelsOf
  <2>. QED
    BY <1>2, <2>1, <2>2 DEF Remembered, NoOrphanTunnel, NoSecondTunnel
<1>3. ASSUME NEW t \in tunnels, TunnelsOf(Account) = {t}, t.id \in TunIds,
             disk' = disk \/ disk' = WithTunnel(mem, Account, [id |-> t.id, pending |-> FALSE]),
             UNCHANGED cloud, pc' \in {"config", "idle"}
      PROVE  Remembered'
  <2>1. UNCHANGED tunnels
    BY <1>3 DEF cloud
  <2>2. CASE disk' = disk
    BY <1>3, <2>1, <2>2, QuietTunnels
  <2>3. CASE disk' = WithTunnel(disk, Account, [id |-> t.id, pending |-> FALSE])
    <3> DEFINE s == [id |-> t.id, pending |-> FALSE]
    <3>0. s \in SavedTun /\ s.id = t.id
      BY <1>3 DEF SavedTun
    <3>1. s \in SavedTun /\ s # None /\ s.id = t.id
      BY <3>0, NoneIsAbsent
    <3> HIDE DEF s
    <3>2. /\ disk'.tunnels[Account] = s
          /\ \A b \in Accounts \ {Account} : disk'.tunnels[b] = disk.tunnels[b]
      BY <1>0, <2>3, <3>1, WithTunnelSaves DEF s
    <3>3. ASSUME NEW u \in tunnels, u.creator = "us"
          PROVE  LET x == disk'.tunnels[u.acc] IN x # None /\ (x.pending \/ x.id = u.id)
      <4>1. CASE u.acc = Account
        <5>1. u = t
          BY <1>3, <4>1 DEF TunnelsOf
        <5>. QED
          BY <3>1, <3>2, <4>1, <5>1
      <4>2. CASE u.acc # Account
        <5>1. u.acc \in Accounts
          BY DEF TypeOK, Tunnel
        <5>. QED
          BY <3>2, <3>3, <4>2, <5>1 DEF Remembered, NoOrphanTunnel
      <4>. QED
        BY <4>1, <4>2
    <3>. QED
      BY <1>3, <2>1, <3>3 DEF Remembered, NoOrphanTunnel, NoSecondTunnel
  <2>. QED
    BY <1>0, <1>3, <2>2, <2>3
<1>. QED
  BY <1>1, <1>2, <1>3, ReadTunnelsDoes DEF Quit

LEMMA MakeTunnelRemembers ==
  ASSUME TypeOK, Holds, Remembered, SaveTunnelIntent \/ PostTunnel \/ SaveTunnel
  PROVE  Remembered'
<1>0. Account \in Accounts /\ mem = disk /\ disk \in Database /\ UNCHANGED <<Account, host>>
  BY AccountIsAccount
     DEF SaveTunnelIntent, PostTunnel, SaveTunnel, Holds, CleanStages, TypeOK, local, Account
<1>1. CASE SaveTunnelIntent \/ SaveTunnel
  <2>1. PICK s \in SavedTun :
          /\ disk' = WithTunnel(disk, Account, s)
          /\ SaveTunnelIntent => s.pending
          /\ SaveTunnel => s.id = tun
    <3>1. CASE SaveTunnelIntent
      <4>1. [id |-> 0, pending |-> TRUE] \in SavedTun /\ [id |-> 0, pending |-> TRUE].pending
        BY DEF SavedTun
      <4>. QED
        BY <1>0, <3>1, <4>1 DEF SaveTunnelIntent, SaveTunnel, Save, WithTunnel
    <3>2. CASE SaveTunnel
      <4>1. [id |-> tun, pending |-> FALSE] \in SavedTun /\ [id |-> tun, pending |-> FALSE].id = tun
        BY DEF SavedTun, TypeOK
      <4>. QED
        BY <1>0, <3>2, <4>1 DEF SaveTunnelIntent, SaveTunnel, Save, WithTunnel
    <3>. QED
      BY <1>1, <3>1, <3>2
  <2>2. /\ disk'.tunnels[Account] = s /\ s # None
        /\ \A b \in Accounts \ {Account} : disk'.tunnels[b] = disk.tunnels[b]
    BY <1>0, <2>1, WithTunnelSaves, NoneAssumption
  <2>3. UNCHANGED <<tunnels, tun>>
    BY <1>1 DEF SaveTunnelIntent, SaveTunnel, cloud, local
  <2>4. ASSUME NEW u \in tunnels, u.creator = "us"
        PROVE  LET x == disk'.tunnels[u.acc] IN x # None /\ (x.pending \/ x.id = u.id)
    <3>1. CASE u.acc = Account
      BY <1>1, <2>1, <2>2, <2>4, <3>1 DEF Remembered, SaveTunnel
    <3>2. CASE u.acc # Account
      <4>1. u.acc \in Accounts
        BY DEF TypeOK, Tunnel
      <4>. QED
        BY <2>2, <2>4, <3>2, <4>1 DEF Remembered, NoOrphanTunnel
    <3>. QED
      BY <3>1, <3>2
  <2>5. NoOrphanTunnel' /\ NoSecondTunnel'
    BY <2>3, <2>4 DEF Remembered, NoOrphanTunnel, NoSecondTunnel
  <2>6. CASE SaveTunnelIntent
    BY <1>0, <2>1, <2>2, <2>3, <2>5, <2>6 DEF SaveTunnelIntent, Remembered
  <2>7. CASE SaveTunnel
    BY <2>5, <2>7 DEF SaveTunnel, Remembered
  <2>. QED
    BY <1>1, <2>6, <2>7
<1>2. CASE PostTunnel
  <2> DEFINE n == [id |-> Least(FreeTuns), acc |-> Account, managed |-> TRUE, creator |-> "us"]
  <2>1. /\ tunnels' = tunnels \cup {n} /\ n.acc = Account /\ n.id = tun'
        /\ pc = "post_tunnel" /\ pc' = "save_tunnel" /\ UNCHANGED disk
    BY <1>2 DEF PostTunnel
  <2> HIDE DEF n
  <2>. QED
    BY <1>0, <2>1 DEF Remembered, NoOrphanTunnel, NoSecondTunnel
<1>. QED
  BY <1>1, <1>2

LEMMA RememberedKept ==
  ASSUME TypeOK, Holds, Remembered, Next
  PROVE  Remembered'
<1>1. CASE ReadTunnels
  BY <1>1, ReadTunnelsRemembers
<1>2. CASE SaveTunnelIntent \/ PostTunnel \/ SaveTunnel
  BY <1>2, MakeTunnelRemembers
<1>3. CASE Fail \/ RestartFails \/ Verify
  <2>1. tunnels' = tunnels /\ disk'.tunnels = disk.tunnels /\ pc' = "idle"
    BY <1>3 DEF Fail, RestartFails, Verify, Quit, cloud, Holds, CleanStages
  <2>. QED
    BY <2>1, QuietTunnels
<1>4. CASE CheckDns
  <2>1. tunnels' = tunnels /\ disk'.tunnels = disk.tunnels /\ pc' \in {"idle", "put", "patch"}
    BY <1>4, CheckDnsDoes DEF Quit, cloud
  <2>. QED
    BY <2>1, QuietTunnels
<1>5. CASE CleanStep \/ Cleaned
  <2>1. tunnels' = tunnels /\ disk'.tunnels = disk.tunnels /\ pc' \in CleanStages
    BY <1>5, CleanDoes DEF Cleaned, cloud, CleanStages
  <2>. QED
    BY <2>1, QuietTunnels DEF CleanStages
<1>6. CASE SaveDnsIntent \/ SaveDns
  <2>1. mem = disk /\ mem \in Database
    BY <1>6 DEF SaveDnsIntent, SaveDns, Holds, TypeOK, CleanStages
  <2>2. tunnels' = tunnels /\ disk'.tunnels = disk.tunnels /\ pc' \in {"post_dns", "put"}
    BY <1>6, <2>1 DEF SaveDnsIntent, SaveDns, Save, cloud, Database
  <2>. QED
    BY <2>2, QuietTunnels
<1>7. CASE SaveActive
  <2>1. mem = disk /\ mem \in Database
    BY <1>7 DEF SaveActive, Holds, TypeOK, CleanStages
  <2>2. tunnels' = tunnels /\ disk'.tunnels = disk.tunnels /\ pc' = "clean"
    BY <1>7, <2>1 DEF SaveActive, Save, cloud, Database
  <2>. QED
    BY <2>2, QuietTunnels
<1>8. CASE \/ \E h \in Hosts : Deploy(h)
           \/ ReadRecords \/ ReadConfig \/ PostDns \/ PatchDns \/ PutConfig \/ WriteToken \/ Restart
  <2>1. tunnels' = tunnels /\ disk' = disk /\ pc' \notin {"intent", "post_tunnel", "save_tunnel"}
    BY <1>8 DEF Deploy, ReadRecords, ReadConfig, PostDns, PatchDns, PutConfig, WriteToken, Restart,
                Refused, Conflict, Quit, cloud
  <2>. QED
    BY <2>1, QuietTunnels
<1>9. CASE Outside
  <2>1. UNCHANGED <<disk, pc, host, tun>> /\ Account' = Account
    BY <1>9 DEF Outside, OtherMakesTunnel, OtherDropsTunnel, OtherMakesRecord, OtherEditsRecord,
                OtherDropsRecord, OtherRoutes, OriginMoves, Other, local, Account
  <2>2. \A t \in tunnels' : t.creator = "us" => t \in tunnels
    <3>1. CASE OtherMakesTunnel
      BY <3>1 DEF OtherMakesTunnel
    <3>2. CASE OtherDropsTunnel
      BY <3>2 DEF OtherDropsTunnel
    <3>3. CASE OtherMakesRecord \/ OtherEditsRecord \/ OtherDropsRecord \/ OtherRoutes \/ OriginMoves
      BY <3>3 DEF OtherMakesRecord, OtherEditsRecord, OtherDropsRecord, OtherRoutes, OriginMoves, Other, cloud
    <3>. QED
      BY <1>9, <3>1, <3>2, <3>3 DEF Outside
  <2>. QED
    BY <2>1, <2>2 DEF Remembered, NoOrphanTunnel, NoSecondTunnel
<1>. QED
  BY <1>1, <1>2, <1>3, <1>4, <1>5, <1>6, <1>7, <1>8, <1>9 DEF Next, User, Worker, Trouble, CleanStep

-----------------------------------------------------------------------------
(* Records: apart from each other *)

\* A record that is changed keeps its id, its name and its maker.
Changed(r, q) == q.id = r.id /\ q.host = r.host /\ q.type = r.type /\ q.creator = r.creator

LEMMA ChangeKeepsApart ==
  ASSUME RecordsApart, NEW r \in records, NEW q, Changed(r, q), records' = (records \ {r}) \cup {q}
  PROVE  RecordsApart'
<1>1. ASSUME NEW a \in records', NEW b \in records', a.id = b.id PROVE a = b
  BY <1>1 DEF RecordsApart, Changed
<1>2. ASSUME NEW a \in records', NEW b \in records', a.host = b.host, a.type = "CNAME" PROVE a = b
  BY <1>2 DEF RecordsApart, Changed
<1>3. ASSUME NEW a \in records', a.creator = "us" PROVE a.type = "CNAME"
  BY <1>3 DEF RecordsApart, Changed
<1>. QED
  BY <1>1, <1>2, <1>3 DEF RecordsApart

\* A new record has an id of its own, and a name of its own if one of them is
\* a CNAME.
LEMMA NewKeepsApart ==
  ASSUME RecordsApart, NEW n, records' = records \cup {n},
         \A r \in records : r.id # n.id,
         \A r \in records : r.host = n.host => r.type # "CNAME" /\ n.type # "CNAME",
         n.creator = "us" => n.type = "CNAME"
  PROVE  RecordsApart'
  BY DEF RecordsApart

LEMMA PostDnsDoes ==
  ASSUME PostDns, ~Conflict
  PROVE  /\ rec' = [id |-> Least(FreeRecs), host |-> host, type |-> "CNAME", to |-> tun,
                    proxied |-> TRUE, creator |-> "us", edited |-> FALSE]
         /\ records' = records \cup {rec'} /\ RecordsOf(host) = {}
         /\ \A r \in records : r.id # Least(FreeRecs)
         /\ pc = "post_dns" /\ pc' = "save_dns"
         /\ UNCHANGED <<tunnels, routes, disk, token, mem, host, org, tun, config, prev, others>>
<1>1. /\ rec' = [id |-> Least(FreeRecs), host |-> host, type |-> "CNAME", to |-> tun,
                    proxied |-> TRUE, creator |-> "us", edited |-> FALSE]
      /\ records' = records \cup {rec'} /\ RecordsOf(host) = {} /\ FreeRecs # {}
      /\ pc = "post_dns" /\ pc' = "save_dns"
      /\ UNCHANGED <<tunnels, routes, disk, token, mem, host, org, tun, config, prev, others>>
  BY DEF PostDns, Refused, budget
<1>2. Least(FreeRecs) \in FreeRecs
  BY <1>1, FreeIds
<1>3. \A r \in records : r.id # Least(FreeRecs)
  BY <1>2 DEF FreeRecs
<1>. QED
  BY <1>1, <1>3

\* What others may do to the records: edit one, and note that, or make one
\* with an id that nobody uses.
LEMMA OutsideDoes ==
  ASSUME TypeOK, RecordsApart, Outside
  PROVE  /\ UNCHANGED <<disk, token, pc, mem, local, adopted>>
         /\ RecordsApart'
         /\ \A r \in records' : r.creator = "us" =>
              \E q \in records : Changed(q, r) /\ (~r.edited => q = r)
         /\ \A r \in records' : r.id \in FreeRecs \/
              \E q \in records : Changed(q, r) /\ (~r.edited => q = r)
         /\ records' # records \/ tunnels' # tunnels \/ routes' # routes => others' = others + 1
         /\ others' \in {others, others + 1}
<1>1. /\ UNCHANGED <<disk, token, pc, mem, local, adopted>> /\ others' \in {others, others + 1}
      /\ records' # records \/ tunnels' # tunnels \/ routes' # routes => others' = others + 1
  BY DEF Outside, OtherMakesTunnel, OtherDropsTunnel, OtherMakesRecord, OtherEditsRecord,
         OtherDropsRecord, OtherRoutes, OriginMoves, Other, cloud
<1>2. CASE OtherMakesRecord
  <2>1. PICK h \in Hosts, to \in {t.id : t \in tunnels} \cup {Elsewhere},
             type \in {"CNAME", "A"}, p \in BOOLEAN :
          /\ type = "A" => \A x \in RecordsOf(h) : x.type = "A"
          /\ type = "CNAME" => RecordsOf(h) = {}
          /\ records' = records \cup {[id |-> Least(FreeRecs), host |-> h, type |-> type, to |-> to,
                                      proxied |-> p, creator |-> "other", edited |-> FALSE]}
    BY <1>2 DEF OtherMakesRecord
  <2> DEFINE n == [id |-> Least(FreeRecs), host |-> h, type |-> type, to |-> to,
                   proxied |-> p, creator |-> "other", edited |-> FALSE]
  <2>2. /\ n.id = Least(FreeRecs) /\ n.creator = "other" /\ n.host = h /\ n.type = type
        /\ records' = records \cup {n}
    BY <2>1
  <2> HIDE DEF n
  <2>3. n.id \in FreeRecs
    BY <1>2, <2>2, FreeIds DEF OtherMakesRecord
  <2>4. \A r \in records : r.id # n.id
    BY <2>3 DEF FreeRecs
  <2>5. \A r \in records : r.host = n.host => r.type # "CNAME" /\ n.type # "CNAME"
    BY <2>1, <2>2 DEF RecordsOf
  <2>6. RecordsApart'
    BY <2>2, <2>4, <2>5, NewKeepsApart
  <2>. QED
    BY <1>1, <2>2, <2>3, <2>6 DEF Changed
<1>3. CASE OtherEditsRecord
  <2>1. PICK r \in records, to \in {t.id : t \in tunnels} \cup {Elsewhere}, p \in BOOLEAN :
          records' = (records \ {r}) \cup {[r EXCEPT !.to = to, !.proxied = p, !.edited = TRUE]}
    BY <1>3 DEF OtherEditsRecord
  <2> DEFINE q == [r EXCEPT !.to = to, !.proxied = p, !.edited = TRUE]
  <2>2. Changed(r, q) /\ q.edited /\ records' = (records \ {r}) \cup {q}
    BY <2>1 DEF TypeOK, Record, Changed
  <2> HIDE DEF q
  <2>3. RecordsApart'
    BY <2>2, ChangeKeepsApart
  <2>. QED
    BY <1>1, <2>2, <2>3 DEF Changed
<1>4. CASE records' \subseteq records
  BY <1>1, <1>4 DEF RecordsApart, Changed
<1>. QED
  BY <1>2, <1>3, <1>4
     DEF Outside, OtherMakesTunnel, OtherDropsTunnel, OtherDropsRecord, OtherRoutes, OriginMoves, Other, cloud

\* PATCH turns the proxy on and nothing else.
LEMMA PatchDnsDoes ==
  ASSUME TypeOK, PatchDns, ~Conflict
  PROVE  /\ UNCHANGED <<tunnels, routes, disk, token, mem, local, others>> /\ pc = "patch" /\ pc' = "put"
         /\ \E r \in records : \E q :
              /\ records' = (records \ {r}) \cup {q} /\ Changed(r, q)
              /\ q.to = r.to /\ q.edited = r.edited /\ q.proxied
<1>1. PICK r \in records : records' = (records \ {r}) \cup {[r EXCEPT !.proxied = TRUE]}
  BY DEF PatchDns, Refused
<1> DEFINE q == [r EXCEPT !.proxied = TRUE]
<1>2. Changed(r, q) /\ q.to = r.to /\ q.edited = r.edited /\ q.proxied
  BY DEF TypeOK, Record, Changed
<1>3. UNCHANGED <<tunnels, routes, disk, token, mem, local, others>> /\ pc = "patch" /\ pc' = "put"
  BY DEF PatchDns, Refused, budget
<1>. QED
  BY <1>1, <1>2, <1>3

\* The steps of the worker and its failures that leave the records alone.
Calm ==
  \/ \E h \in Hosts : Deploy(h)
  \/ ReadRecords \/ ReadTunnels \/ SaveTunnelIntent \/ PostTunnel \/ SaveTunnel \/ ReadConfig
  \/ CheckDns \/ SaveDnsIntent \/ SaveDns \/ PutConfig \/ WriteToken \/ Restart \/ SaveActive
  \/ Cleaned \/ Verify \/ Fail \/ RestartFails \/ Conflict

LEMMA CalmRecords == ASSUME Calm PROVE records' = records /\ others' = others
<1>1. CASE ReadTunnels
  BY <1>1 DEF ReadTunnels, Conflict, cloud, budget
<1>. QED
  BY <1>1 DEF Calm, Deploy, ReadRecords, SaveTunnelIntent, PostTunnel, SaveTunnel, ReadConfig,
         CheckDns, SaveDnsIntent, SaveDns, PutConfig, WriteToken, Restart, SaveActive, Cleaned, Verify, Fail,
         RestartFails, Refused, Conflict, cloud, budget

LEMMA NextCases ==
  ASSUME Next
  PROVE  Calm \/ (PostDns /\ ~Conflict) \/ (PatchDns /\ ~Conflict) \/ CleanStep \/ Outside
  BY DEF Next, User, Worker, Trouble, Calm, CleanStep

LEMMA ApartKept ==
  ASSUME TypeOK, Holds, RecordsApart, Next
  PROVE  RecordsApart'
<1>1. CASE Calm
  BY <1>1, CalmRecords DEF RecordsApart
<1>2. CASE PostDns /\ ~Conflict
  BY <1>2, PostDnsDoes, NewKeepsApart DEF RecordsOf
<1>3. CASE PatchDns /\ ~Conflict
  BY <1>3, PatchDnsDoes, ChangeKeepsApart
<1>4. CASE CleanStep
  BY <1>4, CleanDoes DEF RecordsApart
<1>5. CASE Outside
  BY <1>5, OutsideDoes
<1>. QED
  BY <1>1, <1>2, <1>3, <1>4, <1>5, NextCases

-----------------------------------------------------------------------------
(* Records: what the run has read *)

LEMMA ReadKept ==
  ASSUME TypeOK, Holds, RecordsApart, Read, Next
  PROVE  Read'
<1> DEFINE Kept == {"idle", "records", "patch", "put", "token", "restart", "save_active"} \cup CleanStages
<1>0. ASSUME pc' \in Kept, pc' \in {"idle", "records"} => rec' = None PROVE Read'
  BY <1>0 DEF Read, CleanStages
<1>1. CASE Quit
  BY <1>0, <1>1 DEF Quit
<1>2. CASE \E h \in Hosts : Deploy(h)
  BY <1>0, <1>2 DEF Deploy, Read
<1>3. CASE ReadRecords
  BY <1>3 DEF ReadRecords, Read, RecordsOf, cloud
<1>4. CASE ReadTunnels /\ ~Quit
  <2>1. pc = "tunnel" /\ UNCHANGED <<records, host, recs>>
    BY <1>4, ReadTunnelsDoes DEF ReadTunnels, cloud, local, Conflict
  <2>2. \/ pc' = "intent" /\ rec' = rec /\ recs = {}
        \/ pc' = "config" /\ recs = IF rec' = None THEN {} ELSE {rec'}
    BY <1>4, ReadTunnelsDoes DEF local, Conflict
  <2>. QED
    BY <2>1, <2>2 DEF Read
<1>5. CASE SaveTunnelIntent \/ PostTunnel \/ SaveTunnel
  <2>1. /\ pc \in {"intent", "post_tunnel", "save_tunnel"} /\ pc' \in {"post_tunnel", "save_tunnel", "config"}
        /\ UNCHANGED <<records, host, recs, rec>>
    BY <1>5 DEF SaveTunnelIntent, PostTunnel, SaveTunnel, cloud, local
  <2>. QED
    BY <2>1 DEF Read
<1>6. CASE ReadConfig /\ ~Quit
  <2>1. pc = "config" /\ pc' = "dns" /\ UNCHANGED <<records, host, recs, rec>>
    BY <1>6 DEF ReadConfig, Refused, Conflict, cloud
  <2>. QED
    BY <2>1 DEF Read
<1>7. CASE CheckDns /\ ~Quit
  <2>1. pc' \in {"put", "patch"}
    BY <1>7, CheckDnsDoes
  <2>. QED
    BY <1>0, <2>1
<1>8. CASE SaveDnsIntent
  <2>1. /\ pc = "dns" /\ rec = None /\ pc' = "post_dns" /\ UNCHANGED <<records, host, tun>>
        /\ mem = disk /\ mem \in Database /\ host \in Hosts /\ tun \in TunIds
    BY <1>8 DEF SaveDnsIntent, cloud, local, Holds, TypeOK, CleanStages, HasTunnel, Stages
  <2>2. disk'.dns[host] = [id |-> 0, tun |-> tun, pending |-> TRUE]
    BY <1>8, <2>1 DEF SaveDnsIntent, Save, Database
  <2>3. \A r \in records : r.host = host => r.creator # "us"
    BY <2>1 DEF Read
  <2>. QED
    BY <2>1, <2>2, <2>3 DEF Read
<1>9. CASE PostDns /\ ~Conflict
  <2>1. /\ pc = "post_dns" /\ pc' = "save_dns" /\ UNCHANGED <<host, tun, disk>>
        /\ records' = records \cup {rec'} /\ RecordsOf(host) = {}
    BY <1>9, PostDnsDoes
  <2>. QED
    BY <2>1 DEF Read, RecordsOf
<1>10. CASE SaveDns \/ PutConfig \/ WriteToken \/ Restart \/ SaveActive \/ Cleaned \/ PatchDns
  <2>1. Quit \/ pc' \in Kept \ {"idle", "records"}
    BY <1>10 DEF SaveDns, PutConfig, WriteToken, Restart, SaveActive, Cleaned, PatchDns, Refused, Conflict,
                 CleanStages
  <2>. QED
    BY <1>0, <1>1, <2>1
<1>11. CASE CleanStep
  <2>1. pc' \in CleanStages
    BY <1>11, CleanDoes DEF CleanStages
  <2>. QED
    BY <1>0, <2>1 DEF CleanStages
<1>12. CASE Outside
  <2>1. /\ UNCHANGED <<pc, disk, host, tun, rec, recs>>
        /\ \A r \in records' : r.creator = "us" => \E q \in records : Changed(q, r)
    BY <1>12, OutsideDoes DEF local
  <2>2. ASSUME NEW r \in records', r.creator = "us"
        PROVE  \E q \in records : q.creator = "us" /\ q.host = r.host /\ q.id = r.id
    BY <2>1, <2>2 DEF Changed
  <2>. QED
    BY <2>1, <2>2 DEF Read
<1>13. CASE Verify \/ Fail \/ RestartFails \/ Conflict
  BY <1>1, <1>13 DEF Verify, Fail, RestartFails, Conflict
<1>. QED
  BY <1>1, <1>2, <1>3, <1>4, <1>5, <1>6, <1>7, <1>8, <1>9, <1>10, <1>11, <1>12, <1>13, NextCases DEF Calm

-----------------------------------------------------------------------------
(* Records: known to both databases *)

\* A step that makes no record of ours and keeps the entries.
LEMMA QuietKnown ==
  ASSUME Known, disk'.dns = disk.dns,
         pc' # "idle" => mem'.dns = disk.dns \/ (pc # "idle" /\ mem'.dns = mem.dns),
         \A r \in records' : Ours(r) =>
            \E q \in records : Ours(q) /\ q.id = r.id /\ q.host = r.host /\ q.to = r.to
  PROVE  Known'
  BY DEF Known, Knows

\* An entry is replaced by one that knows every record of ours of that name.
LEMMA SavedKnown ==
  ASSUME Known, mem = disk, disk \in Database, records \subseteq Record,
         NEW h \in Hosts, NEW d \in SavedDns, disk' = WithDns(disk, h, d), UNCHANGED records,
         pc' # "idle" => mem' = disk',
         \A r \in records : Ours(r) /\ r.host = h => d.tun = r.to /\ d.id = r.id
  PROVE  Known'
<1>1. disk'.dns[h] = d /\ d # None /\ \A g \in Hosts \ {h} : disk'.dns[g] = disk.dns[g]
  BY WithDnsSaves, NoneIsAbsent
<1>2. ASSUME NEW r \in records, Ours(r) PROVE Knows(disk', r)
  <2>1. r.host \in Hosts
    BY DEF Record
  <2>2. CASE r.host = h
    BY <1>1, <1>2, <2>2 DEF Knows
  <2>3. CASE r.host # h
    BY <1>1, <1>2, <2>1, <2>3 DEF Known, Knows
  <2>. QED
    BY <2>2, <2>3
<1>. QED
  BY <1>2 DEF Known, Ours

\* The cleanup forgets an entry only when no record of ours is left for it.
LEMMA CleanKnown ==
  ASSUME TypeOK, Holds, RecordsApart, Known, CleanStep
  PROVE  Known'
<1>0. /\ cur' \in Hosts /\ mem.dns[cur'] \in SavedDns /\ records' \subseteq records /\ UNCHANGED disk
      /\ pc # "idle"
  BY CleanDoes DEF TypeOK, Database
<1>1. \A r \in records : r.id \in Nat /\ r.id # 0 /\ r.host \in Hosts
  BY CfDeployAssumption DEF TypeOK, Record
<1>2. ASSUME NEW r \in records', Ours(r), r.host = cur'
      PROVE  Knows(mem', r)
  <2>0. r \in records /\ r.type = "CNAME" /\ Knows(mem, r) /\ r.id # 0
    BY <1>0, <1>1, <1>2 DEF Known, RecordsApart, Ours
  <2>1. CASE mem' = mem
    BY <2>0, <2>1
  <2>2. CASE FindsId(cur')
    <3>1. PICK q \in RecordsOf(cur') :
            /\ [mem.dns[cur'] EXCEPT !.id = q.id] \in SavedDns
            /\ mem' = WithDns(mem, cur', [mem.dns[cur'] EXCEPT !.id = q.id])
      BY <2>2 DEF FindsId
    <3>2. q = r
      BY <1>2, <2>0 DEF RecordsOf, RecordsApart
    <3> DEFINE e == [mem.dns[cur'] EXCEPT !.id = q.id]
    <3>3. e \in SavedDns /\ e # None /\ e.id = r.id /\ e.tun = mem.dns[cur'].tun
      <4>1. e \in SavedDns /\ e.id = r.id /\ e.tun = mem.dns[cur'].tun
        BY <1>0, <3>1, <3>2 DEF SavedDns
      <4>. QED
        BY <4>1, NoneIsAbsent
    <3>4. mem'.dns[cur'] = e
      <4>1. mem' = WithDns(mem, cur', e) /\ mem \in Database
        BY <3>1 DEF TypeOK
      <4> HIDE DEF e
      <4>. QED
        BY <1>0, <3>3, <4>1, WithDnsSaves
    <3> HIDE DEF e
    <3>. QED
      BY <1>2, <2>0, <3>3, <3>4 DEF Knows
  <2>3. CASE mem' # mem /\ ~FindsId(cur')
    <3>1. CASE CleanFails
      BY <2>3, <3>1 DEF CleanFails
    <3>2. CASE \E h \in Hosts : CleanLookup(h)
      <4>1. Cardinality(RecordsOf(cur')) # 1
        <5>1. CleanLookup(cur')
          BY <3>2 DEF CleanLookup
        <5>2. Forgets(cur')
          BY <2>3, CleanDoes DEF Moves
        <5>. QED
          BY <2>3, <5>1, <5>2 DEF CleanLookup, Forgets
      <4>2. RecordsOf(cur') = {r}
        BY <1>2, <2>0 DEF RecordsOf, RecordsApart
      <4>. QED
        BY <4>1, <4>2, FS_Singleton
    <3>3. CASE CleanGet
      <4>1. PICK q \in records : q.id = mem.dns[cur].id /\ ~StillOurs(q)
        BY <2>3, <3>3 DEF CleanGet
      <4>2. cur' = cur /\ r.id = mem.dns[cur].id
        BY <1>1, <1>2, <2>0, <3>3, <4>1 DEF CleanGet, Knows
      <4>3. q = r
        BY <2>0, <4>1, <4>2 DEF RecordsApart
      <4>. QED
        BY <1>2, <2>0, <4>1, <4>2, <4>3 DEF StillOurs, Knows
    <3>4. CASE CleanDelete
      <4>1. cur' = cur /\ records' # records /\ records' = {q \in records : q.id # mem.dns[cur].id}
        BY <2>3, <3>4 DEF CleanDelete
      <4>2. PICK q \in records : q.id = mem.dns[cur].id
        BY <4>1
      <4>3. r.id # mem.dns[cur].id
        BY <1>2, <4>1
      <4>. QED
        BY <1>1, <1>2, <2>0, <4>1, <4>2, <4>3 DEF Knows
    <3>. QED
      BY <3>1, <3>2, <3>3, <3>4 DEF CleanStep
  <2>. QED
    BY <2>1, <2>2, <2>3
<1>3. ASSUME NEW r \in records', Ours(r), r.host # cur'
      PROVE  Knows(mem', r)
  <2>1. mem'.dns[r.host] = mem.dns[r.host]
    BY <1>0, <1>1, <1>3, CleanSaves
  <2>. QED
    BY <1>0, <1>3, <2>1 DEF Known, Knows
<1>4. \A r \in records' : Ours(r) => Knows(disk', r)
  BY <1>0 DEF Known
<1>. QED
  BY <1>2, <1>3, <1>4 DEF Known, Ours

LEMMA KnownKept ==
  ASSUME TypeOK, Holds, RecordsApart, Read, Known, Next
  PROVE  Known'
<1>0. mem \in Database /\ disk \in Database /\ records \subseteq Record /\ (pc # "idle" => host \in Hosts)
  BY DEF TypeOK, Holds
<1>1. CASE Quit /\ UNCHANGED <<records, disk>>
  BY <1>1, QuietKnown DEF Quit
<1>2. CASE Verify
  BY <1>2 DEF Verify, Quit, cloud, Known, Ours
<1>3. CASE \E h \in Hosts : Deploy(h)
  BY <1>3, QuietKnown DEF Deploy, cloud
<1>4. CASE ReadTunnels
  <2>1. records' = records /\ pc # "idle" /\ mem = disk
    BY <1>4, ReadTunnelsDoes DEF cloud, Conflict, ReadTunnels, Holds, CleanStages
  <2>2. ASSUME NEW i \in TunIds
        PROVE  WithTunnel(mem, Account, [id |-> i, pending |-> FALSE]).dns = mem.dns
    <3>1. [id |-> i, pending |-> FALSE] \in SavedTun /\ Account \in Accounts
      BY <2>1, AccountIsAccount DEF SavedTun
    <3>. QED
      BY <1>0, <3>1, WithTunnelSaves
  <2>3. disk'.dns = disk.dns /\ (pc' # "idle" => mem'.dns = disk.dns)
    BY <1>4, <2>1, <2>2, ReadTunnelsDoes DEF Conflict, Quit
  <2>. QED
    BY <2>1, <2>3, QuietKnown
<1>5. CASE SaveTunnelIntent \/ SaveTunnel \/ SaveActive
  <2>1. mem = disk /\ pc # "idle" /\ records' = records
    BY <1>5 DEF SaveTunnelIntent, SaveTunnel, SaveActive, Holds, CleanStages, cloud
  <2>2. mem'.dns = mem.dns /\ disk'.dns = disk.dns
    BY <1>0, <1>5, <2>1 DEF SaveTunnelIntent, SaveTunnel, SaveActive, Save, Database
  <2>. QED
    BY <2>1, <2>2, QuietKnown
<1>6. CASE \/ ReadRecords \/ PostTunnel \/ (ReadConfig /\ ~Quit) \/ (PutConfig /\ ~Quit)
           \/ WriteToken \/ Restart \/ Cleaned
  <2>1. UNCHANGED <<records, disk, mem>> /\ pc # "idle"
    BY <1>6 DEF ReadRecords, PostTunnel, ReadConfig, PutConfig, WriteToken, Restart, Cleaned, Refused,
                Conflict, cloud
  <2>. QED
    BY <2>1, QuietKnown
<1>7. CASE CheckDns
  <2>1. /\ pc = "dns" /\ rec # None /\ mem = disk /\ disk' = Adopted /\ records' = records
        /\ pc' # "idle" => mem' = disk'
    BY <1>7, CheckDnsDoes DEF CheckDns, Quit, cloud
  <2>2. CASE Adopted = mem
    BY <2>1, <2>2, QuietKnown
  <2>3. CASE Adopted # mem
    <3>1. PICK d \in SavedDns : /\ Adopted = WithDns(mem, host, d) /\ d.tun = mem.dns[host].tun
                                /\ d.id = rec.id
      BY <2>1, <2>3, AdoptedIs
    <3>2. ASSUME NEW r \in records, Ours(r), r.host = host PROVE d.tun = r.to /\ d.id = r.id
      <4>1. Knows(disk, r)
        BY <3>2 DEF Known
      <4>2. r.id = rec.id
        BY <2>1, <3>2 DEF Read, Ours
      <4>. QED
        BY <2>1, <3>1, <3>2, <4>1, <4>2 DEF Knows
    <3>. QED
      BY <1>0, <2>1, <3>1, <3>2, SavedKnown
  <2>. QED
    BY <2>2, <2>3
<1>8. CASE SaveDnsIntent
  <2> DEFINE d == [id |-> 0, tun |-> tun, pending |-> TRUE]
  <2>1. /\ mem = disk /\ pc = "dns" /\ rec = None /\ tun \in TunIds /\ records' = records
        /\ disk' = WithDns(disk, host, d) /\ mem' = disk'
    BY <1>8 DEF SaveDnsIntent, Save, WithDns, Holds, CleanStages, HasTunnel, Stages, cloud
  <2>2. d \in SavedDns
    BY <2>1 DEF SavedDns
  <2>3. \A r \in records : r.host = host => r.creator # "us"
    BY <2>1 DEF Read
  <2> HIDE DEF d
  <2>. QED
    BY <1>0, <2>1, <2>2, <2>3, SavedKnown DEF Ours
<1>9. CASE PostDns /\ ~Conflict
  <2>1. /\ rec'.id \in RecIds /\ rec'.host = host /\ rec'.to = tun /\ records' = records \cup {rec'}
        /\ pc = "post_dns" /\ UNCHANGED <<disk, mem>> /\ mem = disk
    <3>1. Least(FreeRecs) \in RecIds
      BY <1>9, FreeIds DEF PostDns, Refused
    <3>2. mem = disk
      BY <1>9 DEF PostDns, Holds, CleanStages
    <3>. QED
      BY <1>9, <3>1, <3>2, PostDnsDoes
  <2>2. disk.dns[host] # None
    <3>1. disk.dns[host] \in SavedDns \cup {None} /\ tun \in TunIds
      BY <1>0, <2>1 DEF Database, Holds, HasTunnel, Stages
    <3>2. [id |-> 0, tun |-> tun, pending |-> TRUE] \in SavedDns
      BY <3>1 DEF SavedDns
    <3>. QED
      BY <2>1, <3>2, NoneIsAbsent DEF Read
  <2>3. Knows(disk, rec')
    BY <2>1, <2>2 DEF Knows, Read
  <2>. QED
    BY <2>1, <2>3 DEF Known
<1>10. CASE SaveDns
  <2> DEFINE d == [id |-> rec.id, tun |-> tun, pending |-> FALSE]
  <2>1. /\ mem = disk /\ pc = "save_dns" /\ tun \in TunIds /\ records' = records /\ rec # None
        /\ disk' = WithDns(disk, host, d) /\ mem' = disk'
    BY <1>10 DEF SaveDns, Save, WithDns, Holds, CleanStages, HasTunnel, Stages, cloud
  <2>2. d \in SavedDns /\ d.tun = tun /\ d.id = rec.id
    BY <2>1 DEF SavedDns, TypeOK, Record
  <2>3. ASSUME NEW r \in records, Ours(r), r.host = host PROVE tun = r.to /\ rec.id = r.id
    <3>1. Knows(disk, r)
      BY <2>3 DEF Known
    <3>. QED
      BY <2>1, <2>3, <3>1 DEF Read, Knows, Ours
  <2> HIDE DEF d
  <2>. QED
    BY <1>0, <2>1, <2>2, <2>3, SavedKnown
<1>11. CASE PatchDns /\ ~Conflict
  <2>1. UNCHANGED <<disk, mem>> /\ pc = "patch"
    BY <1>11, PatchDnsDoes
  <2>2. PICK r, q : /\ records' = (records \ {r}) \cup {q} /\ Changed(r, q)
                    /\ q.to = r.to /\ q.edited = r.edited /\ r \in records
    BY <1>11, PatchDnsDoes
  <2>3. \A a \in records' : Ours(a) =>
           \E b \in records : Ours(b) /\ b.id = a.id /\ b.host = a.host /\ b.to = a.to
    BY <2>2 DEF Ours, Changed
  <2>. QED
    BY <2>1, <2>3, QuietKnown
<1>12. CASE CleanStep
  BY <1>12, CleanKnown
<1>13. CASE Outside
  <2>1. UNCHANGED <<disk, mem, pc>>
    BY <1>13, OutsideDoes
  <2>2. \A r \in records' : Ours(r) => r \in records
    BY <1>13, OutsideDoes DEF Ours
  <2>. QED
    BY <2>1, <2>2, QuietKnown
<1>14. CASE Fail \/ RestartFails \/ Conflict
  BY <1>1, <1>14 DEF Fail, RestartFails, Conflict, cloud
<1>15. CASE (ReadConfig \/ PutConfig) /\ Quit
  <2>1. UNCHANGED <<records, disk>>
    BY <1>15 DEF ReadConfig, PutConfig, Refused, Conflict, cloud
  <2>. QED
    BY <1>1, <1>15, <2>1
<1>. QED
  BY <1>2, <1>3, <1>4, <1>5, <1>6, <1>7, <1>8, <1>9, <1>10, <1>11, <1>12, <1>13, <1>14, <1>15, NextCases
     DEF Calm

-----------------------------------------------------------------------------
(* Records: the ones a database names *)

\* A database that gained no entry, and records that gained none it names.
LEMMA MineCarries ==
  ASSUME NEW a, NEW b, NEW rs, NEW ss, NEW ad, NEW bd, MineIn(a, rs, ad), ad \subseteq bd,
         \A h \in Hosts : b.dns[h] = None \/ b.dns[h] = a.dns[h],
         \A r \in ss : r.id \in DnsIds(a) => \E q \in rs : q.id = r.id /\ q.creator = r.creator
  PROVE  MineIn(b, ss, bd)
<1> SUFFICES ASSUME NEW h \in Hosts, b.dns[h] # None
             PROVE  /\ b.dns[h].id = 0 => b.dns[h].pending
                    /\ \A r \in ss : r.id = b.dns[h].id => r.creator = "us" \/ r.id \in bd
  BY DEF MineIn
<1>1. a.dns[h] = b.dns[h] /\ a.dns[h] # None
  OBVIOUS
<1>2. a.dns[h].id \in DnsIds(a)
  BY <1>1 DEF DnsIds
<1>. QED
  BY <1>1, <1>2 DEF MineIn

\* One entry is replaced.
LEMMA MineEntry ==
  ASSUME NEW a, NEW b, NEW rs, NEW ad, NEW bd, MineIn(a, rs, ad), ad \subseteq bd, NEW h \in Hosts,
         \A g \in Hosts \ {h} : b.dns[g] = a.dns[g],
         b.dns[h] # None =>
           /\ b.dns[h].id = 0 => b.dns[h].pending
           /\ \A r \in rs : r.id = b.dns[h].id => r.creator = "us" \/ r.id \in bd
  PROVE  MineIn(b, rs, bd)
  BY DEF MineIn

LEMMA MineEmpty == \A rs, ad : MineIn(Empty, rs, ad)
  BY DEF MineIn, Empty

\* A step that makes no record and no entry.
LEMMA MineQuiet ==
  ASSUME Mine, disk'.dns = disk.dns, mem'.dns = disk.dns \/ mem'.dns = mem.dns \/ mem' = Empty,
         pc' # "save_dns", adopted \subseteq adopted',
         \A r \in records' : \E q \in records : q.id = r.id /\ q.creator = r.creator
  PROVE  Mine'
<1>1. MineIn(disk', records', adopted')
  BY MineCarries DEF Mine
<1>2. MineIn(mem', records', adopted')
  <2>1. CASE mem'.dns = disk.dns
    BY <2>1, MineCarries DEF Mine
  <2>2. CASE mem'.dns = mem.dns
    BY <2>2, MineCarries DEF Mine
  <2>3. CASE mem' = Empty
    BY <2>3, MineEmpty
  <2>. QED
    BY <2>1, <2>2, <2>3
<1>. QED
  BY <1>1, <1>2 DEF Mine, MineIn

\* An entry is saved.
LEMMA MineSaved ==
  ASSUME Mine, mem = disk, disk \in Database, NEW h \in Hosts, NEW d \in SavedDns,
         disk' = WithDns(disk, h, d), mem' = disk' \/ mem' = Empty, UNCHANGED records,
         pc' # "save_dns", adopted \subseteq adopted', d.id = 0 => d.pending,
         \A r \in records : r.id = d.id => r.creator = "us" \/ r.id \in adopted'
  PROVE  Mine'
<1>1. disk'.dns[h] = d /\ \A g \in Hosts \ {h} : disk'.dns[g] = disk.dns[g]
  BY WithDnsSaves
<1>2. MineIn(disk', records, adopted')
  BY <1>1, MineEntry DEF Mine
<1>3. MineIn(mem', records, adopted')
  BY <1>2, MineEmpty
<1>. QED
  BY <1>2, <1>3 DEF Mine, MineIn

LEMMA CleanMine ==
  ASSUME TypeOK, Holds, Mine, CleanStep
  PROVE  Mine'
<1>0. /\ cur' \in Hosts /\ mem \in Database /\ mem.dns[cur'] \in SavedDns /\ records' \subseteq records
      /\ UNCHANGED disk /\ adopted \subseteq adopted' /\ pc' # "save_dns"
  BY CleanDoes DEF TypeOK, Database
<1>1. MineIn(disk', records', adopted')
  BY <1>0, MineCarries DEF Mine
<1>2. \A h \in Hosts \ {cur'} : mem'.dns[h] = mem.dns[h]
  BY CleanSaves
<1>3. MineIn(mem', records', adopted')
  <2>1. CASE Moves(cur')
    <3>1. mem' = mem
      BY <2>1 DEF Moves
    <3>. QED
      BY <1>0, <3>1, MineCarries DEF Mine
  <2>2. CASE Forgets(cur')
    <3>1. mem'.dns[cur'] = None
      BY <1>0, <2>2, WithDnsSaves DEF Forgets
    <3>. QED
      BY <1>0, <1>2, <3>1, MineCarries DEF Mine
  <2>3. CASE FindsId(cur') /\ ~Moves(cur') /\ ~Forgets(cur')
    <3>1. CleanLookup(cur')
      <4>1. ~CleanGet
        BY <2>3 DEF FindsId, CleanGet
      <4>2. ~CleanDelete
        BY <2>3 DEF FindsId, CleanDelete
      <4>3. ~CleanFails
        BY <2>3 DEF Moves, CleanFails, Visited
      <4>. QED
        BY <4>1, <4>2, <4>3 DEF CleanStep, CleanLookup
    <3>2. PICK r \in RecordsOf(cur') :
            /\ mem.dns[cur'].id = 0
            /\ mem' = [mem EXCEPT !.dns[cur'].id = r.id]
            /\ adopted' = adopted \cup (IF mem.dns[cur'].pending THEN {r.id} ELSE {})
      BY <2>3, <3>1 DEF CleanLookup, Forget, Forgets, Visited, WithDns, Moves, FindsId, cloud
    <3>3. mem.dns[cur'].pending
      BY <1>0, <3>2, NoneIsAbsent DEF Mine, MineIn
    <3>4. r.id \in adopted' /\ r.id \in RecIds /\ r.id # 0
      BY <3>2, <3>3, CfDeployAssumption DEF RecordsOf, TypeOK, Record
    <3>5. mem'.dns[cur'].id = r.id
      BY <1>0, <3>2 DEF Database, SavedDns
    <3>6. MineIn(mem', records, adopted')
      <4>1. /\ mem'.dns[cur'].id = 0 => mem'.dns[cur'].pending
            /\ \A q \in records : q.id = mem'.dns[cur'].id => q.creator = "us" \/ q.id \in adopted'
        BY <3>4, <3>5
      <4>. QED
        BY <1>0, <1>2, <4>1, MineEntry DEF Mine
    <3>. QED
      BY <1>0, <3>6, MineCarries
  <2>. QED
    BY <2>1, <2>2, <2>3, CleanDoes
<1>. QED
  BY <1>0, <1>1, <1>3 DEF Mine

LEMMA MineKept ==
  ASSUME TypeOK, Holds, RecordsApart, Read, Mine, Next
  PROVE  Mine'
<1>0. mem \in Database /\ disk \in Database /\ records \subseteq Record /\ (pc # "idle" => host \in Hosts)
  BY DEF TypeOK, Holds
<1>1. CASE Quit /\ UNCHANGED <<records, disk, adopted>>
  BY <1>1, MineQuiet DEF Quit
<1>2. CASE Verify
  <2>1. disk' = mem /\ mem' = Empty /\ UNCHANGED <<records, adopted>> /\ pc' = "idle"
    BY <1>2 DEF Verify, Quit, cloud, budget
  <2>. QED
    BY <2>1, MineEmpty DEF Mine
<1>3. CASE \E h \in Hosts : Deploy(h)
  BY <1>3, MineQuiet DEF Deploy, cloud, budget
<1>4. CASE ReadTunnels
  <2>1. records' = records /\ adopted' = adopted /\ pc' # "save_dns" /\ pc # "idle" /\ mem = disk
    BY <1>4, ReadTunnelsDoes DEF cloud, budget, Conflict, Quit, ReadTunnels, Holds, CleanStages
  <2>2. ASSUME NEW i \in TunIds
        PROVE  WithTunnel(mem, Account, [id |-> i, pending |-> FALSE]).dns = mem.dns
    <3>1. [id |-> i, pending |-> FALSE] \in SavedTun /\ Account \in Accounts
      BY <2>1, AccountIsAccount DEF SavedTun
    <3>. QED
      BY <1>0, <3>1, WithTunnelSaves
  <2>3. disk'.dns = disk.dns /\ (mem' = Empty \/ mem'.dns = disk.dns)
    BY <1>4, <2>1, <2>2, ReadTunnelsDoes DEF Conflict, Quit
  <2>. QED
    BY <2>1, <2>3, MineQuiet
<1>5. CASE SaveTunnelIntent \/ SaveTunnel \/ SaveActive
  <2>1. mem = disk /\ records' = records /\ adopted' = adopted /\ pc' # "save_dns"
    BY <1>5 DEF SaveTunnelIntent, SaveTunnel, SaveActive, Holds, CleanStages, cloud, budget
  <2>2. mem'.dns = mem.dns /\ disk'.dns = disk.dns
    BY <1>0, <1>5, <2>1 DEF SaveTunnelIntent, SaveTunnel, SaveActive, Save, Database
  <2>. QED
    BY <2>1, <2>2, MineQuiet
<1>6. CASE \/ ReadRecords \/ PostTunnel \/ (ReadConfig /\ ~Quit) \/ (PutConfig /\ ~Quit)
           \/ WriteToken \/ Restart \/ Cleaned
  <2>1. UNCHANGED <<records, disk, mem, adopted>> /\ pc' # "save_dns"
    BY <1>6 DEF ReadRecords, PostTunnel, ReadConfig, PutConfig, WriteToken, Restart, Cleaned, Refused,
                Conflict, cloud, budget
  <2>. QED
    BY <2>1, MineQuiet
<1>7. CASE CheckDns
  <2>1. /\ pc = "dns" /\ rec # None /\ mem = disk /\ disk' = Adopted /\ records' = records
        /\ mem' = disk' \/ mem' = Empty
        /\ pc' # "save_dns" /\ adopted' = adopted \cup (IF Intent THEN {rec.id} ELSE {})
        /\ rec.id \in RecIds
    BY <1>7, CheckDnsDoes DEF CheckDns, Quit, cloud
  <2>2. CASE ~Intent
    <3>1. Adopted = mem
      BY <2>2 DEF Adopted, Intent
    <3>. QED
      BY <2>1, <3>1, MineQuiet
  <2>3. CASE Intent
    <3>1. Adopted # mem \/ mem.dns[host].id = rec.id \/ Adopted = mem
      OBVIOUS
    <3>2. CASE Adopted = mem
      BY <2>1, <3>2, MineQuiet
    <3>3. CASE Adopted # mem
      <4>1. PICK d \in SavedDns : Adopted = WithDns(mem, host, d) /\ d.id = rec.id
        BY <2>1, <3>3, AdoptedIs
      <4>2. rec.id \in adopted' /\ rec.id # 0
        BY <2>1, <2>3, CfDeployAssumption
      <4>. QED
        BY <1>0, <2>1, <4>1, <4>2, MineSaved
    <3>. QED
      BY <3>2, <3>3
  <2>. QED
    BY <2>2, <2>3
<1>8. CASE SaveDnsIntent
  <2> DEFINE d == [id |-> 0, tun |-> tun, pending |-> TRUE]
  <2>1. /\ mem = disk /\ pc = "dns" /\ tun \in TunIds /\ records' = records /\ adopted' = adopted
        /\ disk' = WithDns(disk, host, d) /\ mem' = disk' /\ pc' # "save_dns"
    BY <1>8 DEF SaveDnsIntent, Save, WithDns, Holds, CleanStages, HasTunnel, Stages, cloud, budget
  <2>2. d \in SavedDns /\ d.id = 0 /\ d.pending
    BY <2>1 DEF SavedDns
  <2>3. \A r \in records : r.id # 0
    BY <1>0, CfDeployAssumption DEF Record
  <2> HIDE DEF d
  <2>. QED
    BY <1>0, <2>1, <2>2, <2>3, MineSaved
<1>9. CASE PostDns /\ ~Conflict
  <2>1. /\ rec'.id = Least(FreeRecs) /\ rec'.creator = "us" /\ records' = records \cup {rec'}
        /\ UNCHANGED <<disk, mem>> /\ \A r \in records : r.id # Least(FreeRecs)
    BY <1>9, PostDnsDoes
  <2>2. adopted' = adopted
    BY <1>9 DEF PostDns, Refused, budget
  <2>3. Least(FreeRecs) \notin DnsIds(disk) /\ Least(FreeRecs) \notin DnsIds(mem)
    <3>1. Least(FreeRecs) \in FreeRecs
      BY <1>9, FreeIds DEF PostDns, Refused
    <3>. QED
      BY <3>1 DEF FreeRecs
  <2>4. MineIn(disk', records', adopted') /\ MineIn(mem', records', adopted')
    BY <2>1, <2>2, <2>3, MineCarries DEF Mine
  <2>. QED
    BY <2>1, <2>4 DEF Mine
<1>10. CASE SaveDns
  <2> DEFINE d == [id |-> rec.id, tun |-> tun, pending |-> FALSE]
  <2>1. /\ mem = disk /\ pc = "save_dns" /\ tun \in TunIds /\ records' = records /\ rec # None
        /\ disk' = WithDns(disk, host, d) /\ mem' = disk' /\ adopted' = adopted /\ pc' # "save_dns"
    BY <1>10 DEF SaveDns, Save, WithDns, Holds, CleanStages, HasTunnel, Stages, cloud, budget
  <2>2. d \in SavedDns /\ d.id = rec.id /\ rec.id # 0
    BY <2>1, CfDeployAssumption DEF SavedDns, TypeOK, Record
  <2>3. \A r \in records : r.id = d.id => r.creator = "us"
    BY <2>1, <2>2 DEF Mine
  <2> HIDE DEF d
  <2>. QED
    BY <1>0, <2>1, <2>2, <2>3, MineSaved
<1>11. CASE PatchDns /\ ~Conflict
  <2>1. UNCHANGED <<disk, mem>> /\ pc' = "put"
    BY <1>11, PatchDnsDoes
  <2>2. PICK r, q : records' = (records \ {r}) \cup {q} /\ Changed(r, q) /\ r \in records
    BY <1>11, PatchDnsDoes
  <2>3. \A a \in records' : \E b \in records : b.id = a.id /\ b.creator = a.creator
    BY <2>2 DEF Changed
  <2>4. adopted' = adopted
    BY <1>11 DEF PatchDns, Refused, budget
  <2>. QED
    BY <2>1, <2>3, <2>4, MineQuiet
<1>12. CASE CleanStep
  BY <1>12, CleanMine
<1>13. CASE Outside
  <2>1. UNCHANGED <<disk, mem, pc, rec, adopted>>
    BY <1>13, OutsideDoes DEF local
  <2>2. \A r \in records' : r.id \in FreeRecs \/ \E q \in records : q.id = r.id /\ q.creator = r.creator
    BY <1>13, OutsideDoes DEF Changed
  <2>3. \A r \in records' : r.id \in DnsIds(disk) \cup DnsIds(mem) =>
           \E q \in records : q.id = r.id /\ q.creator = r.creator
    BY <2>2 DEF FreeRecs
  <2>4. MineIn(disk', records', adopted') /\ MineIn(mem', records', adopted')
    BY <2>1, <2>3, MineCarries DEF Mine
  <2>5. pc' = "save_dns" => \A r \in records' : r.id = rec'.id => r.creator = "us"
    BY <2>1, <2>2 DEF Mine, FreeRecs, Holds
  <2>. QED
    BY <2>4, <2>5 DEF Mine
<1>14. CASE Fail \/ RestartFails \/ Conflict
  BY <1>1, <1>14 DEF Fail, RestartFails, Conflict, cloud, budget
<1>15. CASE (ReadConfig \/ PutConfig) /\ Quit
  <2>1. UNCHANGED <<records, disk, adopted>>
    BY <1>15 DEF ReadConfig, PutConfig, Refused, Conflict, cloud, budget
  <2>. QED
    BY <1>1, <1>15, <2>1
<1>. QED
  BY <1>2, <1>3, <1>4, <1>5, <1>6, <1>7, <1>8, <1>9, <1>10, <1>11, <1>12, <1>13, <1>14, <1>15, NextCases
     DEF Calm

-----------------------------------------------------------------------------
(* Records: what the cleanup may delete *)

LEMMA RemovesKept ==
  ASSUME TypeOK, Holds, RecordsApart, DeletesWhatLeadsHere, Next
  PROVE  DeletesWhatLeadsHere'
<1>1. CASE pc' # "clean_delete"
  BY <1>1 DEF DeletesWhatLeadsHere
<1>2. CASE CleanStep /\ pc' = "clean_delete"
  <2>1. CleanGet /\ UNCHANGED <<mem, cur, records>> /\ \E r \in records : r.id = mem.dns[cur].id /\ StillOurs(r)
    BY <1>2 DEF CleanStep, CleanGet, CleanDelete, CleanFails, CleanLookup, Visited, cloud
  <2>. QED
    BY <2>1 DEF DeletesWhatLeadsHere, StillOurs, RecordsApart
<1>3. CASE Outside /\ pc' = "clean_delete"
  <2>1. /\ UNCHANGED <<pc, mem, cur>>
        /\ \A r \in records' : r.id \in FreeRecs \/
             \E q \in records : Changed(q, r) /\ (~r.edited => q = r)
    BY <1>3, OutsideDoes DEF local
  <2>2. mem.dns[cur].id \in DnsIds(mem)
    BY <1>3, <2>1 DEF Holds, DnsIds
  <2>3. mem.dns[cur].id \notin FreeRecs
    BY <2>2 DEF FreeRecs
  <2>. QED
    BY <1>3, <2>1, <2>3 DEF DeletesWhatLeadsHere, Changed
<1>4. CASE (Calm \/ PostDns \/ PatchDns) /\ pc' = "clean_delete"
  <2>1. CASE ReadTunnels
    BY <1>4, <2>1 DEF ReadTunnels, Conflict, Quit
  <2>2. CASE ~ReadTunnels
    BY <1>4, <2>2
       DEF Calm, Deploy, ReadRecords, SaveTunnelIntent, PostTunnel, SaveTunnel, ReadConfig, CheckDns,
           SaveDnsIntent, SaveDns, PutConfig, WriteToken, Restart, SaveActive, Cleaned, Verify, Fail,
           RestartFails, Refused, Conflict, Quit, PostDns, PatchDns
  <2>. QED
    BY <2>1, <2>2
<1>. QED
  BY <1>1, <1>2, <1>3, <1>4, NextCases

-----------------------------------------------------------------------------
(* What visitors reach *)

\* A step that changes nothing a visitor depends on.
LEMMA QuietReaches ==
  ASSUME AllOurs, TokenReaches, UNCHANGED <<records, token>>, disk'.active = disk.active, pc' # "restart",
         token \in TunIds => routes'[token] = routes[token]
  PROVE  AllOurs' /\ TokenReaches'
  BY DEF AllOurs, TokenReaches, Reaches, Ours, Leads

LEMMA QuitUndisturbed ==
  ASSUME Undisturbed, Quit, UNCHANGED <<records, routes, token>>, disk'.active = disk.active
  PROVE  Undisturbed'
<1>1. pc' = "idle"
  BY DEF Quit
<1>2. AllOurs' /\ TokenReaches'
  BY <1>1, QuietReaches DEF Undisturbed
<1>3. RunGoesLive'
  BY <1>1 DEF RunGoesLive, LiveStages, CleanStages
<1>. QED
  BY <1>2, <1>3 DEF Undisturbed

\* A live hostname reaches the router through the run's tunnel.
LEMMA LiveReaches ==
  ASSUME HostIsLive, host \in Hosts, tun \in TunIds
  PROVE  Reaches(tun)
  BY DEF HostIsLive, HostLeads, Reaches

\* Before anything is changed.
LEMMA LookUndisturbed ==
  ASSUME TypeOK, Holds, Read, Undisturbed,
         (\E h \in Hosts : Deploy(h)) \/ ReadRecords \/ ReadTunnels \/ ReadConfig \/ CheckDns
  PROVE  Undisturbed'
<1>0. AllOurs /\ TokenReaches /\ RunGoesLive
  BY DEF Undisturbed
<1>1. CASE \E h \in Hosts : Deploy(h)
  <2>1. UNCHANGED <<records, token, routes, disk>> /\ pc' = "records"
    BY <1>1 DEF Deploy, cloud
  <2>. QED
    BY <1>0, <2>1, QuietReaches DEF Undisturbed, RunGoesLive, LiveStages, CleanStages
<1>2. CASE ReadRecords
  <2>1. UNCHANGED <<records, token, routes, disk, host>> /\ pc' = "tunnel" /\ recs' = RecordsOf(host)
    BY <1>2 DEF ReadRecords, cloud
  <2>2. AllOurs' /\ TokenReaches'
    BY <1>0, <2>1, QuietReaches
  <2>3. RunGoesLive'
    BY <2>1 DEF RunGoesLive, RecordsOf, LiveStages, CleanStages
  <2>. QED
    BY <2>2, <2>3 DEF Undisturbed
<1>3. CASE ReadTunnels
  <2>1. UNCHANGED <<records, token, routes>> /\ disk'.active = disk.active
    <3>1. mem = disk /\ pc = "tunnel" /\ Account \in Accounts /\ mem \in Database
      BY <1>3, AccountIsAccount DEF ReadTunnels, Holds, CleanStages, TypeOK
    <3>2. ASSUME NEW i \in TunIds
          PROVE  WithTunnel(mem, Account, [id |-> i, pending |-> FALSE]).active = mem.active
      <4>1. [id |-> i, pending |-> FALSE] \in SavedTun
        BY DEF SavedTun
      <4>. QED
        BY <3>1, <4>1, WithTunnelSaves
    <3>. QED
      BY <1>3, <3>1, <3>2, ReadTunnelsDoes DEF Conflict, cloud
  <2>2. CASE Quit
    BY <2>1, <2>2, QuitUndisturbed
  <2>3. CASE ~Quit
    <3>1. \/ pc' = "intent"
          \/ /\ pc' = "config" /\ rec' \in recs \cup {None} /\ UNCHANGED host
             /\ rec' # None => rec'.type = "CNAME" /\ rec'.to = tun'
      BY <1>3, <2>3, ReadTunnelsDoes DEF Conflict
    <3>2. AllOurs' /\ TokenReaches'
      BY <1>0, <2>1, <3>1, QuietReaches
    <3>3. pc = "tunnel"
      BY <1>3 DEF ReadTunnels
    <3>4. RunGoesLive'
      BY <1>0, <2>1, <3>1, <3>3 DEF RunGoesLive, Leads, AllOurs, LiveStages, CleanStages
    <3>. QED
      BY <3>2, <3>4 DEF Undisturbed
  <2>. QED
    BY <2>2, <2>3
<1>4. CASE ReadConfig
  <2>1. UNCHANGED <<records, token, routes, disk>>
    BY <1>4 DEF ReadConfig, Refused, Conflict, cloud
  <2>2. CASE Quit
    BY <2>1, <2>2, QuitUndisturbed
  <2>3. CASE ~Quit
    <3>1. /\ pc = "config" /\ pc' = "dns" /\ UNCHANGED <<rec, host, tun>> /\ host \in Hosts /\ org \in Origins
          /\ config' = ingress_for(routes[tun])
      BY <1>4, <2>3 DEF ReadConfig, Refused, Conflict, Holds
    <3>2. config'[host] \in Origins
      BY <3>1 DEF ingress_for, Names
    <3>3. AllOurs' /\ TokenReaches'
      BY <1>0, <2>1, <3>1, QuietReaches
    <3>4. RunGoesLive'
      BY <1>0, <2>1, <3>1, <3>2 DEF RunGoesLive, Leads, LiveStages, CleanStages
    <3>. QED
      BY <3>3, <3>4 DEF Undisturbed
  <2>. QED
    BY <2>2, <2>3
<1>5. CASE CheckDns
  <2>1. UNCHANGED <<records, token, routes>> /\ disk'.active = disk.active /\ pc = "dns" /\ rec # None
    BY <1>5, CheckDnsDoes DEF cloud, CheckDns
  <2>2. CASE Quit
    BY <2>1, <2>2, QuitUndisturbed
  <2>3. CASE ~Quit
    <3>1. UNCHANGED <<host, tun, config>> /\ pc' = IF rec.proxied THEN "put" ELSE "patch"
      BY <1>5, <2>3, CheckDnsDoes DEF local
    <3>2. pc' = "put" /\ HostLeads
      BY <1>0, <2>1, <3>1 DEF RunGoesLive, HostLeads, Leads
    <3>3. AllOurs' /\ TokenReaches'
      BY <1>0, <2>1, <3>2, QuietReaches
    <3>4. RunGoesLive'
      BY <1>0, <2>1, <3>1, <3>2 DEF RunGoesLive, HostLeads, Leads, LiveStages, CleanStages
    <3>. QED
      BY <3>3, <3>4 DEF Undisturbed
  <2>. QED
    BY <2>2, <2>3
<1>. QED
  BY <1>1, <1>2, <1>3, <1>4, <1>5

\* The tunnel and the record.
LEMMA MakeUndisturbed ==
  ASSUME TypeOK, Holds, Undisturbed,
         \/ SaveTunnelIntent \/ PostTunnel \/ SaveTunnel \/ SaveDnsIntent \/ SaveDns
         \/ (PostDns /\ ~Conflict) \/ (PatchDns /\ ~Conflict),
         pc = "save_tunnel" => rec = None
  PROVE  Undisturbed'
<1>0. AllOurs /\ TokenReaches /\ RunGoesLive /\ mem \in Database
  BY DEF Undisturbed, TypeOK
<1>1. CASE SaveTunnelIntent \/ SaveTunnel \/ SaveDnsIntent \/ SaveDns
  <2>1. /\ UNCHANGED <<records, token, routes, host, tun, rec, config>> /\ mem = disk
        /\ \/ pc' = "post_tunnel"
           \/ pc = "save_tunnel" /\ pc' = "config"
           \/ pc = "dns" /\ pc' = "post_dns"
           \/ pc = "save_dns" /\ pc' = "put"
    BY <1>1 DEF SaveTunnelIntent, SaveTunnel, SaveDnsIntent, SaveDns, cloud, local, Holds, CleanStages
  <2>2. disk'.active = disk.active
    BY <1>0, <1>1, <2>1 DEF SaveTunnelIntent, SaveTunnel, SaveDnsIntent, SaveDns, Save, Database
  <2>3. AllOurs' /\ TokenReaches'
    BY <1>0, <2>1, <2>2, QuietReaches
  <2>4. pc = "save_dns" => HostLeads
    BY <1>0 DEF RunGoesLive, HostLeads, Holds
  <2>5. RunGoesLive'
    BY <1>0, <2>1, <2>4 DEF RunGoesLive, HostLeads, Leads, LiveStages, CleanStages
  <2>. QED
    BY <2>3, <2>5 DEF Undisturbed
<1>2. CASE PostTunnel
  <2>1. /\ UNCHANGED <<records, token, disk>> /\ pc' = "save_tunnel" /\ FreeTuns # {}
        /\ routes' = [routes EXCEPT ![Least(FreeTuns)] = NoRoutes] /\ UNCHANGED rec /\ pc = "post_tunnel"
    BY <1>2 DEF PostTunnel
  <2>2. Least(FreeTuns) \in FreeTuns
    BY <2>1, FreeIds
  <2>3. Least(FreeTuns) # token
    BY <2>2 DEF FreeTuns
  <2>4. token \in TunIds => routes'[token] = routes[token]
    BY <2>1, <2>3 DEF TypeOK
  <2>5. AllOurs' /\ TokenReaches'
    BY <1>0, <2>1, <2>4, QuietReaches
  <2>6. RunGoesLive'
    BY <2>1 DEF RunGoesLive, LiveStages, CleanStages
  <2>. QED
    BY <2>5, <2>6 DEF Undisturbed
<1>3. CASE PostDns /\ ~Conflict
  <2>1. /\ Ours(rec') /\ Leads(rec', host, tun) /\ records' = records \cup {rec'}
        /\ pc = "post_dns" /\ pc' = "save_dns" /\ UNCHANGED <<routes, disk, token, host, tun, config>>
    BY <1>3, PostDnsDoes DEF Ours, Leads
  <2>2. AllOurs' /\ TokenReaches'
    BY <1>0, <2>1 DEF AllOurs, TokenReaches, Reaches, Ours, Leads
  <2>3. RunGoesLive'
    BY <1>0, <2>1 DEF RunGoesLive, Leads, LiveStages, CleanStages
  <2>. QED
    BY <2>2, <2>3 DEF Undisturbed
<1>4. CASE PatchDns /\ ~Conflict
  BY <1>0, <1>4, PatchDnsDoes DEF RunGoesLive
<1>. QED
  BY <1>1, <1>2, <1>3, <1>4

\* Going live, or falling back.
LEMMA GoLiveUndisturbed ==
  ASSUME TypeOK, Holds, Undisturbed,
         PutConfig \/ WriteToken \/ Restart \/ SaveActive \/ RestartFails
  PROVE  Undisturbed'
<1>0. AllOurs /\ TokenReaches /\ RunGoesLive /\ host \in Hosts /\ tun \in TunIds
  BY DEF Undisturbed, PutConfig, WriteToken, Restart, SaveActive, RestartFails, Holds, HasTunnel, Stages
<1>1. CASE PutConfig
  <2>1. CASE Conflict
    BY <2>1, QuitUndisturbed DEF Conflict, cloud
  <2>2. CASE ~Conflict
    <3>1. /\ UNCHANGED <<records, token, disk, host, tun>> /\ pc = "put" /\ pc' = "token"
          /\ routes' = [routes EXCEPT ![tun] = config]
      BY <1>1, <2>2 DEF PutConfig, Refused, local
    <3>2. HostIsLive' /\ \A t \in TunIds \ {tun} : routes'[t] = routes[t]
      BY <1>0, <3>1 DEF HostIsLive, HostLeads, RunGoesLive, TypeOK, Leads
    <3>3. Reaches(tun)'
      BY <1>0, <3>1, <3>2 DEF HostIsLive, HostLeads, Reaches
    <3>4. disk.active # None => Reaches(token)'
      <4>1. CASE token = tun
        BY <3>1, <3>3, <4>1
      <4>2. CASE token # tun
        BY <1>0, <3>1, <3>2, <4>2 DEF TokenReaches, Reaches, Leads
      <4>. QED
        BY <4>1, <4>2
    <3>5. TokenReaches'
      BY <3>1, <3>4 DEF TokenReaches
    <3>6. AllOurs'
      BY <1>0, <3>1 DEF AllOurs, Ours
    <3>7. RunGoesLive'
      BY <3>1, <3>2 DEF RunGoesLive, LiveStages, CleanStages
    <3>. QED
      BY <3>5, <3>6, <3>7 DEF Undisturbed
  <2>. QED
    BY <2>1, <2>2
<1>2. CASE WriteToken
  <2>1. /\ UNCHANGED <<records, routes, disk, host, tun>> /\ pc = "token" /\ pc' = "restart"
        /\ token' = tun /\ prev' = token
    BY <1>2 DEF WriteToken, cloud
  <2>2. HostIsLive /\ HostIsLive'
    BY <1>0, <2>1 DEF RunGoesLive, LiveStages, HostIsLive, HostLeads, Leads
  <2>3. Reaches(tun)
    BY <1>0, <2>2, LiveReaches
  <2>4. TokenReaches'
    BY <1>0, <2>1, <2>3 DEF TokenReaches, Reaches, Leads
  <2>5. AllOurs' /\ RunGoesLive'
    BY <1>0, <2>1, <2>2 DEF AllOurs, Ours, RunGoesLive, LiveStages, CleanStages
  <2>. QED
    BY <2>4, <2>5 DEF Undisturbed
<1>3. CASE Restart
  <2>1. UNCHANGED <<records, routes, disk, token, host, tun>> /\ pc = "restart" /\ pc' = "save_active"
    BY <1>3 DEF Restart, cloud, local
  <2>2. AllOurs' /\ TokenReaches'
    BY <1>0, <2>1, QuietReaches
  <2>3. RunGoesLive'
    BY <1>0, <2>1 DEF RunGoesLive, HostIsLive, HostLeads, Leads, LiveStages, CleanStages
  <2>. QED
    BY <2>2, <2>3 DEF Undisturbed
<1>4. CASE SaveActive
  <2>1. UNCHANGED <<records, routes, token, host, tun>> /\ pc = "save_active" /\ pc' = "clean"
    BY <1>4 DEF SaveActive, cloud
  <2>2. HostIsLive /\ token = tun
    BY <1>0, <2>1 DEF RunGoesLive, LiveStages
  <2>3. Reaches(token)
    BY <1>0, <2>2, LiveReaches
  <2>4. AllOurs' /\ TokenReaches'
    BY <1>0, <2>1, <2>3 DEF AllOurs, Ours, TokenReaches, Reaches, Leads
  <2>5. RunGoesLive'
    BY <2>1, <2>2 DEF RunGoesLive, HostIsLive, HostLeads, Leads, LiveStages, CleanStages
  <2>. QED
    BY <2>4, <2>5 DEF Undisturbed
<1>5. CASE RestartFails
  <2>1. UNCHANGED <<records, routes, disk>> /\ pc = "restart" /\ pc' = "idle" /\ token' = prev
    BY <1>5 DEF RestartFails, Quit, cloud
  <2>2. AllOurs' /\ TokenReaches'
    BY <1>0, <2>1 DEF AllOurs, Ours, TokenReaches, Reaches, Leads
  <2>3. RunGoesLive'
    BY <2>1 DEF RunGoesLive, LiveStages, CleanStages
  <2>. QED
    BY <2>2, <2>3 DEF Undisturbed
<1>. QED
  BY <1>1, <1>2, <1>3, <1>4, <1>5

\* The cleanup never deletes the record that was just published.
LEMMA CleanUndisturbed ==
  ASSUME TypeOK, Holds, DeletesWhatLeadsHere, Undisturbed, CleanStep \/ Cleaned
  PROVE  Undisturbed'
<1>0. AllOurs /\ TokenReaches /\ RunGoesLive
  BY DEF Undisturbed
<1>1. CASE Cleaned
  <2>1. UNCHANGED <<records, routes, disk, token, host, tun>> /\ pc = "clean" /\ pc' = "verify"
    BY <1>1 DEF Cleaned, cloud, local
  <2>2. AllOurs' /\ TokenReaches'
    BY <1>0, <2>1, QuietReaches
  <2>3. RunGoesLive'
    BY <1>0, <2>1 DEF RunGoesLive, HostIsLive, HostLeads, Leads, LiveStages, CleanStages
  <2>. QED
    BY <2>2, <2>3 DEF Undisturbed
<1>2. CASE CleanStep
  <2>1. /\ UNCHANGED <<routes, disk, token, host, tun>> /\ records' \subseteq records
        /\ pc \in {"clean", "clean_get", "clean_delete"} /\ pc' \in {"clean", "clean_get", "clean_delete"}
        /\ host \in Hosts /\ tun \in TunIds /\ cur' # host
    BY <1>2, CleanDoes DEF Holds, HasTunnel, Stages
  <2>2. HostIsLive /\ token = tun
    BY <1>0, <2>1 DEF RunGoesLive, LiveStages, CleanStages
  <2>3. ASSUME NEW r \in records, r.host = host PROVE r \in records'
    <3>1. \/ records' = records
          \/ (pc = "clean_delete" /\ records' = {q \in records : q.id # mem.dns[cur].id})
      <4>1. CASE \E h \in Hosts : CleanLookup(h)
        BY <4>1 DEF CleanLookup, cloud
      <4>2. CASE CleanGet
        BY <4>2 DEF CleanGet, cloud
      <4>3. CASE CleanDelete
        BY <4>3 DEF CleanDelete
      <4>4. CASE CleanFails
        BY <4>4 DEF CleanFails
      <4>. QED
        BY <1>2, <4>1, <4>2, <4>3, <4>4 DEF CleanStep
    <3>2. ~r.edited
      BY <1>0 DEF AllOurs, Ours
    <3>3. pc = "clean_delete" => r.id # mem.dns[cur].id
      BY <2>3, <3>2 DEF DeletesWhatLeadsHere, Holds
    <3>. QED
      BY <3>1, <3>3
  <2>4. HostIsLive'
    BY <2>1, <2>2, <2>3 DEF HostIsLive, HostLeads, Leads
  <2>5. Reaches(token)'
    BY <2>1, <2>2, <2>4 DEF HostIsLive, HostLeads, Reaches
  <2>6. AllOurs' /\ TokenReaches' /\ RunGoesLive'
    BY <1>0, <2>1, <2>2, <2>4, <2>5 DEF AllOurs, Ours, TokenReaches, RunGoesLive, LiveStages, CleanStages
  <2>. QED
    BY <2>6 DEF Undisturbed
<1>. QED
  BY <1>1, <1>2

\* Nothing but the interference of others breaks what visitors reach.
LEMMA ReachableKept ==
  ASSUME TypeOK, Holds, Read, DeletesWhatLeadsHere, Reachable, Next
  PROVE  Reachable'
<1> SUFFICES ASSUME others' = 0 PROVE Undisturbed'
  BY DEF Reachable
<1>1. CASE Outside
  <2>1. UNCHANGED <<disk, token, pc, mem, local>> /\ others' \in {others, others + 1}
    BY <1>1 DEF Outside, OtherMakesTunnel, OtherDropsTunnel, OtherMakesRecord, OtherEditsRecord,
                OtherDropsRecord, OtherRoutes, OriginMoves, Other
  <2>2. records' # records \/ tunnels' # tunnels \/ routes' # routes => others' = others + 1
    BY <1>1 DEF Outside, OtherMakesTunnel, OtherDropsTunnel, OtherMakesRecord, OtherEditsRecord,
                OtherDropsRecord, OtherRoutes, OriginMoves, Other, cloud
  <2>3. others \in Nat
    BY CfDeployAssumption DEF TypeOK
  <2>4. others = 0 /\ records' = records /\ routes' = routes
    BY <2>1, <2>2, <2>3
  <2>5. AllOurs /\ RunGoesLive /\ TokenReaches
    BY <2>4 DEF Reachable, Undisturbed
  <2>6. UNCHANGED <<pc, token, disk, host, tun, rec, recs, config, prev>>
    BY <2>1 DEF local
  <2>7. AllOurs' /\ TokenReaches'
    BY <2>4, <2>5, <2>6 DEF AllOurs, Ours, TokenReaches, Reaches, Leads
  <2>8. RunGoesLive'
    BY <2>4, <2>5, <2>6 DEF RunGoesLive, HostIsLive, HostLeads, Leads
  <2>. QED
    BY <2>7, <2>8 DEF Undisturbed
<1>2. ASSUME ~Outside PROVE others' = others
  <2>1. CASE PostDns /\ ~Conflict
    BY <2>1 DEF PostDns, Refused, budget
  <2>2. CASE PatchDns /\ ~Conflict
    BY <2>2, PatchDnsDoes
  <2>3. CASE CleanStep
    BY <2>3, CleanDoes
  <2>. QED
    BY <1>2, <2>1, <2>2, <2>3, CalmRecords, NextCases
<1>3. CASE ~Outside
  <2>1. Undisturbed
    BY <1>2, <1>3 DEF Reachable
  <2>2. CASE Conflict \/ Fail
    BY <2>1, <2>2, QuitUndisturbed DEF Conflict, Fail, cloud
  <2>3. CASE Verify
    <3>1. UNCHANGED <<records, routes, token>> /\ disk' = mem /\ mem.active = disk.active /\ Quit
      BY <2>3 DEF Verify, cloud, Holds, CleanStages
    <3>. QED
      BY <2>1, <3>1, QuitUndisturbed
  <2>4. CASE (\E h \in Hosts : Deploy(h)) \/ ReadRecords \/ ReadTunnels \/ ReadConfig \/ CheckDns
    BY <2>1, <2>4, LookUndisturbed
  <2>5. CASE \/ SaveTunnelIntent \/ PostTunnel \/ SaveTunnel \/ SaveDnsIntent \/ SaveDns
             \/ (PostDns /\ ~Conflict) \/ (PatchDns /\ ~Conflict)
    <3>1. pc = "save_tunnel" => rec = None
      BY DEF Read
    <3>. QED
      BY <2>1, <2>5, <3>1, MakeUndisturbed
  <2>6. CASE PutConfig \/ WriteToken \/ Restart \/ SaveActive \/ RestartFails
    BY <2>1, <2>6, GoLiveUndisturbed
  <2>7. CASE CleanStep \/ Cleaned
    BY <2>1, <2>7, CleanUndisturbed
  <2>. QED
    BY <1>3, <2>2, <2>3, <2>4, <2>5, <2>6, <2>7, NextCases DEF Calm
<1>. QED
  BY <1>1, <1>3

-----------------------------------------------------------------------------
(* The theorems *)

LEMMA InitIInv == ASSUME Init PROVE IInv
<1>1. TypeOK /\ Holds
  BY InitTypes
<1>2. Remembered
  BY DEF Init, Remembered, NoOrphanTunnel, NoSecondTunnel
<1>3. RecordsApart /\ Read /\ Known
  BY DEF Init, RecordsApart, Read, Known
<1>4. DeletesWhatLeadsHere /\ Mine
  BY MineEmpty DEF Init, DeletesWhatLeadsHere, Mine
<1>5. AllOurs /\ RunGoesLive
  BY DEF Init, AllOurs, RunGoesLive, LiveStages, CleanStages
<1>6. TokenReaches
  BY DEF Init, TokenReaches, Empty
<1>. QED
  BY <1>1, <1>2, <1>3, <1>4, <1>5, <1>6 DEF IInv, Reachable, Undisturbed

LEMMA StutterIInv == ASSUME IInv, UNCHANGED vars PROVE IInv'
<1>1. /\ UNCHANGED <<tunnels, records, routes, disk, token, origin, pc, mem, host, org, recs, tun, rec>>
      /\ UNCHANGED <<config, prev, todo, cur, fails, others, moves, adopted>>
  BY DEF vars, cloud, local, budget
<1>2. TypeOK' /\ Holds'
  BY <1>1 DEF IInv, TypeOK, Holds
<1>3. Remembered'
  BY <1>1 DEF IInv, Remembered, NoOrphanTunnel, NoSecondTunnel, Account
<1>4. RecordsApart' /\ Read'
  BY <1>1 DEF IInv, RecordsApart, Read
<1>5. Known'
  BY <1>1 DEF IInv, Known, Ours
<1>6. DeletesWhatLeadsHere' /\ Mine'
  BY <1>1 DEF IInv, DeletesWhatLeadsHere, Mine, MineIn
<1>7. AllOurs' = AllOurs /\ RunGoesLive' = RunGoesLive
  BY <1>1 DEF AllOurs, RunGoesLive, HostIsLive, HostLeads
<1>8. TokenReaches' = TokenReaches
  BY <1>1 DEF TokenReaches, Reaches
<1>. QED
  BY <1>1, <1>2, <1>3, <1>4, <1>5, <1>6, <1>7, <1>8 DEF IInv, Reachable, Undisturbed

LEMMA IInvKept == ASSUME IInv, [Next]_vars PROVE IInv'
<1>1. CASE Next
  BY <1>1, TypesKept, RememberedKept, ApartKept, ReadKept, KnownKept, MineKept, RemovesKept, ReachableKept DEF IInv
<1>. QED
  BY <1>1, StutterIInv

\* The records that are gone after a step, when others did nothing.
LEMMA RemovalIsOurs ==
  ASSUME IInv, [Next]_vars
  PROVE  [others' = others =>
            \A r \in records : (\A q \in records' : q.id # r.id) =>
              /\ r.creator = "us" \/ r.id \in adopted
              /\ r.host # host
              /\ ~r.edited => r.type = "CNAME" /\ r.to = mem.dns[r.host].tun]_vars
<1> SUFFICES ASSUME Next, others' = others, NEW r \in records, \A q \in records' : q.id # r.id
             PROVE  /\ r.creator = "us" \/ r.id \in adopted
                    /\ r.host # host
                    /\ ~r.edited => r.type = "CNAME" /\ r.to = mem.dns[r.host].tun
  OBVIOUS
<1>1. CASE Calm
  BY <1>1, CalmRecords
<1>2. CASE PostDns /\ ~Conflict
  BY <1>2, PostDnsDoes
<1>3. CASE PatchDns /\ ~Conflict
  BY <1>3, PatchDnsDoes DEF IInv, Changed
<1>4. CASE CleanStep
  <2>1. pc = "clean_delete" /\ r.id = mem.dns[cur].id
    BY <1>4 DEF CleanStep, CleanGet, CleanDelete, CleanFails, CleanLookup, cloud
  <2>2. cur \in Hosts /\ cur # host /\ mem.dns[cur] # None
    BY <2>1 DEF IInv, Holds
  <2>3. r.creator = "us" \/ r.id \in adopted
    BY <2>1, <2>2 DEF IInv, Mine, MineIn
  <2>. QED
    BY <2>1, <2>2, <2>3 DEF IInv, DeletesWhatLeadsHere
<1>5. CASE Outside
  <2>1. others \in Nat
    BY CfDeployAssumption DEF IInv, TypeOK
  <2>2. records' = records
    BY <1>5, <2>1, OutsideDoes DEF IInv
  <2>. QED
    BY <2>2
<1>. QED
  BY <1>1, <1>2, <1>3, <1>4, <1>5, NextCases

\* The invariant holds at every step of every deployment (core.deploy).
THEOREM DeploymentInvariant == Spec => []IInv
<1>1. Init => IInv
  BY InitIInv
<1>2. IInv /\ [Next]_vars => IInv'
  BY IInvKept
<1>. QED
  BY <1>1, <1>2, PTL DEF Spec

\* The intent saved before the POST is enough: wherever core.deploy is cut
\* short, the database on disk knows the router's tunnel of each account, and
\* no retry makes a second one.
THEOREM TunnelIsRemembered == Spec => []TunnelRemembered
<1>1. IInv => TunnelRemembered
  BY DEF IInv, Remembered, TunnelRemembered
<1>. QED
  BY <1>1, DeploymentInvariant, PTL

\* The same for the DNS record: one that core.deploy made, and nobody edited,
\* stays known to the database until it is deleted.
THEOREM NoRecordIsOrphan == Spec => []NoOrphanRecord
<1>1. IInv => NoOrphanRecord
  BY DEF IInv, Known, Ours, Knows, NoOrphanRecord
<1>. QED
  BY <1>1, DeploymentInvariant, PTL

\* The loop over state.dns deletes a record only if the router made it, or took
\* it in while the making of one was unanswered; never the one of the hostname
\* just published, nor one that nobody edited and that leads elsewhere.
THEOREM CleanupIsSafe == Spec => RemovesOnlyItsOwn
<1>1. IInv /\ [Next]_vars =>
        [others' = others =>
           \A r \in records : (\A q \in records' : q.id # r.id) =>
             /\ r.creator = "us" \/ r.id \in adopted
             /\ r.host # host
             /\ ~r.edited => r.type = "CNAME" /\ r.to = mem.dns[r.host].tun]_vars
  BY RemovalIsOurs
<1>. QED
  BY <1>1, DeploymentInvariant, PTL DEF Spec, RemovesOnlyItsOwn

\* Make before break: once core.deploy has saved an active deployment, the
\* router is reachable at every later step, whatever is cut short, as long as
\* nobody else changes the account.
THEOREM StaysReachable == Spec => []AlwaysReachable
<1>1. ASSUME IInv, disk.active # None, others = 0
      PROVE  token # None /\ \E h \in Hosts : Served(h)
  <2>1. Reaches(token)
    BY <1>1 DEF IInv, Reachable, Undisturbed, TokenReaches
  <2>2. token # None
    BY <2>1, CfDeployAssumption DEF Reaches
  <2>. QED
    BY <2>1, <2>2 DEF Reaches, Served, RecordsOf, Leads
<1>2. IInv => AlwaysReachable
  BY <1>1 DEF AlwaysReachable
<1>. QED
  BY <1>2, DeploymentInvariant, PTL

-----------------------------------------------------------------------------
(* The lock.  The directory itself does not show a deployment, for it may   *)
(* have grown old.  What does is that the job file names it, which needs    *)
(* that nobody else has written to it, and that needs that nobody else      *)
(* holds the lock.                                                          *)

\* Unless two processes have held the lock at one time, one at most holds it.
OneHolder ==
  ~shared => \A p, q \in Procs : Holding(p) /\ Holding(q) => p = q

\* The job file names the deployment under way.
JobSpeaks ==
  ~shared => \A q \in Procs : At(q, "deploy") => job.phase = "deploying" /\ job.pid = q

Proc == [pc : Steps, kind : Kinds \cup {Nobody}]

TypeCore ==
  /\ lock \in {"none", "young", "old"} /\ job \in Jobs /\ proc \in [Procs -> Proc]
  /\ crashes \in 0 .. MaxCrashes /\ shared \in BOOLEAN

LockCore == TypeCore /\ OneHolder /\ JobSpeaks

\* A copy of the job names the deployment that has gone on since it was read.
CopySpeaks ==
  ~shared => \A p \in Procs : \A q \in since[p] :
    At(q, "deploy") /\ saw[p].phase = "deploying" /\ saw[p].pid = q

CopyInv ==
  /\ saw \in [Procs -> Jobs] /\ since \in [Procs -> SUBSET Procs]
  /\ CopySpeaks

LockInv == LockCore /\ CopyInv

Before == {"idle", "try", "look", "stat", "alive", "steal", "again"}

-----------------------------------------------------------------------------
LEMMA GoneIsProc == Gone \in Proc /\ Gone.pc = "idle"
  BY DEF Gone, Proc, Steps, Kinds, Slow

\* Moving a process changes no other one.
LEMMA GotoMoves ==
  ASSUME TypeCore, NEW p \in Procs, NEW step \in Steps, Goto(p, step)
  PROVE  /\ proc' \in [Procs -> Proc]
         /\ proc'[p].pc = step /\ proc'[p].kind = proc[p].kind
         /\ \A q \in Procs \ {p} : proc'[q] = proc[q]
  BY DEF TypeCore, Goto, Proc

\* The end of a process changes no other one, and the job only if it was its.
LEMMA ExitLeaves ==
  ASSUME TypeCore, NEW p \in Procs, Exit(p)
  PROVE  /\ proc' \in [Procs -> Proc]
         /\ proc'[p].pc = "idle"
         /\ \A q \in Procs \ {p} : proc'[q] = proc[q]
         /\ job' \in Jobs
         /\ job.pid # p => job' = job
<1>1. job \in Jobs /\ proc \in [Procs -> Proc]
  BY DEF TypeCore
<1>2. Orphaned(job, p) \in Jobs /\ (job.pid # p => Orphaned(job, p) = job)
  BY <1>1 DEF Orphaned, Jobs
<1>. QED
  BY <1>1, <1>2, GoneIsProc DEF Exit, Ended

\* A step that moves one process, gives nobody the lock, and writes the job
\* only with the lock in hand or by ending, keeps the invariant.
LEMMA MoveKeeps ==
  ASSUME LockCore, NEW p \in Procs, proc' \in [Procs -> Proc],
         \A q \in Procs \ {p} : proc'[q] = proc[q],
         proc[p].pc \in Before => proc'[p].pc \in Before,
         proc'[p].pc = "deploy" => job'.phase = "deploying" /\ job'.pid = p,
         job' = job \/ Holding(p) \/ (job.pid # p => job' = job),
         job' \in Jobs,
         lock' \in {"none", "young", "old"}, crashes' \in 0 .. MaxCrashes, UNCHANGED shared
  PROVE  LockCore'
<1>1. TypeCore'
  BY DEF LockCore, TypeCore, Proc
<1>2. OneHolder'
  BY DEF LockCore, OneHolder, Holding, Before
<1>3. JobSpeaks'
  <2> SUFFICES ASSUME ~shared, NEW q \in Procs, proc'[q].pc = "deploy"
               PROVE  job'.phase = "deploying" /\ job'.pid = q
    BY DEF JobSpeaks, At
  <2>1. CASE q = p
    BY <2>1
  <2>2. CASE q # p
    <3>1. proc[q].pc = "deploy" /\ job.phase = "deploying" /\ job.pid = q
      BY <2>2 DEF LockCore, JobSpeaks, At
    <3>2. ~Holding(p)
      BY <2>2, <3>1 DEF LockCore, OneHolder, Holding
    <3>. QED
      BY <2>2, <3>1, <3>2
  <2>. QED
    BY <2>1, <2>2
<1>. QED
  BY <1>1, <1>2, <1>3 DEF LockCore

LEMMA InitLockCore == LockInit => LockCore
<1> SUFFICES ASSUME LockInit PROVE LockCore
  OBVIOUS
<1>1. \A p \in Procs : proc[p].pc = "idle"
  BY GoneIsProc DEF LockInit
<1>2. TypeCore
  <2>1. shared \in BOOLEAN
    BY Zenon DEF LockInit
  <2>2. proc \in [Procs -> Proc] /\ crashes \in 0 .. MaxCrashes
    BY CfLockAssumption, GoneIsProc DEF LockInit
  <2>3. lock = "none" /\ job \in Jobs
    BY DEF LockInit, Phases, Jobs, NoJob
  <2>. QED
    BY <2>1, <2>2, <2>3 DEF TypeCore, Proc
<1>3. OneHolder /\ JobSpeaks
  BY <1>1 DEF OneHolder, JobSpeaks, Holding, At
<1>. QED
  BY <1>2, <1>3 DEF LockCore

-----------------------------------------------------------------------------
LEMMA CallKeeps == ASSUME LockCore, NEW p \in Procs, NEW k \in {"rpc", "cli", "stop"}, Call(p, k) PROVE LockCore'
<1>1. [pc |-> "try", kind |-> k] \in Proc
  BY DEF Proc, Steps, Slow, Kinds
<1>2. /\ proc' \in [Procs -> Proc] /\ proc'[p].pc = "try"
      /\ \A q \in Procs \ {p} : proc'[q] = proc[q]
  BY <1>1 DEF Call, LockCore, TypeCore, Proc
<1>. QED
  BY <1>2, MoveKeeps DEF Call, LockCore, TypeCore, Before

\* A process that makes the directory is alone, or the sharing is noted.
LEMMA MkdirKeeps ==
  ASSUME LockCore, NEW p \in Procs, proc[p].pc \in {"try", "again"}, Mkdir(p), UNCHANGED crashes
  PROVE  LockCore'
<1>1. "hold" \in Steps /\ TypeCore /\ Goto(p, "hold")
  BY DEF Steps, LockCore, Mkdir
<1>2. /\ proc' \in [Procs -> Proc] /\ proc'[p].pc = "hold"
      /\ \A q \in Procs \ {p} : proc'[q] = proc[q]
  BY <1>1, GotoMoves
<1>3. shared' \in BOOLEAN /\ (~shared' => ~shared /\ \A q \in Procs : ~Holding(q))
  BY DEF Mkdir, LockCore, TypeCore
<1>4. TypeCore'
  BY <1>2, <1>3 DEF Mkdir, LockCore, TypeCore, Proc
<1>5. OneHolder'
  BY <1>2, <1>3 DEF OneHolder, Holding
<1>6. JobSpeaks'
  BY <1>2, <1>3 DEF JobSpeaks, At, Holding
<1>. QED
  BY <1>4, <1>5, <1>6 DEF LockCore

\* The worker takes over the place of the process that forked it.
LEMMA ForkKeeps == ASSUME LockCore, NEW p \in Procs, Fork(p) PROVE LockCore'
<1>1. PICK c \in Procs :
        /\ At(c, "idle")
        /\ proc' = [proc EXCEPT ![p] = Gone, ![c] = [pc |-> "queued", kind |-> "worker"]]
  BY DEF Fork
<1>2. At(p, "fork") /\ p # c
  BY <1>1 DEF Fork, At
<1>3. [pc |-> "queued", kind |-> "worker"] \in Proc
  BY DEF Proc, Steps, Slow, Kinds
<1>4. /\ proc' \in [Procs -> Proc] /\ proc'[p].pc = "idle" /\ proc'[c].pc = "queued"
      /\ \A q \in Procs \ {p, c} : proc'[q] = proc[q]
  BY <1>1, <1>2, <1>3, GoneIsProc DEF LockCore, TypeCore, Proc
<1>5. job' \in Jobs
  BY DEF Fork, Ended, Orphaned, LockCore, TypeCore, Jobs
<1>6. TypeCore'
  BY <1>4, <1>5 DEF Fork, LockCore, TypeCore, Proc
<1>7. OneHolder'
  BY <1>2, <1>4 DEF Fork, LockCore, OneHolder, Holding, At
<1>8. JobSpeaks'
  <2> SUFFICES ASSUME ~shared, NEW q \in Procs, proc'[q].pc = "deploy" PROVE FALSE
    BY DEF JobSpeaks, At, Fork
  <2>. QED
    BY <1>2, <1>4 DEF LockCore, OneHolder, Holding, At
<1>. QED
  BY <1>6, <1>7, <1>8 DEF LockCore

\* The steps before the lock is held.
LEMMA WaitingKeeps ==
  ASSUME LockCore, NEW p \in Procs, 
         TryLock(p) \/ ReadJob(p) \/ StatLock(p) \/ LookAtJob(p) \/ RemoveStale(p) \/ TryAgain(p)
  PROVE  LockCore'
<1>1. TypeCore /\ {"look", "stat", "alive", "steal", "again"} \subseteq Steps
  BY DEF LockCore, Steps
<1>2. CASE Mkdir(p) /\ UNCHANGED crashes /\ proc[p].pc \in {"try", "again"}
  BY <1>2, MkdirKeeps
<1>3. CASE /\ proc[p].pc \in Before /\ UNCHANGED <<job, crashes, shared>>
           /\ \E s \in {"look", "stat", "alive", "steal", "again"} : Goto(p, s)
           /\ lock' \in {lock, "none"}
  BY <1>1, <1>3, GotoMoves, MoveKeeps DEF LockCore, TypeCore, Before
<1>4. CASE /\ proc[p].pc \in Before /\ Exit(p) /\ UNCHANGED <<lock, crashes, shared>>
  BY <1>1, <1>4, ExitLeaves, MoveKeeps DEF LockCore, TypeCore, Before
<1>. QED
  BY <1>2, <1>3, <1>4
  DEF TryLock, ReadJob, StatLock, LookAtJob, RemoveStale, TryAgain, At, Before

\* The steps of a process that holds the lock, but for the fork.
LEMMA HoldingKeeps ==
  ASSUME LockCore, NEW p \in Procs,
         \/ Begin(p) \/ BadSettings(p) \/ ForkFails(p) \/ queued(p) \/ Progress(p) \/ Deployed(p)
         \/ DeployFails(p) \/ Stopped(p) \/ StopFails(p) \/ Rmdir(p) \/ OuterRmdir(p)
  PROVE  LockCore'
<1>1. /\ TypeCore
      /\ {"stopping", "origin", "fork", "outer", "deploy", "rmdir", "rmdir_error"} \subseteq Steps
  BY DEF LockCore, Steps, Slow
<1>2. Holding(p) /\ proc[p].pc \notin Before
  BY DEF Holding, At, Before, Begin, BadSettings, ForkFails, queued, Progress, Deployed,
         DeployFails, Stopped, StopFails, Rmdir, OuterRmdir
<1>3. CASE /\ \E s \in {"stopping", "origin", "fork", "outer", "rmdir", "rmdir_error"} : Goto(p, s)
           /\ job' \in Jobs
           /\ lock' \in {lock, "none"} /\ UNCHANGED <<crashes, shared>>
  BY <1>1, <1>2, <1>3, GotoMoves, MoveKeeps DEF LockCore, TypeCore
<1>4. CASE /\ Goto(p, "deploy") /\ job' = [phase |-> "deploying", pid |-> p]
           /\ UNCHANGED <<lock, crashes, shared>>
  <2>1. job' \in Jobs /\ job'.phase = "deploying" /\ job'.pid = p
    BY <1>4 DEF Phases, Jobs
  <2>. QED
    BY <1>1, <1>2, <1>4, <2>1, GotoMoves, MoveKeeps DEF LockCore, TypeCore
<1>5. CASE Exit(p) /\ lock' \in {lock, "none"} /\ UNCHANGED <<crashes, shared>>
  BY <1>1, <1>2, <1>5, ExitLeaves, MoveKeeps DEF LockCore, TypeCore
<1>6. /\ job \in Jobs
      /\ \A ph \in {"deploying", "over"}, i \in {p, Nobody} :
           [phase |-> ph, pid |-> i] \in Jobs
  BY <1>1 DEF TypeCore, Phases, Jobs
<1>. QED
  BY <1>3, <1>4, <1>5, <1>6
  DEF Begin, BadSettings, ForkFails, queued, Progress, Deployed, DeployFails, Stopped, StopFails,
      Rmdir, OuterRmdir, NoJob

LEMMA CrashKeeps == ASSUME LockCore, NEW p \in Procs, Crash(p) PROVE LockCore'
<1>1. TypeCore /\ crashes' \in 0 .. MaxCrashes
  BY CfLockAssumption DEF LockCore, TypeCore, Crash
<1>. QED
  BY <1>1, ExitLeaves, MoveKeeps DEF Crash, LockCore, TypeCore, Before

LEMMA AgeKeeps == ASSUME LockCore, Age PROVE LockCore'
  BY DEF LockCore, TypeCore, OneHolder, JobSpeaks, Holding, At, Age

LEMMA LockCoreKept == LockCore /\ [LockNext]_lockVars => LockCore'
<1> SUFFICES ASSUME LockCore, [LockNext]_lockVars PROVE LockCore'
  OBVIOUS
<1>1. CASE Caller
  BY <1>1, CallKeeps DEF Caller
<1>2. CASE Age
  BY <1>2, AgeKeeps
<1>3. ASSUME NEW p \in Procs, Step(p) \/ Progress(p) \/ Crash(p) PROVE LockCore'
  BY <1>3, WaitingKeeps, HoldingKeeps, ForkKeeps, CrashKeeps DEF Step
<1>4. CASE UNCHANGED lockVars
  BY <1>4 DEF lockVars, LockCore, TypeCore, OneHolder, JobSpeaks, Holding, At
<1>. QED
  BY <1>1, <1>2, <1>3, <1>4 DEF LockNext

-----------------------------------------------------------------------------
(* The copies of the job that callers of lock() go by *)

\* How a step of p changes the processes and the copies.
StepOf(p) ==
  /\ \A r \in Procs \ {p} : proc'[r] = proc[r] \/ (proc[r].pc = "idle" /\ proc'[r].pc = "queued")
  /\ \/ UNCHANGED saw /\ (At(p, "look") => proc'[p].pc \notin {"stat", "alive"})
     \/ Ended(p) /\ proc'[p].pc = "idle"
     \/ At(p, "look") /\ saw' = [saw EXCEPT ![p] = job]
     \/ saw' = [saw EXCEPT ![p] = NoJob] /\ proc'[p].pc = "steal"

LEMMA CopyTypes ==
  ASSUME LockInv, NEW p \in Procs, StepOf(p), Watch
  PROVE  saw' \in [Procs -> Jobs] /\ since' \in [Procs -> SUBSET Procs]
<1>1. NoJob \in Jobs /\ job \in Jobs /\ saw \in [Procs -> Jobs] /\ since \in [Procs -> SUBSET Procs]
  BY DEF NoJob, Jobs, Phases, LockInv, LockCore, TypeCore, CopyInv
<1>2. \A j \in Jobs : Orphaned(j, p) \in Jobs
  BY DEF Orphaned, Jobs
<1>3. saw' \in [Procs -> Jobs]
  BY <1>1, <1>2 DEF StepOf, Ended
<1>4. since' \in [Procs -> SUBSET Procs]
  BY <1>1 DEF Watch
<1>. QED
  BY <1>3, <1>4

\* A step keeps what the copies say.
LEMMA CopyKept ==
  ASSUME LockInv, NEW p \in Procs, StepOf(p), Watch, ~shared' => ~shared
  PROVE  CopyInv'
<1> SUFFICES ASSUME ~shared', NEW r \in Procs, NEW q \in since'[r]
             PROVE  At(q, "deploy")' /\ saw'[r].phase = "deploying" /\ saw'[r].pid = q
  BY CopyTypes DEF CopyInv, CopySpeaks
<1>1. /\ saw \in [Procs -> Jobs] /\ since \in [Procs -> SUBSET Procs] /\ job \in Jobs
      /\ q \in Procs /\ proc'[r].pc \in {"stat", "alive"} /\ ~shared
  BY CopyTypes DEF Watch, LockInv, LockCore, TypeCore, CopyInv
<1>2. CASE At(r, "look")
  <2>1. At(q, "deploy") /\ job.phase = "deploying" /\ job.pid = q
    BY <1>1, <1>2 DEF Watch, LockInv, LockCore, JobSpeaks
  <2>2. r = p /\ q # p
    BY <1>1, <1>2, <2>1 DEF StepOf, At
  <2>3. saw' = [saw EXCEPT ![p] = job] /\ proc'[q] = proc[q]
    BY <1>1, <1>2, <2>1, <2>2 DEF StepOf, At
  <2>. QED
    BY <1>1, <2>1, <2>2, <2>3 DEF At
<1>3. CASE ~At(r, "look")
  <2>1. q \in since[r] /\ proc'[q].pc = "deploy"
    BY <1>1, <1>3 DEF Watch
  <2>2. saw[r].phase = "deploying" /\ saw[r].pid = q
    BY <1>1, <2>1 DEF LockInv, CopyInv, CopySpeaks
  <2>3. CASE saw'[r] = saw[r]
    BY <2>1, <2>2, <2>3 DEF At
  <2>4. CASE saw'[r] # saw[r]
    <3>1. Ended(p) /\ proc'[p].pc = "idle" /\ r # p
      BY <1>1, <1>3, <2>4 DEF StepOf, At
    <3>2. saw'[r] = Orphaned(saw[r], p) /\ q # p
      BY <1>1, <2>1, <3>1 DEF Ended
    <3>. QED
      BY <2>2, <2>4, <3>2 DEF Orphaned
  <2>. QED
    BY <2>3, <2>4
<1>. QED
  BY <1>2, <1>3

\* The steps of a process move it alone, except for a fork.
LEMMA StepMoves ==
  ASSUME LockCore, NEW p \in Procs, Step(p) \/ Progress(p) \/ Crash(p)
  PROVE  StepOf(p) /\ Watch /\ (~shared' => ~shared)
<1>1. /\ TypeCore
      /\ {"hold", "look", "stat", "alive", "steal", "again", "stopping", "origin", "fork", "outer",
          "deploy", "rmdir", "rmdir_error"} \subseteq Steps
  BY DEF LockCore, Steps, Slow
<1>2. Watch /\ (~shared' => ~shared)
  BY <1>1 DEF Step, Progress, Crash, TryLock, Mkdir, ReadJob, StatLock, LookAtJob, RemoveStale,
         TryAgain, Begin, BadSettings, Fork, ForkFails, queued, Deployed, DeployFails, Stopped,
         StopFails, Rmdir, OuterRmdir, TypeCore
<1> SUFFICES StepOf(p)
  BY <1>2
<1>3. CASE /\ ~At(p, "look") /\ UNCHANGED saw
           /\ \E s \in Steps : Goto(p, s)
  BY <1>1, <1>3, GotoMoves DEF StepOf
<1>4. CASE Exit(p)
  BY <1>1, <1>4, ExitLeaves DEF StepOf, Exit
<1>5. CASE ReadJob(p)
  BY <1>1, <1>5, GotoMoves DEF StepOf, ReadJob
<1>6. CASE LookAtJob(p)
  BY <1>1, <1>4, <1>6, GotoMoves DEF StepOf, LookAtJob
<1>7. CASE Fork(p)
  <2>1. PICK c \in Procs :
          /\ At(c, "idle")
          /\ proc' = [proc EXCEPT ![p] = Gone, ![c] = [pc |-> "queued", kind |-> "worker"]]
    BY <1>7 DEF Fork
  <2>2. p # c
    BY <1>7, <2>1 DEF Fork, At
  <2>3. proc'[p].pc = "idle" /\ proc'[c].pc = "queued" /\ \A q \in Procs \ {p, c} : proc'[q] = proc[q]
    BY <1>1, <2>1, <2>2, GoneIsProc DEF TypeCore
  <2>. QED
    BY <1>7, <2>1, <2>3 DEF StepOf, Fork, At
<1>8. \/ ~At(p, "look") /\ UNCHANGED saw /\ \E s \in Steps : Goto(p, s)
      \/ Exit(p) \/ ReadJob(p) \/ LookAtJob(p) \/ Fork(p)
  BY <1>1 DEF Step, Progress, Crash, TryLock, Mkdir, StatLock, RemoveStale,
         TryAgain, Begin, BadSettings, ForkFails, queued, Deployed, DeployFails, Stopped,
         StopFails, Rmdir, OuterRmdir, At
<1>. QED
  BY <1>3, <1>4, <1>5, <1>6, <1>7, <1>8

LEMMA CallMoves ==
  ASSUME LockCore, NEW p \in Procs, NEW k \in {"rpc", "cli", "stop"}, Call(p, k), Watch
  PROVE  StepOf(p) /\ (~shared' => ~shared)
  BY DEF Call, StepOf, At, LockCore, TypeCore

LEMMA InitLockInv == LockInit => LockInv
<1> SUFFICES ASSUME LockInit PROVE CopyInv
  BY InitLockCore DEF LockInv
<1>. QED
  BY DEF LockInit, CopyInv, CopySpeaks, NoJob, Jobs, Phases

LEMMA LockInvKept == LockInv /\ [LockNext]_lockVars => LockInv'
<1> SUFFICES ASSUME LockInv, [LockNext]_lockVars PROVE LockInv'
  OBVIOUS
<1>1. LockCore /\ LockCore'
  BY LockCoreKept DEF LockInv
<1>2. CASE Caller
  BY <1>1, <1>2, CallMoves, CopyKept DEF Caller, LockInv
<1>3. CASE Age
  BY <1>1, <1>3 DEF Age, LockInv, CopyInv, CopySpeaks, At
<1>4. ASSUME NEW p \in Procs, Step(p) \/ Progress(p) \/ Crash(p) PROVE LockInv'
  BY <1>1, <1>4, StepMoves, CopyKept DEF LockInv
<1>5. CASE UNCHANGED lockVars
  BY <1>1, <1>5 DEF lockVars, LockInv, CopyInv, CopySpeaks, At
<1>. QED
  BY <1>2, <1>3, <1>4, <1>5 DEF LockNext

-----------------------------------------------------------------------------
\* Only its own look at its copy makes a process go and steal the lock.
LEMMA StealAfterLook ==
  ASSUME LockInv, LockNext, NEW p \in Procs, At(p, "alive"), proc'[p].pc = "steal"
  PROVE  ~Deploying(saw[p])
<1>0. LockCore
  BY DEF LockInv
<1>1. CASE Caller \/ Age
  BY <1>0, <1>1 DEF Caller, Call, Age, At, LockCore, TypeCore
<1>2. ASSUME NEW r \in Procs, Step(r) \/ Progress(r) \/ Crash(r) PROVE ~Deploying(saw[p])
  <2>1. r = p
    BY <1>0, <1>2, StepMoves DEF StepOf, At
  <2>2. LookAtJob(p) \/ Crash(p)
    BY <1>2, <2>1
    DEF At, Step, TryLock, ReadJob, StatLock, LookAtJob, RemoveStale, TryAgain, Begin, BadSettings,
        Fork, ForkFails, queued, Progress, Deployed, DeployFails, Stopped, StopFails, Rmdir, OuterRmdir
  <2>3. ~Exit(p)
    BY <1>0, ExitLeaves DEF LockCore
  <2>. QED
    BY <2>2, <2>3 DEF LookAtJob, Crash
<1>. QED
  BY <1>1, <1>2 DEF LockNext

\* Lock and job file keep their form, and a deployment that has asked for its
\* origin, and that nobody got in beside, is never taken for a stale lock by a
\* caller who reads the job while it goes on, however old the directory is and
\* whatever happens between the three looks of lock() (runtime.lua).
THEOREM LockKept == LockSpec => LockIsKept
<1>1. LockInv /\ [LockNext]_lockVars =>
        [~shared => \A p \in Procs :
            At(p, "alive") /\ proc'[p].pc = "steal" => since[p] = {}]_lockVars
  <2> SUFFICES ASSUME LockInv, LockNext, ~shared, NEW p \in Procs,
                      At(p, "alive"), proc'[p].pc = "steal", NEW q \in since[p]
               PROVE  FALSE
    BY DEF LockInv, CopyInv
  <2>1. q \in Procs /\ saw[p].phase = "deploying" /\ saw[p].pid = q
    BY DEF LockInv, CopyInv, CopySpeaks
  <2>2. Deploying(saw[p])
    BY <2>1, CfLockAssumption DEF Deploying, active_job
  <2>. QED
    BY <2>2, StealAfterLook
<1>2. LockInv => LockTypeOK
  BY DEF LockInv, LockCore, TypeCore, CopyInv, LockTypeOK, Proc
<1>. QED
  BY <1>1, <1>2, InitLockInv, LockInvKept, PTL DEF LockSpec, LockIsKept, DeploymentKeepsLock
=============================================================================
