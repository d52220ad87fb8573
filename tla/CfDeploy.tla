------------------------------ MODULE CfDeploy ------------------------------
(***************************************************************************)
(* core.deploy of the Cloudflare Tunnel plugin: one router that publishes  *)
(* its web page under a hostname, against a Cloudflare account that other  *)
(* people edit too.                                                        *)
(*                                                                         *)
(* A step is one request to Cloudflare, or one save of the ownership       *)
(* database.  Fail may end the deployment between any two of them: it is a *)
(* refused request, an answer that was lost after the request took effect, *)
(* a failed save, or a power cut.  What survives is Cloudflare's state and *)
(* the database on disk; the next deployment starts from those.            *)
(*                                                                         *)
(* A hostname stands for its zone too (every hostname has one zone, hence  *)
(* one key of state.dns), and AccountOf gives the account of that zone.    *)
(***************************************************************************)
EXTENDS Integers, FiniteSets

CONSTANTS Hosts,       \* hostnames the user may publish
          Foreign,     \* hostnames of routes that have nothing to do with us
          Accounts, AccountOf,
          TunIds,      \* bound: tunnel ids that can be told apart
          RecIds,      \* bound: DNS record ids that can be told apart
          Origins,     \* local services; see origin() of runtime.lua
          MaxFails,    \* bound: deployments cut short
          MaxOthers,   \* bound: changes made by somebody else
          MaxOrigins,  \* bound: changes of the local origin
          MaxTroubles, \* bound: the three together
          Elsewhere,   \* a DNS target or a service that is not ours
          None

ASSUME CfDeployAssumption ==
  /\ AccountOf \in [Hosts -> Accounts]
  /\ TunIds \subseteq Nat \ {0} /\ RecIds \subseteq Nat \ {0}
  /\ {MaxFails, MaxOthers, MaxOrigins, MaxTroubles} \subseteq Nat
  /\ {None, Elsewhere} \cap (Hosts \cup Accounts \cup Origins \cup TunIds) = {}
  /\ None # Elsewhere
  /\ Hosts \cap Foreign = {}

VARIABLES
  \* Cloudflare
  tunnels,   \* live tunnels that carry this router's name
  records,   \* DNS records
  routes,    \* tunnel -> hostname -> service of its ingress rule, or None
  \* the router
  disk,      \* state.json
  token,     \* the tunnel of the connector token file, or None
  origin,    \* what origin() finds
  \* the running deployment
  pc, mem, host, org, recs, tun, rec, config, prev, todo, cur,
  adopted,   \* history: records taken in while the making of one was unanswered
  \* budgets
  fails, others, moves

cloud  == <<tunnels, records, routes>>
local  == <<host, org, recs, tun, rec, config, prev, todo, cur>>
budget == <<fails, others, moves, adopted>>   \* and the history
MoreTrouble == fails + others + moves < MaxTroubles
vars   == <<cloud, disk, token, origin, pc, mem, local, budget>>

Names     == Hosts \cup Foreign
Route     == [Names -> Origins \cup {Elsewhere, None}]
NoRoutes  == [n \in Names |-> None]
\* creator and edited are history: who made the record, whether others changed it.
Record    == [id : RecIds, host : Hosts, type : {"CNAME", "A"},
              to : TunIds \cup {Elsewhere}, proxied : BOOLEAN,
              creator : {"us", "other"}, edited : BOOLEAN]
Tunnel    == [id : TunIds, acc : Accounts, managed : BOOLEAN, creator : {"us", "other"}]
SavedTun  == [id : TunIds \cup {0}, pending : BOOLEAN]
SavedDns  == [id : RecIds \cup {0}, tun : TunIds, pending : BOOLEAN]
Active    == [host : Hosts, tun : TunIds, org : Origins]
Database  == [tunnels : [Accounts -> SavedTun \cup {None}],
              dns     : [Hosts -> SavedDns \cup {None}],
              active  : Active \cup {None}]
Empty     == [tunnels |-> [a \in Accounts |-> None],
              dns     |-> [h \in Hosts |-> None],
              active  |-> None]

\* None stands for what is absent.
ASSUME NoneAssumption == None \notin SavedTun \cup SavedDns \cup Active \cup Record

Stages == {"idle", "records", "tunnel", "intent", "post_tunnel", "save_tunnel", "config",
           "dns", "post_dns", "save_dns", "patch", "put", "token", "restart",
           "save_active", "clean", "clean_get", "clean_delete", "verify"}

TypeOK ==
  /\ tunnels \subseteq Tunnel /\ records \subseteq Record
  /\ routes \in [TunIds -> Route]
  /\ disk \in Database /\ mem \in Database
  /\ token \in TunIds \cup {None} /\ prev \in TunIds \cup {None}
  /\ origin \in Origins /\ org \in Origins \cup {None}
  /\ pc \in Stages /\ host \in Hosts \cup {None} /\ cur \in Hosts \cup {None}
  /\ recs \subseteq Record /\ rec \in Record \cup {None}
  /\ tun \in TunIds \cup {0} /\ config \in Route /\ todo \subseteq Hosts
  /\ fails \in 0 .. MaxFails /\ others \in 0 .. MaxOthers /\ moves \in 0 .. MaxOrigins
  /\ adopted \subseteq RecIds

Init ==
  /\ tunnels = {} /\ records = {} /\ routes = [t \in TunIds |-> NoRoutes]
  /\ disk = Empty /\ mem = Empty /\ token = None /\ origin \in Origins
  /\ pc = "idle" /\ host = None /\ org = None /\ recs = {} /\ tun = 0 /\ rec = None
  /\ config = NoRoutes /\ prev = None /\ todo = {} /\ cur = None
  /\ fails = 0 /\ others = 0 /\ moves = 0 /\ adopted = {}

Account      == AccountOf[host]
Saved        == mem.tunnels[Account]

RecordsOf(h) == {r \in records : r.host = h}

TunnelsOf(a) == {t \in tunnels : t.acc = a}
Live(t)      == \E x \in tunnels : x.id = t

\* Ids Cloudflare has not given out.  An id that nobody remembers may come back.
DnsIds(db)   == {db.dns[h].id : h \in {k \in Hosts : db.dns[k] # None}}
TunnelIds(db) ==
  {db.tunnels[a].id : a \in {b \in Accounts : db.tunnels[b] # None}}
    \cup {db.dns[h].tun : h \in {k \in Hosts : db.dns[k] # None}}
    \cup (IF db.active = None THEN {} ELSE {db.active.tun})
FreeRecs == RecIds \ ({r.id : r \in records \cup recs} \cup DnsIds(disk) \cup DnsIds(mem) \cup adopted
                        \cup (IF rec = None THEN {} ELSE {rec.id}))
FreeTuns == TunIds \ ({t.id : t \in tunnels} \cup {r.to : r \in records \cup recs}
                        \cup TunnelIds(disk) \cup TunnelIds(mem) \cup {tun, token, prev})
Least(S) == CHOOSE x \in S : \A y \in S : x <= y

-----------------------------------------------------------------------------
(* Leaving the deployment *)

\* The in-memory state and every local of the run are gone.
Quit ==
  /\ pc' = "idle" /\ mem' = Empty
  /\ host' = None /\ org' = None /\ recs' = {} /\ tun' = 0 /\ rec' = None
  /\ config' = NoRoutes /\ prev' = None /\ todo' = {} /\ cur' = None

Fail ==
  /\ pc # "idle" /\ fails < MaxFails /\ MoreTrouble
  /\ fails' = fails + 1
  /\ Quit
  /\ UNCHANGED <<cloud, disk, token, origin, others, moves, adopted>>

\* fail("conflict", ...): nothing is changed, the user may try again.
Conflict == Quit /\ UNCHANGED <<cloud, disk, token, origin, budget>>

\* A request that Cloudflare refuses because its object is gone or taken.
Refused == Conflict

Save(db) == mem' = db /\ disk' = db

-----------------------------------------------------------------------------
(* Looking before creating anything *)

\* The settings are valid and origin() succeeds; read_json(STATE) gives mem.
Deploy(h) ==
  /\ pc = "idle"
  /\ pc' = "records" /\ host' = h /\ org' = origin /\ mem' = disk
  /\ UNCHANGED <<cloud, disk, token, origin, recs, tun, rec, config, prev, todo, cur, budget>>

ReadRecords ==
  /\ pc = "records"
  /\ recs' = RecordsOf(host)
  /\ pc' = "tunnel"
  /\ UNCHANGED <<cloud, disk, token, origin, mem, host, org, tun, rec, config, prev, todo, cur, budget>>

\* Mutant of Usable: a pending intent does not count.
UsableById(t) == Saved # None /\ Saved.id = t.id /\ t.managed

\* The tunnel t that carries our name is one this router may use.
Usable(t) == Saved # None /\ (Saved.id = t.id \/ Saved.pending) /\ t.managed

\* The hostname is free, or has exactly the record a deployment to t leaves.
matching_dns(t) ==
  recs = {} \/ \E r \in recs : recs = {r} /\ r.type = "CNAME" /\ r.to = t

ReadTunnels ==
  LET ts == TunnelsOf(Account) IN
  /\ pc = "tunnel"
  /\ \/ /\ \E t \in ts : ts = {t} /\ Usable(t) /\ matching_dns(t.id)
        /\ LET t == CHOOSE x \in ts : TRUE IN
             /\ tun' = t.id
             /\ IF Saved.pending
                  THEN Save([mem EXCEPT !.tunnels[Account] = [id |-> t.id, pending |-> FALSE]])
                  ELSE UNCHANGED <<mem, disk>>
        /\ rec' = IF recs = {} THEN None ELSE CHOOSE r \in recs : TRUE
        /\ pc' = "config"
        /\ UNCHANGED <<cloud, token, origin, host, org, recs, config, prev, todo, cur, budget>>
     \/ /\ \E t \in ts : ts = {t} /\ Usable(t) /\ ~matching_dns(t.id)
        \* the adopted tunnel is saved before the records are looked at
        /\ LET t == CHOOSE x \in ts : TRUE IN
             disk' = IF Saved.pending
                       THEN [mem EXCEPT !.tunnels[Account] = [id |-> t.id, pending |-> FALSE]]
                       ELSE disk
        /\ Quit
        /\ UNCHANGED <<cloud, token, origin, budget>>
     \/ /\ ts # {} /\ ~\E t \in ts : ts = {t} /\ Usable(t)
        /\ Conflict
     \/ /\ ts = {} /\ recs = {}
        /\ pc' = "intent"
        /\ UNCHANGED <<cloud, disk, token, origin, mem, local, budget>>
     \/ /\ ts = {} /\ recs # {}
        /\ Conflict

-----------------------------------------------------------------------------
(* The tunnel: intent, POST, id *)

\* Mutant of SaveTunnelIntent: the POST is sent at once.
NoTunnelIntent ==
  /\ pc = "intent"
  /\ pc' = "post_tunnel"
  /\ UNCHANGED <<cloud, disk, token, origin, mem, local, budget>>

SaveTunnelIntent ==
  /\ pc = "intent"
  /\ Save([mem EXCEPT !.tunnels[Account] = [id |-> 0, pending |-> TRUE]])
  /\ pc' = "post_tunnel"
  /\ UNCHANGED <<cloud, token, origin, local, budget>>

PostTunnel ==
  /\ pc = "post_tunnel" /\ FreeTuns # {}
  /\ LET t == Least(FreeTuns) IN
       /\ tunnels' = tunnels \cup {[id |-> t, acc |-> Account, managed |-> TRUE, creator |-> "us"]}
       /\ routes' = [routes EXCEPT ![t] = NoRoutes]
       /\ tun' = t
  /\ pc' = "save_tunnel"
  /\ UNCHANGED <<records, disk, token, origin, mem, host, org, recs, rec, config, prev, todo, cur, budget>>

SaveTunnel ==
  /\ pc = "save_tunnel"
  /\ Save([mem EXCEPT !.tunnels[Account] = [id |-> tun, pending |-> FALSE]])
  /\ pc' = "config"
  /\ UNCHANGED <<cloud, token, origin, local, budget>>

-----------------------------------------------------------------------------
(* The ingress rules *)

\* The active deployment, when it used this tunnel.
ActiveHere == mem.active # None /\ mem.active.tun = tun

\* A rule of ours that somebody changed makes the deployment stop.
IngressConflict(rules) ==
  \/ rules[host] \notin {None, org}
  \/ /\ ActiveHere /\ mem.active.host # host
     /\ rules[mem.active.host] \notin {None, mem.active.org}

ingress_for(rules) ==
  [n \in Names |-> CASE n = host -> org
                     [] n # host /\ ActiveHere /\ n = mem.active.host -> None
                     [] OTHER -> rules[n]]

ReadConfig ==
  /\ pc = "config"
  /\ \/ /\ ~Live(tun) /\ Refused
     \/ /\ Live(tun) /\ IngressConflict(routes[tun]) /\ Conflict
     \/ /\ Live(tun) /\ ~IngressConflict(routes[tun])
        /\ config' = ingress_for(routes[tun])
        /\ pc' = "dns"
        /\ UNCHANGED <<cloud, disk, token, origin, mem, host, org, recs, tun, rec, prev, todo, cur, budget>>

-----------------------------------------------------------------------------
(* The DNS record *)

\* An intent for this hostname and this tunnel is open.
Intent == mem.dns[host] # None /\ mem.dns[host].pending /\ mem.dns[host].tun = tun

\* Mutant of Adopted: any entry of that hostname adopts the record.
AdoptedUnasked ==
  LET d == mem.dns[host] IN
  IF rec # None /\ d # None /\ d.tun = tun
    THEN [mem EXCEPT !.dns[host] = [d EXCEPT !.id = rec.id, !.pending = FALSE]]
    ELSE mem

\* A record that a pending intent of ours explains is adopted.
Adopted ==
  LET d == mem.dns[host] IN
  IF rec # None /\ Intent
    THEN [mem EXCEPT !.dns[host] = [d EXCEPT !.id = rec.id, !.pending = FALSE]]
    ELSE mem

Owns(db, r) == db.dns[host] # None /\ db.dns[host].id = r.id

CheckDns ==
  /\ pc = "dns" /\ rec # None
  /\ disk' = IF Adopted = mem THEN disk ELSE Adopted
  /\ adopted' = adopted \cup (IF Intent THEN {rec.id} ELSE {})
  /\ \/ /\ ~rec.proxied /\ ~Owns(Adopted, rec)
        /\ Quit
     \/ /\ rec.proxied \/ Owns(Adopted, rec)
        /\ mem' = Adopted
        /\ pc' = IF rec.proxied THEN "put" ELSE "patch"
        /\ UNCHANGED local
  /\ UNCHANGED <<cloud, token, origin, fails, others, moves>>

\* Mutant of SaveDnsIntent: the POST is sent at once.
NoDnsIntent ==
  /\ pc = "dns" /\ rec = None
  /\ pc' = "post_dns"
  /\ UNCHANGED <<cloud, disk, token, origin, mem, local, budget>>

SaveDnsIntent ==
  /\ pc = "dns" /\ rec = None
  /\ Save([mem EXCEPT !.dns[host] = [id |-> 0, tun |-> tun, pending |-> TRUE]])
  /\ pc' = "post_dns"
  /\ UNCHANGED <<cloud, token, origin, local, budget>>

\* Cloudflare refuses a CNAME beside any other record of that name.
PostDns ==
  /\ pc = "post_dns"
  /\ \/ /\ RecordsOf(host) # {} /\ Refused
     \/ /\ RecordsOf(host) = {} /\ FreeRecs # {}
        /\ rec' = [id |-> Least(FreeRecs), host |-> host, type |-> "CNAME", to |-> tun,
                   proxied |-> TRUE, creator |-> "us", edited |-> FALSE]
        /\ records' = records \cup {rec'}
        /\ pc' = "save_dns"
        /\ UNCHANGED <<tunnels, routes, disk, token, origin, mem, host, org, recs, tun, config, prev, todo, cur, budget>>

SaveDns ==
  /\ pc = "save_dns"
  /\ Save([mem EXCEPT !.dns[host] = [id |-> rec.id, tun |-> tun, pending |-> FALSE]])
  /\ pc' = "put"
  /\ UNCHANGED <<cloud, token, origin, local, budget>>

PatchDns ==
  /\ pc = "patch"
  /\ \/ /\ ~\E r \in records : r.id = rec.id
        /\ Refused
     \/ \E r \in records :
          /\ r.id = rec.id
          /\ records' = (records \ {r}) \cup {[r EXCEPT !.proxied = TRUE]}
          /\ pc' = "put"
          /\ UNCHANGED <<tunnels, routes, disk, token, origin, mem, local, budget>>

-----------------------------------------------------------------------------
(* Going live *)

PutConfig ==
  /\ pc = "put"
  /\ \/ ~Live(tun) /\ Refused
     \/ /\ Live(tun)
        /\ routes' = [routes EXCEPT ![tun] = config]
        /\ pc' = "token"
        /\ UNCHANGED <<tunnels, records, disk, token, origin, mem, local, budget>>

WriteToken ==
  /\ pc = "token"
  /\ prev' = token /\ token' = tun
  /\ pc' = "restart"
  /\ UNCHANGED <<cloud, disk, origin, mem, host, org, recs, tun, rec, config, todo, cur, budget>>

Restart ==
  /\ pc = "restart"
  /\ pc' = "save_active"
  /\ UNCHANGED <<cloud, disk, token, origin, mem, local, budget>>

\* The service cannot be enabled or restarted: the previous token comes back.
RestartFails ==
  /\ pc = "restart" /\ fails < MaxFails /\ MoreTrouble
  /\ fails' = fails + 1
  /\ token' = prev
  /\ Quit
  /\ UNCHANGED <<cloud, disk, origin, others, moves, adopted>>

\* Mutant of Stale: the hostname just published is cleaned up as well.
StaleAll == {h \in Hosts : mem.dns[h] # None}

\* The entries of state.dns that the cleanup loop visits.
Stale == {h \in Hosts : h # host /\ mem.dns[h] # None}

SaveActive ==
  /\ pc = "save_active"
  /\ Save([mem EXCEPT !.active = [host |-> host, tun |-> tun, org |-> org]])
  /\ todo' = Stale
  /\ pc' = "clean"
  /\ UNCHANGED <<cloud, token, origin, host, org, recs, tun, rec, config, prev, cur, budget>>

-----------------------------------------------------------------------------
(* Removing the records of earlier hostnames; each one inside a pcall *)

Visited == todo' = todo \ {cur'} /\ pc' = "clean"
Forget(h) == mem' = [mem EXCEPT !.dns[h] = None]

\* An entry without an id is looked up by its hostname.
CleanLookup(h) ==
  /\ pc = "clean" /\ h \in todo /\ cur' = h
  /\ \/ /\ mem.dns[h].id # 0
        /\ pc' = "clean_get" /\ UNCHANGED <<mem, todo, adopted>>
     \/ /\ mem.dns[h].id = 0 /\ Cardinality(RecordsOf(h)) # 1
        /\ Forget(h) /\ Visited /\ UNCHANGED adopted
     \/ /\ mem.dns[h].id = 0 /\ Cardinality(RecordsOf(h)) = 1
        /\ \E r \in RecordsOf(h) : /\ mem' = [mem EXCEPT !.dns[h].id = r.id]
                                  /\ adopted' = adopted \cup (IF mem.dns[h].pending THEN {r.id} ELSE {})
        /\ pc' = "clean_get" /\ UNCHANGED todo
  /\ UNCHANGED <<cloud, disk, token, origin, host, org, recs, tun, rec, config, prev, fails, others, moves>>

StillOurs(r) == r.host = cur /\ r.type = "CNAME" /\ r.to = mem.dns[cur].tun

\* A record id that no longer exists is an HTTP error, which the pcall catches:
\* the entry stays, with a warning.
CleanGet ==
  /\ pc = "clean_get" /\ cur' = cur
  /\ \/ /\ \E r \in records : r.id = mem.dns[cur].id /\ StillOurs(r)
        /\ pc' = "clean_delete" /\ UNCHANGED <<mem, todo>>
     \/ /\ \E r \in records : r.id = mem.dns[cur].id /\ ~StillOurs(r)
        /\ Forget(cur) /\ Visited
     \/ /\ ~\E r \in records : r.id = mem.dns[cur].id
        /\ Visited /\ UNCHANGED mem
  /\ UNCHANGED <<cloud, disk, token, origin, host, org, recs, tun, rec, config, prev, budget>>

CleanDelete ==
  /\ pc = "clean_delete" /\ cur' = cur
  /\ records' = {r \in records : r.id # mem.dns[cur].id}
  /\ IF records' = records THEN UNCHANGED mem ELSE Forget(cur)
  /\ Visited
  /\ UNCHANGED <<tunnels, routes, disk, token, origin, host, org, recs, tun, rec, config, prev, budget>>

\* A request of the cleanup fails, or its answer is lost after the DELETE.
CleanFails ==
  /\ fails < MaxFails /\ MoreTrouble /\ fails' = fails + 1
  /\ \/ /\ pc = "clean" /\ cur' \in {h \in todo : mem.dns[h].id = 0}
        /\ UNCHANGED records
     \/ /\ pc \in {"clean_get", "clean_delete"} /\ cur' = cur
        /\ UNCHANGED records
     \/ /\ pc = "clean_delete" /\ cur' = cur
        /\ records' = {r \in records : r.id # mem.dns[cur].id}
  /\ Visited
  /\ UNCHANGED <<tunnels, routes, disk, token, origin, mem, host, org, recs, tun, rec, config, prev, others, moves, adopted>>

Cleaned ==
  /\ pc = "clean" /\ todo = {}
  /\ pc' = "verify"
  /\ UNCHANGED <<cloud, disk, token, origin, mem, local, budget>>

\* verify() only reads; its result and the emptied entries are saved.
Verify ==
  /\ pc = "verify"
  /\ disk' = mem
  /\ Quit
  /\ UNCHANGED <<cloud, token, origin, budget>>

-----------------------------------------------------------------------------
(* Everybody else who has access to the account *)

Other(S) ==
  /\ others < MaxOthers /\ MoreTrouble /\ others' = others + 1
  /\ UNCHANGED <<S, disk, token, origin, pc, mem, local, fails, moves, adopted>>

OtherMakesTunnel ==
  /\ FreeTuns # {}
  /\ \E a \in Accounts, m \in BOOLEAN : LET t == Least(FreeTuns) IN
       /\ tunnels' = tunnels \cup {[id |-> t, acc |-> a, managed |-> m, creator |-> "other"]}
       /\ routes' = [routes EXCEPT ![t] = NoRoutes]
  /\ Other(records)

OtherDropsTunnel ==
  /\ \E t \in tunnels : tunnels' = tunnels \ {t} /\ routes' = [routes EXCEPT ![t.id] = NoRoutes]
  /\ Other(records)

\* A CNAME cannot share its name with another record.
OtherMakesRecord ==
  /\ FreeRecs # {}
  /\ \E h \in Hosts, to \in {t.id : t \in tunnels} \cup {Elsewhere},
        type \in {"CNAME", "A"}, p \in BOOLEAN :
       /\ type = "A" => to = Elsewhere /\ \A x \in RecordsOf(h) : x.type = "A"
       /\ type = "CNAME" => RecordsOf(h) = {}
       /\ records' = records \cup {[id |-> Least(FreeRecs), host |-> h, type |-> type, to |-> to,
                                   proxied |-> p, creator |-> "other", edited |-> FALSE]}
  /\ Other(<<tunnels, routes>>)

OtherEditsRecord ==
  /\ \E r \in records, to \in {t.id : t \in tunnels} \cup {Elsewhere}, p \in BOOLEAN :
       /\ r.type = "CNAME" /\ <<to, p>> # <<r.to, r.proxied>>
       /\ records' = (records \ {r}) \cup {[r EXCEPT !.to = to, !.proxied = p, !.edited = TRUE]}
  /\ Other(<<tunnels, routes>>)

OtherDropsRecord ==
  /\ \E r \in records : records' = records \ {r}
  /\ Other(<<tunnels, routes>>)

OtherRoutes ==
  /\ \E t \in tunnels, n \in Names, s \in {Elsewhere, None} :
       routes[t.id][n] # s /\ routes' = [routes EXCEPT ![t.id][n] = s]
  /\ Other(<<tunnels, records>>)

\* The local web server moves to another port or turns HTTPS on.
OriginMoves ==
  /\ moves < MaxOrigins /\ MoreTrouble /\ moves' = moves + 1
  /\ \E o \in Origins \ {origin} : origin' = o
  /\ UNCHANGED <<cloud, disk, token, pc, mem, local, fails, others, adopted>>

-----------------------------------------------------------------------------
Worker ==
  \/ ReadRecords \/ ReadTunnels \/ SaveTunnelIntent \/ PostTunnel \/ SaveTunnel
  \/ ReadConfig \/ CheckDns \/ SaveDnsIntent \/ PostDns \/ SaveDns \/ PatchDns
  \/ PutConfig \/ WriteToken \/ Restart \/ SaveActive
  \/ \E h \in Hosts : CleanLookup(h)
  \/ CleanGet \/ CleanDelete \/ Cleaned \/ Verify

Trouble == Fail \/ RestartFails \/ CleanFails

Outside ==
  \/ OtherMakesTunnel \/ OtherDropsTunnel
  \/ OtherMakesRecord \/ OtherEditsRecord \/ OtherDropsRecord \/ OtherRoutes
  \/ OriginMoves

User == \E h \in Hosts : Deploy(h)

Next == User \/ Worker \/ Trouble \/ Outside

Spec == Init /\ [][Next]_vars

\* A worker is a process of its own and every request has a timeout, so it
\* goes on; and the user who was told to retry does.
FairSpec == Spec /\ WF_vars(Worker) /\ WF_vars(User)

-----------------------------------------------------------------------------
(* What a deployment promises *)

\* After a lost answer or a crash, a tunnel the router created is never an
\* orphan: state.json on disk knows its id, or holds the pending intent that
\* makes the next run adopt it (core.lua, "Record intent before POST").
NoOrphanTunnel ==
  \A t \in tunnels : t.creator = "us" =>
     LET s == disk.tunnels[t.acc] IN s # None /\ (s.pending \/ s.id = t.id)

\* "A later failure must not create a second tunnel on retry": the router
\* never has two live tunnels of its own in one account.
NoSecondTunnel ==
  \A t, u \in tunnels : t.creator = "us" /\ u.creator = "us" /\ t.acc = u.acc => t = u

\* A record the router created, and nobody changed, is never an orphan: the
\* database knows it until the record itself is deleted, so a change of
\* hostname can always clean it up.
NoOrphanRecord ==
  \A r \in records : r.creator = "us" /\ ~r.edited =>
     LET d == disk.dns[r.host] IN d # None /\ d.tun = r.to /\ (d.pending \/ d.id = r.id)

\* A record the router removes is one it made, or one it found at a hostname
\* where the making of its own was never answered (a lost answer or a crash left
\* the intent in the database, possibly several deployments ago): ids that come
\* and go, others' records of the same name and edits do not make it remove any
\* other.  It is never the record of the hostname just published, and one that
\* nobody edited leads to the tunnel saved with it.  (The README's "only DNS
\* records created by this plugin" is more than core.lua:219 keeps: what it finds
\* there may be somebody else's.)
RemovesOnlyItsOwn ==
  [][others' = others =>
      \A r \in records : (\A q \in records' : q.id # r.id) =>
        /\ r.creator = "us" \/ r.id \in adopted
        /\ r.host # host
        /\ ~r.edited => r.type = "CNAME" /\ r.to = mem.dns[r.host].tun]_vars

\* A hostname that visitors can reach: its record leads to the tunnel of the
\* connector token, and that tunnel routes the name to this router.
Served(h) ==
  /\ \E r \in RecordsOf(h) : r.type = "CNAME" /\ r.to = token /\ r.proxied
  /\ routes[token][h] \in Origins

\* Make before break: once a deployment went live, the router stays reachable
\* under some hostname through every later change of hostname or account,
\* wherever that change is cut short, as long as nobody else interferes.
AlwaysReachable ==
  disk.active # None /\ others = 0 => token # None /\ \E h \in Hosts : Served(h)

\* A failed or interrupted deployment can be resumed: when the troubles are
\* over, deploying a hostname leads to that hostname being live.  (Not after
\* the origin moved: ingress_for then refuses the hostname.)
RetryResumes ==
  \A h \in Hosts :
    (pc = "records" /\ host = h /\ fails = MaxFails)
      ~> (pc = "verify" /\ host = h) \/ moves > 0

\* The router's tunnels are never forgotten and never made twice (core.deploy).
TunnelRemembered == TypeOK /\ NoOrphanTunnel /\ NoSecondTunnel
=============================================================================
