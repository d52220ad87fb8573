---------------------------- MODULE BjnpDiscover ----------------------------
(***************************************************************************)
(* Printer discovery of the BJNP backend (bjnp-discover.c): a broadcast on *)
(* a socket per interface, twice, then answers are read until none comes   *)
(* for a while.  A printer answers on every interface it is reached by,    *)
(* maybe with addresses of different worth, and is told apart by its MAC   *)
(* address; the list keeps the best address of each.                       *)
(***************************************************************************)
EXTENDS Integers, Sequences, FiniteSets, SequencesExt, FiniteSetsExt

CONSTANTS
  Interfaces,    \* of the host: [p2p, loopback, binds]
  SOCK_MAX,      \* BJNP_SOCK_MAX
  Printers,      \* printers on the network
  Answers,       \* what they answer: [sock, owner, rank] (rank: host_type)
  Kept,          \* the part of a printer's MAC u8tohex_string keeps
  Garbage,       \* what the bytes it does not write may hold
  PRINTERS_MAX,  \* BJNP_PRINTERS_MAX
  MaxNoise       \* stray datagrams and printers that do not tell their id

ATTEMPTS == 2    \* BJNP_MAX_BROADCAST_ATTEMPTS

\* An interface other than loopback, if its socket can be made and bound.
prepare_socket(i) == ~i.loopback /\ i.binds

\* A socket for each such interface that is not point to point, in order.
Sockets ==
  LET usable == SelectSeq(Interfaces, LAMBDA i : ~i.p2p /\ prepare_socket(i))
  IN 1 .. Min({SOCK_MAX, Len(usable)})

ASSUME DiscoverAssumption ==
  /\ PRINTERS_MAX \in Nat /\ MaxNoise \in Nat
  /\ \A a \in Answers : a.owner \in Printers /\ a.rank \in 0..2
  /\ "stray" \notin Printers

VARIABLES
  stage,    \* "send", "select", "round" or "finished"
  sent,     \* broadcasts sent on every socket
  coming,   \* answers under way
  inbox,    \* datagrams waiting on each socket
  active,   \* sockets of the round that are still to be read
  list,     \* the printers found
  heard,    \* answers read, whatever became of them
  noise     \* what is left of MaxNoise, and whether a printer was dropped

discoverVars == <<stage, sent, coming, inbox, active, list, heard, noise>>

Stray == [sock |-> 0, owner |-> "stray", rank |-> 0]

\* An entry of the list: the MAC string, the address and the model.
Keys == {<<Kept[q], g>> : q \in Printers, g \in Garbage}
Entries == [key: Keys, rank: 0..2, at: Printers, model: Printers]

DiscoverTypeOK ==
  /\ stage \in {"send", "select", "round", "finished"}
  /\ sent \in 0..ATTEMPTS
  /\ coming \in [Answers -> 0..ATTEMPTS]
  /\ inbox \in [Sockets -> Seq(Answers \cup {Stray})]
  /\ active \subseteq Sockets
  /\ list \in Seq(Entries)
  /\ Len(list) <= PRINTERS_MAX
  /\ heard \subseteq Answers
  /\ noise \in [left: 0..MaxNoise, dropped: BOOLEAN]

DiscoverInit ==
  /\ stage = "send" /\ sent = 0
  /\ coming = [a \in Answers |-> 0]
  /\ inbox = [s \in Sockets |-> <<>>]
  /\ active = {} /\ list = <<>> /\ heard = {}
  /\ noise = [left |-> MaxNoise, dropped |-> FALSE]

\* bjnp_send_broadcast on every socket, ATTEMPTS times.
Broadcast ==
  /\ stage = "send"
  /\ sent' = sent + 1
  /\ coming' = [a \in Answers |-> coming[a] + 1]
  /\ stage' = IF sent' = ATTEMPTS THEN "select" ELSE "send"
  /\ UNCHANGED <<inbox, active, list, heard, noise>>

\* select finds answers: a round over the sockets that have one.
Select ==
  /\ stage = "select" /\ \E s \in Sockets : inbox[s] # <<>>
  /\ stage' = "round" /\ active' = {s \in Sockets : inbox[s] # <<>>}
  /\ UNCHANGED <<sent, coming, inbox, list, heard, noise>>

\* select finds nothing for BJNP_BC_RESPONSE_TIMEOUT.
Silence ==
  /\ stage = "select" /\ \A s \in Sockets : inbox[s] = <<>>
  /\ stage' = "finished"
  /\ UNCHANGED <<sent, coming, inbox, active, list, heard, noise>>

\* The string u8tohex_string makes of a MAC: the high digits and the last low
\* one; the places of the other low digits are never written.
MacStrings(q) == {<<Kept[q], g>> : g \in Garbage}

\* Mutant of Better: the last address wins.
BetterLast(entry, a, key) ==
  IF entry.key = key THEN [entry EXCEPT !.rank = a.rank, !.at = a.owner] ELSE entry

\* An entry that an answer of the same MAC string improves: address and host
\* name are replaced, port and model stay.
Better(entry, a, key) ==
  IF entry.key = key /\ a.rank > entry.rank
  THEN [entry EXCEPT !.rank = a.rank, !.at = a.owner] ELSE entry

\* Whether a printer tells its id when it is asked.
get_printer_id == IF noise.left > 0 THEN BOOLEAN ELSE {TRUE}

\* add_printer_address: improve the printer's entry, or add one if there is
\* room and the printer tells its id.
add_printer_address(a, key, told) ==
  CASE \E i \in DOMAIN list : list[i].key = key ->
         [i \in DOMAIN list |-> Better(list[i], a, key)]
    [] ~(\E i \in DOMAIN list : list[i].key = key) /\ Len(list) < PRINTERS_MAX /\ told ->
         Append(list, [key |-> key, rank |-> a.rank, at |-> a.owner, model |-> a.owner])
    [] OTHER -> list

\* The next ready socket is read.  A datagram that is no answer ends the round,
\* and the other sockets wait for the next.
ReadSocket(s) ==
  LET a == Head(inbox[s]) IN
  /\ inbox' = [inbox EXCEPT ![s] = Tail(@)]
  /\ IF a.owner = "stray"
     THEN stage' = "select" /\ active' = {} /\ UNCHANGED <<list, heard, noise>>
     ELSE /\ \E key \in MacStrings(a.owner), told \in get_printer_id :
               /\ list' = add_printer_address(a, key, told)
               /\ noise' = [left |-> IF told THEN noise.left ELSE noise.left - 1,
                            dropped |-> noise.dropped \/ ~told]
          /\ heard' = heard \cup {a} /\ active' = active \ {s}
          /\ stage' = IF active' = {} THEN "select" ELSE "round"

Read == /\ stage = "round"
        /\ \E s \in active : (\A t \in active : s <= t) /\ ReadSocket(s)
        /\ UNCHANGED <<sent, coming>>

\* The network, external: an answer arrives (or not before the search is over,
\* and is lost), or a stray datagram comes in.
Arrive(a) ==
  /\ coming[a] > 0 /\ stage # "finished"
  /\ coming' = [coming EXCEPT ![a] = @ - 1]
  /\ inbox' = [inbox EXCEPT ![a.sock] = Append(@, a)]
  /\ UNCHANGED <<stage, sent, active, list, heard, noise>>

StrayArrives(s) ==
  /\ noise.left > 0 /\ stage # "finished"
  /\ inbox' = [inbox EXCEPT ![s] = Append(@, Stray)]
  /\ noise' = [noise EXCEPT !.left = @ - 1]
  /\ UNCHANGED <<stage, sent, coming, active, list, heard>>

DiscoverNext ==
  \/ Broadcast \/ Select \/ Silence \/ Read
  \/ \E a \in Answers : Arrive(a)
  \/ \E s \in Sockets : StrayArrives(s)

DiscoverSpec == DiscoverInit /\ [][DiscoverNext]_discoverVars

-----------------------------------------------------------------------------
\* No two printers have MACs with the same digits in the places that are kept.
KeptApart == \A q, r \in Printers : Kept[q] = Kept[r] => q = r

\* When the search ends, every printer one of whose answers had come in is
\* listed, with the best address it gave, however stray datagrams cut rounds
\* short, unless it was dropped because it did not tell its id or the list was
\* full; nothing that came in is left unread (bjnp_discover_printers,
\* add_printer_address).
BestAddressListed ==
  stage = "finished" /\ ~noise.dropped /\ Len(list) < PRINTERS_MAX =>
    /\ \A s \in Sockets : inbox[s] = <<>>
    /\ \A a \in heard : \E i \in DOMAIN list : list[i].model = a.owner /\ list[i].rank >= a.rank

\* An entry's address is the one of the printer whose model it shows
\* (add_printer_address).
AddressOfModel == \A i \in DOMAIN list : list[i].at = list[i].model

\* Every printer heard of is listed, with an address of its own and its best,
\* where the MACs differ in the digits that are kept.
PrintersListed == DiscoverTypeOK /\ (KeptApart => BestAddressListed /\ AddressOfModel)
=============================================================================
