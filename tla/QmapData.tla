------------------------------ MODULE QmapData ------------------------------
(***************************************************************************)
(* What the qmi_wwan_q driver does to the data: the packets of a downlink  *)
(* transfer taken apart (qmap_packet_decode) while the settings arrive and *)
(* virtual devices go away, and, without virtual devices, the headers of   *)
(* single frames and the bridge mode that serves one host of the LAN.      *)
(*                                                                         *)
(* mode: "raw" is qmap_mode 0, "qmap" is qmap_mode 1 on the USB device     *)
(* itself, "rmnet" is use_rmnet_usb.  A transfer is a sequence of packets; *)
(* a packet has its number, mux id, command bit, IP version, payload bytes *)
(* and whether the transfer ends inside it.                                *)
(***************************************************************************)
EXTENDS Naturals, Sequences, SequencesExt

CONSTANTS
  Transfers,   \* what the modem sends in one transfer
  Muxes,       \* mux ids below QUECTEL_QMAP_MUX_ID + qmap_mode
  MaxPay,      \* largest packet: 1500
  MinPad,      \* dl_minimum_padding of the modem
  Hosts,       \* hosts behind the bridge
  MaxRounds    \* bound: transfers and frames

ASSUME DataAssumption ==
  /\ Transfers \subseteq Seq([id : Nat, mux : Nat, cd : BOOLEAN, ip : BOOLEAN, pay : Nat,
                              cut : BOOLEAN])
  /\ Muxes \subseteq Nat /\ MaxPay \in Nat /\ MinPad \in Nat /\ MaxRounds \in Nat
  /\ "none" \notin Hosts

\* Only a transfer with a packet is taken apart; ids number the packets of one.
ASSUME TransferAssumption ==
  \A t \in Transfers : t # <<>> /\ \A i, j \in DOMAIN t : i < j => t[i].id < t[j].id

VARIABLES
  mode,        \* raw, qmap, rmnet
  present,     \* mux ids with a device in mpQmapNetDev
  minPad,      \* tx_ctx.dl_minimum_padding
  linkOn,      \* pQmapDev->link_state
  rxpc,        \* the receive path: idle, decode, ended, error
  given,       \* the transfer being decoded
  left,        \* its packets not looked at yet
  usedPad,     \* the padding this decode works with
  got,         \* packets handed to the stack from this transfer
  bridge,      \* bridge_mode
  mac,         \* bridge_mac
  bridged,     \* the host whose frame the bridge let pass last
  dest,        \* where the last raw downlink frame was addressed to
  rounds       \* transfers and frames so far

rxVars == <<rxpc, given, left, usedPad, got>>
hostVars == <<bridge, mac, bridged, dest>>
dataVars == <<mode, present, minPad, linkOn, rxVars, hostVars, rounds>>

DataTypeOK ==
  /\ mode \in {"raw", "qmap", "rmnet"} /\ present \subseteq Muxes
  /\ minPad \in {0, MinPad} /\ usedPad \in {0, MinPad} /\ linkOn \in BOOLEAN
  /\ rxpc \in {"idle", "decode", "ended", "error"}
  /\ given \in Transfers \cup {<<>>} /\ IsSuffix(left, given)
  /\ got \in Seq([id : Nat, mux : Muxes, len : 0 .. MaxPay])
  /\ bridge \in BOOLEAN /\ mac \in Hosts \cup {"none"} /\ bridged \in Hosts \cup {"none"}
  /\ dest \in Hosts \cup {"none", "self"}
  /\ rounds \in 0 .. MaxRounds

DataInit ==
  /\ mode \in {"raw", "qmap", "rmnet"} /\ present = Muxes /\ minPad = 0 /\ linkOn = FALSE
  /\ rxpc = "idle" /\ given = <<>> /\ left = <<>> /\ usedPad = 0 /\ got = <<>>
  /\ bridge = FALSE /\ mac = "none" /\ bridged = "none" /\ dest = "none" /\ rounds = 0

Round == rounds < MaxRounds /\ rounds' = rounds + 1

-----------------------------------------------------------------------------
(* Downlink with QMAP *)

\* add_qhdr(), add_qhdr_v5(), and the modem: padding to a multiple of 4.
Pad(len) == (4 - (len % 4)) % 4

\* pkt_len, which counts both paddings.
PktLen(p) == p.pay + Pad(p.pay) + MinPad

SkbLen(p) == PktLen(p) - Pad(p.pay) - usedPad

\* error_pkt gives up the transfer, skip_pkt the packet.
Verdict(p) ==
  IF SkbLen(p) > MaxPay \/ p.cut THEN "error"
  ELSE IF p.cd THEN "skip"
  ELSE IF ~p.ip \/ p.mux \notin Muxes THEN "error"
  ELSE IF p.mux \notin present THEN "skip" ELSE "deliver"

\* Mutant of Chained: packets are queued at the head of the chain.
ChainedFirst(p) == <<[id |-> p.id, mux |-> p.mux, len |-> SkbLen(p)]>> \o got

Chained(p) == Append(got, [id |-> p.id, mux |-> p.mux, len |-> SkbLen(p)])

Decode(t) ==
  /\ rxpc # "decode" /\ Round
  /\ rxpc' = "decode" /\ given' = t /\ left' = t /\ got' = <<>> /\ usedPad' = minPad
  /\ UNCHANGED <<mode, present, minPad, linkOn, hostVars>>

\* A transfer reaches qmap_packet_decode() from the USB device, or through the
\* stack and the rx handler.
qmap_qmi_wwan_rx_fixup(t) == mode = "qmap" /\ Decode(t)
rmnet_usb_rx_handler(t) == mode = "rmnet" /\ Decode(t)

\* rmnet_usb_rx_fixup() without room for an Ethernet header drops it.
NoHeadroom ==
  /\ mode = "rmnet" /\ rxpc # "decode" /\ Round
  /\ UNCHANGED <<mode, present, minPad, linkOn, rxVars, hostVars>>

AfterSkip == IF Len(left) = 1 THEN "ended" ELSE "decode"

qmap_packet_decode ==
  /\ rxpc = "decode"
  /\ LET p == Head(left) IN
     \/ /\ Verdict(p) = "deliver"
        /\ got' = Chained(p) /\ left' = Tail(left)
        /\ rxpc' = IF Len(left) = 1 THEN "ended" ELSE "decode"
     \/ Verdict(p) = "skip" /\ left' = Tail(left) /\ rxpc' = AfterSkip /\ UNCHANGED got
     \/ Verdict(p) = "error" /\ rxpc' = "error" /\ UNCHANGED <<got, left>>
  /\ UNCHANGED <<mode, present, minPad, linkOn, given, usedPad, hostVars, rounds>>

\* netdev_alloc_skb() fails.
AllocFails ==
  /\ rxpc = "decode" /\ Verdict(Head(left)) = "deliver" /\ rxpc' = "error"
  /\ UNCHANGED <<mode, present, minPad, linkOn, given, left, usedPad, got, hostVars, rounds>>

\* qma_setting_store()
PadStored ==
  /\ minPad = 0 /\ minPad' = MinPad
  /\ UNCHANGED <<mode, present, linkOn, rxVars, hostVars, rounds>>

\* qmap_unregister_device() clears the place of a device at any time.
NetGone(m) ==
  /\ mode = "rmnet" /\ m \in present /\ present' = present \ {m}
  /\ UNCHANGED <<mode, minPad, linkOn, rxVars, hostVars, rounds>>

-----------------------------------------------------------------------------
(* Single frames and the bridge *)

Kinds == {"ip", "dhcp", "arp"}

\* bridge_mode_tx_fixup(): a DHCP request makes its sender the one host served.
Learned(h, kind) ==
  LET m == IF kind = "dhcp" THEN h ELSE mac IN [mac |-> m, passes |-> kind # "arp" /\ h = m]

LinkStored ==
  /\ linkOn' = ~linkOn
  /\ UNCHANGED <<mode, present, minPad, rxVars, hostVars, rounds>>

bridge_mode_store ==
  /\ bridge' = ~bridge
  /\ UNCHANGED <<mode, present, minPad, linkOn, rxVars, mac, bridged, dest, rounds>>

\* The Ethernet header is cut off a frame the bridge lets pass.
qmi_wwan_tx_fixup(h, kind) ==
  IF bridge
    THEN LET r == Learned(h, kind)
         IN mac' = r.mac /\ bridged' = IF r.passes THEN h ELSE bridged
    ELSE UNCHANGED <<mac, bridged>>

\* With QMAP nothing passes without link.
qmap_qmi_wwan_tx_fixup(h, kind) ==
  /\ mode # "rmnet" /\ Round
  /\ IF mode = "raw" \/ linkOn THEN qmi_wwan_tx_fixup(h, kind) ELSE UNCHANGED <<mac, bridged>>
  /\ UNCHANGED <<mode, present, minPad, linkOn, rxVars, bridge, dest>>

\* qmi_wwan_rx_fixup(): the Ethernet header a raw IP packet is given.
rx_fixup(kind) ==
  CASE kind \in {"ip4", "ip6"} -> "header"
    [] kind = "unicast" -> "destination"
    [] kind \in {"multicast", "other"} -> "none"
    [] kind = "short" -> "dropped"

\* bridge_mode_rx_fixup()
Destination == IF bridge THEN mac ELSE "self"

RawArrives(kind) ==
  /\ mode = "raw" /\ Round
  /\ dest' = IF rx_fixup(kind) \in {"header", "destination"} THEN Destination ELSE dest
  /\ UNCHANGED <<mode, present, minPad, linkOn, rxVars, bridge, mac, bridged>>

DataNext ==
  \/ \E t \in Transfers : qmap_qmi_wwan_rx_fixup(t) \/ rmnet_usb_rx_handler(t)
  \/ NoHeadroom \/ qmap_packet_decode \/ AllocFails \/ PadStored \/ LinkStored \/ bridge_mode_store
  \/ \E m \in Muxes : NetGone(m)
  \/ \E h \in Hosts, k \in Kinds : qmap_qmi_wwan_tx_fixup(h, k)
  \/ \E k \in {"ip4", "ip6", "unicast", "multicast", "other", "short"} : RawArrives(k)

DataSpec == DataInit /\ [][DataNext]_dataVars

-----------------------------------------------------------------------------
(* Properties *)

\* Packets reach the stack in the order of the transfer, at the device of
\* their mux id, and with the length the sender gave them if the settings
\* were stored before the transfer arrived.
DeliveredAsSent ==
  \A i \in DOMAIN got : \E j \in DOMAIN given :
    /\ given[j].id = got[i].id /\ given[j].mux = got[i].mux
    /\ usedPad = MinPad => got[i].len = given[j].pay
    /\ i > 1 => got[i].id > got[i - 1].id

\* A decode that is not given up has delivered every data packet of a device
\* that is still there: a command or another device's packet costs nothing.
RestDelivered ==
  rxpc = "ended" =>
    \A j \in DOMAIN given :
      ~given[j].cd /\ given[j].mux \in present => \E i \in DOMAIN got : got[i].id = given[j].id

\* The host the downlink goes to is the one whose frame passed last.
OneHostServed == mac = bridged

\* The downlink is handed on as it was sent, to whom it was sent
\* (qmap_packet_decode, bridge_mode_tx_fixup, bridge_mode_rx_fixup).
DownlinkAsSent == DataTypeOK /\ DeliveredAsSent /\ RestDelivered /\ OneHostServed
=============================================================================
