----------------------------- MODULE QmapDriver -----------------------------
(***************************************************************************)
(* The uplink of the qmi_wwan_q driver with multiplexing: one USB network  *)
(* device ("real") and a virtual device per PDP context that adds a QMAP   *)
(* header, collects packets in an aggregation buffer and queues frames on  *)
(* the real device.  The parties are the network stack (start_xmit of one  *)
(* virtual device is serial), the 2 ms timer and the work item of a buffer, *)
(* the real device's queue and its completions, the wake-up tasklet, one   *)
(* quectel-CM per context (udhcpc_start, udhcpc_stop, which write          *)
(* link_state and run ifconfig), suspend, and the disconnect of the modem. *)
(*                                                                         *)
(* A packet is <<net, number>>.  How many bytes fit, how old a buffer is   *)
(* and what a packet carries are choices of the step that asks.  usbnet    *)
(* and the queueing discipline are external: a FIFO, and TxQlen buffers on *)
(* their way.                                                              *)
(***************************************************************************)
EXTENDS Naturals, Sequences, FiniteSets, SequencesExt

CONSTANTS
  Nets,          \* offset ids of the virtual devices; their number is qmap_mode
  MaxDatagrams,  \* ul_data_aggregation_max_datagrams once it is negotiated
  TxQlen,        \* buffers usbnet has on their way before it stops the queue
  Budgets        \* bound: what the environment does in one behaviour: the
                 \* nets it lets register, their packets, calls of udhcpc_stop,
                 \* disconnects, naps

ASSUME QmapAssumption ==
  /\ Nets \subseteq Nat /\ Nets # {} /\ MaxDatagrams \in Nat \ {0, 1} /\ TxQlen \in Nat \ {0}
  /\ Budgets \subseteq [nets : SUBSET Nets, pkts : [Nets -> Nat], stops : Nat, leaves : 0 .. 1, naps : Nat]

VARIABLES
  reg,        \* mpQmapNetDev[i] # NULL
  link,       \* bits of pQmapDev->link_state
  priv,       \* virtual devices with priv->link_state
  store,      \* the link_state_store() that each quectel-CM is in, see Resting
  clash,      \* history: how calls of link_state_store() met, see Clashes
  up,         \* virtual devices with IFF_UP
  carrier,    \* virtual devices with carrier
  stopped,    \* virtual devices with a stopped queue
  real,       \* the real device: up, carrier, stopped, asleep, step of its start_xmit
  datagrams,  \* tx_ctx.ul_data_aggregation_max_datagrams
  agg,        \* agg_skb of each net; its length is agg_count
  timer,      \* nets with agg_hrtimer queued
  work,       \* nets with agg_wq queued
  held,       \* the buffer a running work item has taken and not queued yet
  tx,         \* rmnet_vnd_start_xmit of each net
  qdisc,      \* frames queued on the real device
  txq,        \* frames given to usbnet and not completed
  tasklet,    \* pQmapDev->txq is scheduled
  cm,         \* the step of each quectel-CM
  made,       \* packets of each net handed to start_xmit
  wire,       \* packets that reached the modem
  lost,       \* packets freed unsent
  budget,     \* what the environment may still do
  leaving,    \* the step of disconnect for each net
  freed,      \* nets whose agg_skb is a freed buffer
  raced,      \* nets with a start_xmit running, or looked up by link_state_store(),
              \* when their queue was stopped for good
  touched     \* a freed buffer or device was used

linkVars == <<link, priv, store, clash>>
devVars  == <<reg, linkVars, up, carrier, real, datagrams>>
aggVars  == <<agg, timer, work, held>>
sentVars == <<qdisc, txq, wire>>
endVars  == <<leaving, freed, raced, touched>>
qmapVars == <<devVars, aggVars, sentVars, endVars, stopped, tx, tasklet, cm, made, lost, budget>>

Packets == UNION {{<<n, k>> : k \in 1 .. b.pkts[n]} : n \in Nets, b \in Budgets}
Idle == [pc |-> "idle", skb |-> <<>>, own |-> FALSE, out |-> <<>>, hook |-> FALSE]
Resting == [pc |-> "idle", on |-> FALSE, old |-> {}, val |-> {}, net |-> FALSE]
Pkts(frames) == UNION {ToSet(f.pkts) : f \in frames}

\* How calls of link_state_store() met.  lost: one wrote a bit back as it was
\* before another changed it.  late: one set its bit while another that had
\* cleared its own was still to look whether any is left.
Clashes == {"lost", "late"}

QmapTypeOK ==
  /\ reg \subseteq Nets /\ link \subseteq Nets /\ priv \subseteq Nets /\ up \subseteq Nets
  /\ store \in [Nets -> [pc : {"idle", "load", "write", "on", "net", "off", "drop"}, on : BOOLEAN,
                         old : SUBSET Nets, val : SUBSET Nets, net : BOOLEAN]]
  /\ clash \subseteq Clashes
  /\ carrier \subseteq Nets /\ stopped \subseteq Nets
  /\ timer \subseteq Nets /\ work \subseteq Nets /\ freed \subseteq Nets /\ raced \subseteq Nets
  /\ real \in [up : BOOLEAN, carrier : BOOLEAN, stopped : BOOLEAN, asleep : BOOLEAN,
               pc : {"idle", "check", "stop"}]
  /\ datagrams \in {1, MaxDatagrams}
  /\ \A n \in Nets : Len(agg[n]) < MaxDatagrams /\ Len(held[n]) < MaxDatagrams
  /\ \A n \in Nets : Len(tx[n].out) <= MaxDatagrams /\ Len(tx[n].skb) <= 1
  /\ \A f \in ToSet(qdisc \o txq) : f.hook \in BOOLEAN /\ Len(f.pkts) \in 1 .. MaxDatagrams
  /\ lost \subseteq Packets /\ ToSet(wire) \subseteq Packets
  /\ tasklet \in BOOLEAN /\ touched \in BOOLEAN

-----------------------------------------------------------------------------
(* Queues *)

\* The destructor of freed frames schedules the tasklet when a queue waits.
rmnet_usb_tx_skb_destructor(frames) ==
  tasklet \/ ((\E f \in frames : f.hook) /\ reg \cap carrier \cap stopped # {})

qmap_wake_queue == stopped \ (reg \cap carrier)

\* dev_queue_xmit(): the frame waits for the real device, or is freed.
Enqueue(f) ==
  IF real.up /\ real.carrier
    THEN qdisc' = Append(qdisc, f) /\ UNCHANGED <<lost, tasklet>>
    ELSE /\ lost' = lost \cup ToSet(f.pkts)
         /\ tasklet' = rmnet_usb_tx_skb_destructor({f})
         /\ UNCHANGED qdisc

Tasklet ==
  /\ tasklet /\ tasklet' = FALSE
  /\ stopped' = qmap_wake_queue
  /\ UNCHANGED <<devVars, aggVars, sentVars, endVars, tx, cm, made, lost, budget>>

\* usbnet_start_xmit() stops the queue with its last buffer, or asleep.
RealXmit ==
  /\ real.up /\ ~real.stopped /\ real.pc = "idle" /\ qdisc # <<>>
  /\ txq' = Append(txq, Head(qdisc)) /\ qdisc' = Tail(qdisc)
  /\ real' = [real EXCEPT !.pc = "check", !.stopped = Len(txq') >= TxQlen \/ real.asleep]
  /\ UNCHANGED <<reg, linkVars, up, carrier, datagrams, aggVars, endVars, wire, stopped, tx, tasklet,
                 cm, made, lost, budget>>

\* qmi_wwan_start_xmit() looks at the real queue, then stops the virtual ones.
RealCheck ==
  /\ real.pc = "check"
  /\ real' = [real EXCEPT !.pc = IF real.stopped THEN "stop" ELSE "idle"]
  /\ UNCHANGED <<reg, linkVars, up, carrier, datagrams, aggVars, endVars, sentVars, stopped, tx,
                 tasklet, cm, made, lost, budget>>

qmi_wwan_start_xmit ==
  /\ real.pc = "stop" /\ real' = [real EXCEPT !.pc = "idle"]
  /\ stopped' = stopped \cup reg
  /\ UNCHANGED <<reg, linkVars, up, carrier, datagrams, aggVars, endVars, sentVars, tx, tasklet, cm,
                 made, lost, budget>>

\* A completion frees the frame and wakes the real queue.
Complete ==
  /\ txq # <<>> /\ ~real.asleep
  /\ txq' = Tail(txq) /\ wire' = wire \o Head(txq).pkts
  /\ tasklet' = rmnet_usb_tx_skb_destructor({Head(txq)})
  /\ real' = [real EXCEPT !.stopped = Len(txq') >= TxQlen]
  /\ UNCHANGED <<reg, linkVars, up, carrier, datagrams, aggVars, endVars, qdisc, stopped, tx, cm,
                 made, lost, budget>>

-----------------------------------------------------------------------------
(* rmnet_vnd_start_xmit and the aggregation buffer *)

At(n, pc) == tx[n].pc = pc

\* The stack calls start_xmit while the queue is on.  own: the packet has the
\* destructor of a local socket already, which the driver leaves in place.
rmnet_vnd_start_xmit(n, own) ==
  /\ At(n, "idle") /\ n \in up \ stopped /\ made[n] < budget.pkts[n]
  /\ IF real.stopped
       THEN tx' = [tx EXCEPT ![n].pc = "busy"] /\ UNCHANGED made
       ELSE /\ made' = [made EXCEPT ![n] = @ + 1]
            /\ tx' = [tx EXCEPT ![n] = [Idle EXCEPT !.pc = "agg", !.own = own,
                                                    !.skb = << <<n, made[n] + 1>> >>]]
  /\ UNCHANGED <<devVars, aggVars, sentVars, endVars, stopped, tasklet, cm, lost, budget>>

\* The real queue was stopped a moment ago: NETDEV_TX_BUSY.
TxBusy(n) ==
  /\ At(n, "busy")
  /\ stopped' = stopped \cup {n} /\ tx' = [tx EXCEPT ![n] = Idle]
  /\ UNCHANGED <<devVars, aggVars, sentVars, endVars, tasklet, cm, made, lost, budget>>

\* Mutant of rmnet_usb_tx_agg: a packet that does not fit is sent at once.
AggBypasses(buf, skb, own, fits, now) ==
  IF now \/ (buf # <<>> /\ ~fits)
  THEN [agg |-> buf, out |-> skb, hook |-> ~own, skb |-> <<>>]
  ELSE [agg |-> buf \o skb, out |-> <<>>, hook |-> FALSE, skb |-> <<>>]

\* One pass under agg_lock: the buffer left, the frame to queue, whether the
\* driver hooks it, and the packet that still waits (goto new_packet).  now:
\* too old a buffer, a packet not to delay (rmnet_usb_tx_agg_skip), no memory.
rmnet_usb_tx_agg(buf, skb, own, fits, now) ==
  IF buf # <<>> /\ ~fits
  THEN [agg |-> <<>>, out |-> buf, hook |-> TRUE, skb |-> skb]
  ELSE IF buf # <<>> /\ (now \/ Len(buf) + 1 = MaxDatagrams)
  THEN [agg |-> <<>>, out |-> buf \o skb, hook |-> TRUE, skb |-> <<>>]
  ELSE IF buf = <<>> /\ now THEN [agg |-> <<>>, out |-> skb, hook |-> ~own, skb |-> <<>>]
  ELSE [agg |-> buf \o skb, out |-> <<>>, hook |-> FALSE, skb |-> <<>>]

TxAlone(n) ==
  /\ At(n, "agg") /\ datagrams = 1
  /\ tx' = [tx EXCEPT ![n].pc = "xmit", ![n].skb = <<>>, ![n].out = tx[n].skb,
                      ![n].hook = ~tx[n].own]
  /\ UNCHANGED <<devVars, aggVars, sentVars, endVars, stopped, tasklet, cm, made, lost, budget>>

TxAgg(n, fits, now) ==
  /\ At(n, "agg") /\ datagrams # 1 /\ n \notin freed
  /\ LET r == rmnet_usb_tx_agg(agg[n], tx[n].skb, tx[n].own, fits, now)
     IN /\ agg' = [agg EXCEPT ![n] = r.agg]
        /\ tx' = [tx EXCEPT ![n].pc = "xmit", ![n].skb = r.skb, ![n].out = r.out, ![n].hook = r.hook]
  /\ UNCHANGED <<devVars, timer, work, held, sentVars, endVars, stopped, tasklet, cm, made, lost,
                 budget>>

\* agg_skb still points to the buffer disconnect has freed.
TxAggFreed(n) ==
  /\ At(n, "agg") /\ datagrams # 1 /\ n \in freed
  /\ touched' = TRUE /\ lost' = lost \cup ToSet(tx[n].skb)
  /\ tx' = [tx EXCEPT ![n] = Idle]
  /\ UNCHANGED <<devVars, aggVars, sentVars, leaving, freed, raced, stopped, tasklet, cm, made,
                 budget>>

TxXmit(n) ==
  /\ At(n, "xmit")
  /\ IF tx[n].out # <<>> THEN Enqueue([pkts |-> tx[n].out, hook |-> tx[n].hook])
                         ELSE UNCHANGED <<qdisc, lost, tasklet>>
  /\ tx' = [tx EXCEPT ![n].pc = IF tx[n].skb # <<>> THEN "agg"
                                ELSE IF datagrams = 1 THEN "idle" ELSE "arm",
                      ![n].out = <<>>, ![n].hook = FALSE]
  /\ UNCHANGED <<devVars, aggVars, txq, wire, endVars, stopped, cm, made, budget>>

\* Mutant of Armed: a buffer with a single packet has no timer.
ArmedForMore(n) == IF Len(agg[n]) > 1 THEN timer \cup {n} ELSE timer

\* Outside the lock: the timer is started unless it is queued.
Armed(n) == IF agg[n] # <<>> THEN timer \cup {n} ELSE timer

TxArm(n) ==
  /\ At(n, "arm")
  /\ timer' = Armed(n) /\ tx' = [tx EXCEPT ![n] = Idle]
  /\ UNCHANGED <<devVars, agg, work, held, sentVars, endVars, stopped, tasklet, cm, made, lost,
                 budget>>

\* A timer armed by a start_xmit that outlived hrtimer_cancel() finds no device.
rmnet_usb_tx_agg_timer_cb(n) ==
  /\ n \in timer /\ timer' = timer \ {n}
  /\ IF leaving[n] \in {"gone", "off"} THEN touched' = TRUE /\ UNCHANGED work
                                       ELSE work' = work \cup {n} /\ UNCHANGED touched
  /\ UNCHANGED <<devVars, agg, held, sentVars, leaving, freed, raced, stopped, tx, tasklet, cm, made,
                 lost, budget>>

\* The work item takes the buffer under the lock ...
rmnet_usb_tx_agg_work(n) ==
  /\ n \in work /\ held[n] = <<>> /\ leaving[n] \notin {"gone", "off"}
  /\ work' = work \ {n}
  /\ IF n \in freed
       THEN touched' = TRUE /\ UNCHANGED <<agg, held>>
       ELSE /\ held' = [held EXCEPT ![n] = agg[n]] /\ agg' = [agg EXCEPT ![n] = <<>>]
            /\ UNCHANGED touched
  /\ UNCHANGED <<devVars, timer, sentVars, leaving, freed, raced, stopped, tx, tasklet, cm, made,
                 lost, budget>>

\* ... and queues it behind the lock, without the driver's destructor.
WorkXmit(n) ==
  /\ held[n] # <<>>
  /\ Enqueue([pkts |-> held[n], hook |-> FALSE])
  /\ held' = [held EXCEPT ![n] = <<>>]
  /\ UNCHANGED <<devVars, agg, timer, work, txq, wire, endVars, stopped, tx, cm, made, budget>>

-----------------------------------------------------------------------------
(* Link state: sysfs, ioctl, open and stop of a virtual device *)

\* link_state_store() is called by the quectel-CM of each context and takes no
\* lock.  In order it reads the old bits, changes its own bit (a load and a
\* store), turns the real carrier on, follows with the virtual device, and turns
\* the real carrier off when no bit is left.
StoreAt(n, pc) == store[n].pc = pc
Storing == {n \in Nets : ~StoreAt(n, "idle")}
Clearing == {n \in Nets : ~store[n].on /\ store[n].pc \in {"on", "net", "off", "drop"}}

\* The old bits.
link_state_store(n, on) ==
  /\ store' = [store EXCEPT ![n] = [pc |-> "load", on |-> on, old |-> link, val |-> {}, net |-> FALSE]]
  /\ UNCHANGED <<link, priv, clash>>

StoreLoad(n) ==
  /\ StoreAt(n, "load")
  /\ store' = [store EXCEPT ![n].pc = "write", ![n].val = link]
  /\ UNCHANGED <<reg, link, priv, clash, up, carrier, real, datagrams, aggVars, sentVars, endVars,
                 stopped, tx, tasklet, cm, made, lost, budget>>

StoreWrite(n) ==
  /\ StoreAt(n, "write")
  /\ link' = IF store[n].on THEN store[n].val \cup {n} ELSE store[n].val \ {n}
  /\ store' = [store EXCEPT ![n].pc = "on", ![n].val = link']
  /\ clash' = clash \cup (IF store[n].val # link THEN {"lost"} ELSE {})
                    \cup (IF store[n].on /\ Clearing # {} THEN {"late"} ELSE {})
  /\ UNCHANGED <<reg, priv, up, carrier, real, datagrams, aggVars, sentVars, endVars,
                 stopped, tx, tasklet, cm, made, lost, budget>>

\* The bits a later use finds: the compiler may use what was written.
Sees(n) == {store[n].val, link}

\* Nothing has changed, or the real carrier is turned on with any bit.
StoreOn(n) ==
  /\ StoreAt(n, "on")
  /\ \E bits \in Sees(n) :
       \/ /\ bits = store[n].old
          /\ store' = [store EXCEPT ![n] = Resting] /\ UNCHANGED real
       \/ /\ bits # store[n].old
          /\ store' = [store EXCEPT ![n].pc = "net", ![n].net = n \in reg]
          /\ real' = [real EXCEPT !.carrier = @ \/ (real.up /\ bits # {})]
  /\ UNCHANGED <<reg, link, priv, clash, up, carrier, datagrams, aggVars, sentVars, endVars,
                 stopped, tx, tasklet, cm, made, lost, budget>>

\* The virtual device, if it was there a moment ago.
StoreNet(n) ==
  /\ StoreAt(n, "net")
  /\ store' = [store EXCEPT ![n].pc = "off", ![n].net = FALSE]
  /\ IF store[n].net /\ leaving[n] \notin {"gone", "off"}
       THEN \E bits \in Sees(n) :
              /\ priv' = IF n \in bits THEN priv \cup {n} ELSE priv \ {n}
              /\ carrier' = IF n \in bits THEN carrier \cup ({n} \cap up) ELSE carrier \ ({n} \cap up)
              /\ stopped' = IF n \in bits \cap up /\ ~real.stopped THEN stopped \ {n} ELSE stopped
       ELSE UNCHANGED <<priv, carrier, stopped>>
  /\ touched' = (touched \/ (store[n].net /\ leaving[n] \in {"gone", "off"}))
  /\ UNCHANGED <<reg, link, clash, up, real, datagrams, aggVars, sentVars, leaving, freed, raced,
                 tx, tasklet, cm, made, lost, budget>>

\* Mutant of NoBitLeft: one context going down takes the carrier of all.
OwnBitLeft(n, bits) == n \notin bits

NoBitLeft(n, bits) == bits = {}

StoreOff(n) ==
  /\ StoreAt(n, "off")
  /\ \E bits \in Sees(n) :
       store' = [store EXCEPT ![n] = IF real.up /\ NoBitLeft(n, bits) THEN [@ EXCEPT !.pc = "drop"]
                                                                     ELSE Resting]
  /\ UNCHANGED <<reg, link, priv, clash, up, carrier, real, datagrams, aggVars, sentVars, endVars,
                 stopped, tx, tasklet, cm, made, lost, budget>>

StoreDrop(n) ==
  /\ StoreAt(n, "drop")
  /\ real' = [real EXCEPT !.carrier = FALSE] /\ store' = [store EXCEPT ![n] = Resting]
  /\ UNCHANGED <<reg, link, priv, clash, up, carrier, datagrams, aggVars, sentVars, endVars,
                 stopped, tx, tasklet, cm, made, lost, budget>>

\* -ENETDOWN when the real device is down.
qmap_open(n) ==
  IF n \in reg /\ real.up
    THEN /\ up' = up \cup {n} /\ carrier' = carrier \cup ({n} \cap priv)
         /\ real' = [real EXCEPT !.carrier = @ \/ n \in priv]
         /\ stopped' = IF n \in priv /\ ~real.stopped THEN stopped \ {n} ELSE stopped
    ELSE UNCHANGED <<up, carrier, real, stopped>>

qmap_stop(n) == up' = up \ {n} /\ carrier' = carrier \ {n}

\* The modem's limit is taken once.
qma_setting_store == IF datagrams = 1 THEN MaxDatagrams ELSE datagrams

\* ql_set_driver_qmap_setting() of a quectel-CM; later ones change nothing.
QmapSettings ==
  /\ datagrams = 1 /\ datagrams' = qma_setting_store
  /\ UNCHANGED <<reg, linkVars, up, carrier, real, aggVars, sentVars, endVars, stopped, tx, tasklet,
                 cm, made, lost, budget>>

\* The commands of quectel-CM come one after the other, and fail once the
\* device is gone.
CmAt(n, from, to) ==
  leaving[n] # "off" /\ StoreAt(n, "idle") /\ cm[n] = from /\ cm' = [cm EXCEPT ![n] = to]

\* The names a device got when it was registered stay in rmnet_info; quectel-CM
\* asks for them and runs for the devices that have one.
ql_get_driver_rmnet_info == budget.nets

\* udhcpc_start(): link_state, then the real device up, then the virtual one
\* down and up.
StartLink(n) ==
  /\ n \in ql_get_driver_rmnet_info /\ CmAt(n, "down", "real_up")
  /\ link_state_store(n, TRUE)
  /\ UNCHANGED <<reg, up, carrier, real, datagrams, aggVars, sentVars, endVars, stopped, tx, tasklet,
                 made, lost, budget>>

\* usbnet_open() starts the queue; the carrier stays what link_state made it.
qmi_wwan_open == IF real.up THEN real ELSE [real EXCEPT !.up = TRUE, !.stopped = FALSE]

StartReal(n) ==
  /\ CmAt(n, "real_up", "close")
  /\ real' = qmi_wwan_open
  /\ UNCHANGED <<reg, linkVars, up, carrier, datagrams, aggVars, sentVars, endVars, stopped, tx,
                 tasklet, made, lost, budget>>

StartClose(n) ==
  /\ CmAt(n, "close", "open") /\ qmap_stop(n)
  /\ UNCHANGED <<reg, linkVars, real, datagrams, aggVars, sentVars, endVars, stopped, tx, tasklet,
                 made, lost, budget>>

StartOpen(n) ==
  /\ CmAt(n, "open", "up") /\ qmap_open(n)
  /\ UNCHANGED <<reg, linkVars, datagrams, aggVars, sentVars, endVars, tx, tasklet, made, lost, budget>>

\* udhcpc_stop(): link_state; if it reads 0 now, the real device down; then
\* the virtual one down.
StopLink(n) ==
  /\ budget.stops > 0 /\ budget' = [budget EXCEPT !.stops = @ - 1]
  /\ CmAt(n, "up", "read")
  /\ link_state_store(n, FALSE)
  /\ UNCHANGED <<reg, up, carrier, real, datagrams, aggVars, sentVars, endVars, stopped, tx, tasklet,
                 made, lost>>

StopRead(n) ==
  /\ CmAt(n, "read", IF link = {} THEN "real_down" ELSE "net_down")
  /\ UNCHANGED <<devVars, aggVars, sentVars, endVars, stopped, tx, tasklet, made, lost, budget>>

\* The real device goes down with everything it has queued.
StopReal(n) ==
  /\ CmAt(n, "real_down", "net_down") /\ real.pc = "idle"
  /\ real' = [real EXCEPT !.up = FALSE, !.stopped = TRUE]
  /\ lost' = lost \cup Pkts(ToSet(qdisc \o txq))
  /\ tasklet' = rmnet_usb_tx_skb_destructor(ToSet(qdisc \o txq))
  /\ qdisc' = <<>> /\ txq' = <<>>
  /\ UNCHANGED <<reg, linkVars, up, carrier, datagrams, aggVars, wire, endVars, stopped, tx, made,
                 budget>>

StopNet(n) ==
  /\ CmAt(n, "net_down", "down") /\ qmap_stop(n)
  /\ UNCHANGED <<reg, linkVars, real, datagrams, aggVars, sentVars, endVars, stopped, tx, tasklet,
                 made, lost, budget>>

qmi_wwan_suspend ==
  /\ budget.naps > 0 /\ budget' = [budget EXCEPT !.naps = @ - 1]
  /\ real.up /\ ~real.asleep /\ txq = <<>> /\ real' = [real EXCEPT !.asleep = TRUE]
  /\ UNCHANGED <<reg, linkVars, up, carrier, datagrams, aggVars, sentVars, endVars, stopped, tx,
                 tasklet, cm, made, lost>>

\* usbnet_resume() wakes the real queue, the driver the virtual ones.
qmi_wwan_resume ==
  /\ real.asleep
  /\ real' = [real EXCEPT !.asleep = FALSE, !.stopped = ~real.up \/ Len(txq) >= TxQlen]
  /\ stopped' = IF real'.stopped THEN stopped ELSE qmap_wake_queue
  /\ UNCHANGED <<reg, linkVars, up, carrier, datagrams, aggVars, sentVars, endVars, tx, tasklet, cm,
                 made, lost, budget>>

-----------------------------------------------------------------------------
(* qmap_qmi_wwan_disconnect and qmap_unregister_device *)

disconnect ==
  /\ budget.leaves = 1 /\ budget' = [budget EXCEPT !.leaves = 0, !.stops = 0, !.naps = 0]
  /\ link' = {} /\ leaving' = [n \in Nets |-> "begin"]
  /\ UNCHANGED <<reg, priv, store, clash, up, carrier, real, datagrams, aggVars, sentVars, freed,
                 raced, touched, stopped, tx, tasklet, cm, made, lost>>

\* One device after the other; a place that is NULL is passed over.
Turn(n) == leaving[n] = "begin" /\ \A m \in Nets : m < n => leaving[m] = "gone"

UnregSkip(n) ==
  /\ Turn(n) /\ n \notin reg /\ leaving' = [leaving EXCEPT ![n] = "gone"]
  /\ UNCHANGED <<devVars, aggVars, sentVars, freed, raced, touched, stopped, tx, tasklet, cm, made,
                 lost, budget>>

UnregStop(n) ==
  /\ Turn(n) /\ n \in reg /\ leaving' = [leaving EXCEPT ![n] = "cancel"]
  /\ reg' = reg \ {n} /\ carrier' = carrier \ {n} /\ stopped' = stopped \cup {n}
  /\ raced' = IF At(n, "idle") /\ ~store[n].net THEN raced ELSE raced \cup {n}
  /\ UNCHANGED <<linkVars, up, real, datagrams, aggVars, sentVars, freed, touched, tx, tasklet, cm,
                 made, lost, budget>>

\* hrtimer_cancel(), then cancel_work_sync() waits for a running work item.
UnregCancel(n) ==
  /\ leaving[n] = "cancel" /\ held[n] = <<>>
  /\ leaving' = [leaving EXCEPT ![n] = "free"]
  /\ timer' = timer \ {n} /\ work' = work \ {n}
  /\ UNCHANGED <<devVars, agg, held, sentVars, freed, raced, touched, stopped, tx, tasklet, cm,
                 made, lost, budget>>

\* kfree_skb(agg_skb), which keeps its value.
UnregFree(n) ==
  /\ leaving[n] = "free" /\ leaving' = [leaving EXCEPT ![n] = "close"]
  /\ lost' = lost \cup ToSet(agg[n]) /\ agg' = [agg EXCEPT ![n] = <<>>]
  /\ freed' = IF agg[n] = <<>> THEN freed ELSE freed \cup {n}
  /\ UNCHANGED <<devVars, timer, work, held, sentVars, raced, touched, stopped, tx, tasklet, cm,
                 made, budget>>

\* unregister_netdev() closes the device and waits for start_xmit.
UnregClose(n) ==
  /\ leaving[n] = "close" /\ At(n, "idle") /\ leaving' = [leaving EXCEPT ![n] = "gone"]
  /\ qmap_stop(n)
  /\ UNCHANGED <<reg, linkVars, real, datagrams, aggVars, sentVars, freed, raced, touched, stopped, tx,
                 tasklet, cm, made, lost, budget>>

\* tasklet_kill() and usbnet_disconnect(), which waits for those who are in the
\* sysfs files of the device, and frees what is queued.
usbnet_disconnect ==
  /\ \A n \in Nets : leaving[n] = "gone" /\ StoreAt(n, "idle")
  /\ leaving' = [n \in Nets |-> "off"]
  /\ lost' = lost \cup Pkts(ToSet(qdisc \o txq)) /\ qdisc' = <<>> /\ txq' = <<>>
  /\ tasklet' = FALSE /\ real' = [real EXCEPT !.up = FALSE, !.stopped = TRUE, !.asleep = FALSE]
  /\ UNCHANGED <<reg, linkVars, up, carrier, datagrams, aggVars, wire, freed, raced, touched, stopped,
                 tx, cm, made, budget>>

-----------------------------------------------------------------------------
(* Probe *)

\* qmi_wwan_bind(): an LTE-A module begins without link; probe ignores a
\* virtual device that could not be registered.
qmap_register_device(n) == n \in budget.nets

QmapInit ==
  /\ budget \in Budgets /\ reg = {n \in Nets : qmap_register_device(n)} /\ link = {} /\ priv = {}
  /\ store = [n \in Nets |-> Resting] /\ clash = {} /\ up = {} /\ carrier = {} /\ stopped = {}
  /\ real = [up |-> FALSE, carrier |-> FALSE, stopped |-> FALSE, asleep |-> FALSE, pc |-> "idle"]
  /\ datagrams = 1 /\ agg = [n \in Nets |-> <<>>] /\ timer = {} /\ work = {}
  /\ held = [n \in Nets |-> <<>>] /\ tx = [n \in Nets |-> Idle]
  /\ qdisc = <<>> /\ txq = <<>> /\ tasklet = FALSE /\ cm = [n \in Nets |-> "down"]
  /\ made = [n \in Nets |-> 0] /\ wire = <<>> /\ lost = {}
  /\ leaving = [n \in Nets |-> "no"] /\ freed = {} /\ raced = {} /\ touched = FALSE

Xmits(n) ==
  \/ TxBusy(n) \/ TxAlone(n) \/ TxAggFreed(n) \/ TxXmit(n) \/ TxArm(n)
  \/ \E fits, now \in BOOLEAN : TxAgg(n, fits, now)
Flushes(n) == rmnet_usb_tx_agg_timer_cb(n) \/ rmnet_usb_tx_agg_work(n) \/ WorkXmit(n)
Starts(n) == StartLink(n) \/ StartReal(n) \/ StartClose(n) \/ StartOpen(n)
Stores(n) == StoreLoad(n) \/ StoreWrite(n) \/ StoreOn(n) \/ StoreNet(n) \/ StoreOff(n) \/ StoreDrop(n)
Stops(n)  == StopRead(n) \/ StopReal(n) \/ StopNet(n)
Unregisters(n) == UnregSkip(n) \/ UnregStop(n) \/ UnregCancel(n) \/ UnregFree(n) \/ UnregClose(n)
RealSteps == RealXmit \/ RealCheck \/ qmi_wwan_start_xmit \/ Complete

QmapNext ==
  \/ \E n \in Nets, own \in BOOLEAN : rmnet_vnd_start_xmit(n, own)
  \/ \E n \in Nets : \/ Xmits(n) \/ Flushes(n) \/ Starts(n) \/ StopLink(n) \/ Stores(n) \/ Stops(n)
                     \/ Unregisters(n)
  \/ RealSteps \/ Tasklet \/ QmapSettings
  \/ qmi_wwan_suspend \/ qmi_wwan_resume \/ disconnect \/ usbnet_disconnect

QmapSpec == QmapInit /\ [][QmapNext]_qmapVars

-----------------------------------------------------------------------------
(* Properties *)

Taken(n) == ToSet(agg[n]) \cup ToSet(held[n]) \cup ToSet(tx[n].out) \cup ToSet(tx[n].skb)
Sent == ToSet(wire) \cup Pkts(ToSet(qdisc \o txq))

\* A packet taken from the stack is in exactly one place: a buffer, the hands
\* of start_xmit or of the work item, a queue, the wire, or freed unsent.
PacketsConserved ==
  \A n \in Nets : \A k \in 1 .. made[n] :
    LET p == <<n, k>>
        where == <<p \in ToSet(agg[n]), p \in ToSet(held[n]), p \in ToSet(tx[n].out),
                   p \in ToSet(tx[n].skb), p \in Pkts(ToSet(qdisc)), p \in Pkts(ToSet(txq)),
                   p \in ToSet(wire), p \in lost>>
    IN Cardinality({i \in DOMAIN where : where[i]}) = 1

\* A packet is overtaken by a later one of its device only while the work item
\* holds it between agg_lock and dev_queue_xmit().
OvertakenOnlyInWork ==
  \A n \in Nets : \A j, k \in 1 .. made[n] :
    j < k /\ <<n, k>> \in Sent /\ <<n, j>> \in Taken(n) => <<n, j>> \in ToSet(held[n])

\* However the calls of link_state_store() by several managers interleave: a
\* virtual device without one under way has a carrier exactly when it is up and
\* its context is connected; and the real device, which carries the frames of
\* all, has a carrier when a connected one has.  The code breaks this where one
\* call writes another's bit back, and where it turns the real carrier off behind
\* a call that has set its bit meanwhile; it holds until one of these happens.
CarrierAgrees ==
  leaving = [n \in Nets |-> "no"] /\ "lost" \notin clash =>
    /\ \A n \in Nets \ Storing : n \in carrier <=> n \in up \cap link
    /\ "late" \notin clash => carrier \cap link = {} \/ real.carrier

\* Memory freed by disconnect is used again only by a start_xmit that ran when
\* the queue was stopped, by the timer that start_xmit armed, or by a call of
\* link_state_store() that had looked the device up before.
FreedUsedOnlyInRace == touched => raced # {}

\* A packet does not stay in an aggregation buffer: it is sent or freed, unless
\* start_xmit put it there behind the back of disconnect.
BufferIsFlushed == \A n \in Nets : agg[n] # <<>> ~> (agg[n] = <<>> \/ n \in raced)

\* A virtual queue stopped while a hooked frame is on its way is woken.
HookOnItsWay == \E f \in ToSet(qdisc \o txq) : f.hook
StoppedIsWoken ==
  \A n \in Nets : n \in reg \cap carrier \cap stopped /\ HookOnItsWay ~>
                  (n \notin stopped \/ n \notin reg \cap carrier \/ ~real.up)

\* The uplink loses, doubles and reorders nothing outside the races named
\* (rmnet_usb_tx_agg, rmnet_usb_tx_agg_work, qmap_unregister_device).
UplinkInOrder ==
  QmapTypeOK /\ PacketsConserved /\ OvertakenOnlyInWork /\ FreedUsedOnlyInRace

\* Buffers are flushed and stopped queues woken.
UplinkMoves == BufferIsFlushed /\ StoppedIsWoken
=============================================================================
