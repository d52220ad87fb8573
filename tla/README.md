# A verification of X-WRT's print, modem, tunnel and logging services

The repository is a feed of OpenWrt packages.  Most are configuration, LuCI
forms or wrapped third-party code.  This project models the packages whose own
logic is concurrent, failure-prone or both, with TLA+: TLC checks small
instances, and TLAPS proves for all parameters the print job and its server, the
tunnel deployment and its lock, the managers of one modem, the QMI exchange and
the driver's uplink.  `PROJECT.json` maps every definition to its lines, and lists the runs, the
mutants, the hazards and the theorems.

Contents: 1 inventory, 2 the modules and the code, 3 runs and bounds,
4 fairness, 5 proofs, 6 disagreements and limits, 7 mutants, 8 what is left
out, 9 plan.

## 1. Inventory

### p910nd print job (`p910nd-xwrt/src/p910nd.c`, `copy_stream`)

* State: two circular buffers of 8192 bytes (indices, count, totals, EOF and
  error flags), the descriptor sets, a pacing timer, `last_read_time`.
* Operations: `prepBuffer`, `readBuffer`, `writeBuffer`, the `select` loop
  (`-b`) and the blocking loop.
* Interactions: the TCP client, the printer device, the wall clock.
* Hard: the ring at its wrap; short reads and writes; EINTR and EAGAIN; a client
  that closes its half or resets the connection; a printer that is busy longer
  than the idle timeout; `gettimeofday` jumping when NTP sets the clock; `now`
  sampled before the wait and compared after it.
* Correct when: the printer gets what the client sent, in order, once; success
  means everything was printed; a lost status connection does not end a job; a
  silent client is dropped, a slow printer is not.

### p910nd server, lock, service, hotplug (`server`, `one_job`, `files/p910nd.init`, `files/p910nd.hotplug`)

* State: a lock file per port, a listening socket, processes, one UCI section
  per printer, procd's respawn budget.
* Operations: `get_lock`, bind, accept, `open_printer` with retries,
  `copy_stream`, `free_lock`; the hotplug script finds or adds a section,
  commits, and restarts the whole service.
* Hard: a restart starts new processes while old ones are still being torn down;
  a printer unplugged while a client waits; lock released before exit; all
  printers sharing port 0 after hotplug.
* Correct when: one process writes a printer at a time, a serving process holds
  its lock, an accepted client is not kept for ever.

### Cloudflare Tunnel deployment (`luci-app-cloudflare-tunnel`, `core.lua`)

* State: `state.json` (tunnel per account, DNS record per zone, active
  deployment, each with `pending` intents), the connector token, and at
  Cloudflare: tunnels, DNS records, ingress rules.
* Operations: `core.deploy`: look, save intent, POST, save id, for the tunnel and
  then the record; PUT the ingress rules; write the token; restart; save; remove
  the records of earlier hostnames.
* Hard: answers lost after the request took effect; a power cut between any two
  steps; other users of the same account; saves that are stale when used.
* Correct when: nothing the router created is forgotten or created twice, a
  cut-short deployment can be resumed, the old hostname goes only after the new
  one works, and nothing of somebody else is touched.

### Cloudflare Tunnel lock and worker (`runtime.lua`)

* State: a lock directory and its age, `job.json`, processes.
* Operations: `lock` with take-over of stale directories, `deploy` that forks a
  worker or runs in the foreground, `queued`, `worker`, `stop`.
* Hard: check and take-over are separate system calls; a lock is judged by the
  age of the directory and a job file that its holder may not have written.
* Correct when: two holders never work together, and a stale lock is taken over.

### Connection manager (`quectel-qconnect-manager`, `quectel-CM`)

* State: `s_pRequest`, `s_pResponse` and the transaction counter under
  `cm_command_mutex`; the control and signal socket pairs; the client ids, the
  handles of the IPv4 and IPv6 calls, the connection statuses of `qmi_main`; over
  MBIM the copies of ready, register, packet and activation state; over AT the
  pending command and the line buffer.
* Operations: a request with a timed wait (`QmiThreadSendQMITimeout`,
  `mbim_send_command`, `at_send_command_full`), the reader threads, `qmi_main`
  with its start, check, stop and reset events, the request functions (SIM,
  profile, registration, dialling, query, hang-up, address), `kill_brothers`
  and `-k`.
* Interactions: main and reader share the mutex, the condition variable and the
  socket pairs; the manager writes the driver's `link_state`; several managers
  share one channel, or a proxy.
* Hard: late answers; wake-ups between two waits; a reader that leaves while main
  waits; calls that drop or change address; an unplugged or resetting modem; a
  stop at any moment; another manager at the same time.
* Correct when: an answer goes to its request, every call returns, a lost call is
  redialled, a stop ends the program and leaves neither call nor client id.

### Proxies (`quectel-qmi-proxy.c`, `quectel-mbim-proxy.c`, `quectel-atc-proxy.c`)

* State: the connections, the queue of control requests, client ids per
  connection, the slots of MBIM clients, `current_client_fd`.
* Operations: open the device, wake the modem, serve, one poll loop, cleanup.
* Hard: clients that leave with requests under way; slots, descriptors and ids
  that are used again; a device that goes and comes back.
* Correct when: answers reach those who asked and nobody else, the control
  queue moves, a stop ends the proxy.

### qmi_wwan_q driver (`qmi-wwan-q/src/qmi_wwan_q.c`)

* State: per virtual device an aggregation buffer with timer and work item,
  carriers and queues, `link_state`, the agreed settings, the learned host.
* Operations: `rmnet_usb_tx_agg`, its timer and work item, completions,
  `link_state_store`, open, stop, suspend, disconnect; `qmap_packet_decode`,
  raw IP and bridge mode.
* Hard: start_xmit, timer, work item, completion and disconnect interleave; two
  managers write one `link_state` without a lock; settings arrive after data.
* Correct when: no packet is lost, doubled or overtaken, no buffer waits for
  ever, carriers agree with the contexts, packets arrive as they were sent.

### BJNP backend of CUPS (`lede-cups/cups-bjnp`)

* State: `printer_t` (session, sequence number, `io_free`, last count written, ink
  and paper as seen), the print buffer, the list of found printers.
* Operations: job details, connect, `bjnp_backendRunLoop`, keep-alive, side
  channel, close; parsing and reporting of status; discovery.
* Hard: printers that throttle; keep-alives between data; lost datagrams; status
  answers that break off; reasons in CUPS that outlive the struct; several
  answers of one printer.
* Correct when: every copy is printed whole and once, or the job fails; CUPS
  shows what was last seen; each printer is listed once with its best address.

### URL log reader (`urllogger/src/urllogger-reader.c`)

* State: the pending bytes, the kernel's cache limit, the lock file.
* Operations: arm the death signal, open the queue with retries, poll, read, parse,
  clear, stop.
* Hard: reads that cut records; unknown headers; a parent that dies early.
* Correct when: every record before an unknown one is printed once in order and the reader ends
  with its parent, its lock file or a signal.

### Not modelled yet, worth it

* **mwan3plus**: `mwan3track` probes each WAN and turns a score into `connected`
  and `disconnected` events, interrupted by TERM and USR1; `15-mwan3` answers
  interface events; `mwan3` start, stop and reload and `mwan3rtmon` change the
  same routing tables under `mwan3_lock`.  Hard: a signal between the computation
  of a status and its event, hotplug during reload, tracker restarts.  Correct
  when: the routing state follows the last event, no event is lost, no tracker
  is left behind.
* **lua-ipops**: pure functions on IPv4 ranges and lists of them.  Correct when:
  union, subtraction and netmask conversion agree with sets of addresses.
* **fakemesh**: turns one configuration into wireless and network settings of a
  controller and its agents.

The other components (natflow and natcap scripts around kernel modules that are
not in the repository, first-boot defaults, LuCI forms, the digest tool, build
scripts, wrapped packages) are in `PROJECT.json` with the reason for leaving
them out.

## 2. The modules and the code

| module | what it is |
|---|---|
| `PrintBuffer` | `Buffer_t` and its operations, as operators; the outcome of the system call is a parameter |
| `CopyStream` | `copy_stream` with client, printer and clock; one action per system call |
| `ByteChannel` | abstract: an ordered channel that ends well only when it is empty |
| `PrintServer` | the processes, the lock, procd, inetd, hotplug; a job is one state |
| `CfDeploy` | `core.deploy` against a shared Cloudflare account |
| `CfLock` | the lock directory and job file of `runtime.lua`; a deployment is one state |
| `QmiExchange` | abstract: requests one at a time, each run at most once, an answer only for one that was run |
| `QmiTransaction` | a QMI request and its wait, the reader thread, the socket pair, the modem; implements `QmiExchange` |
| `CmMain` | `main`, `qmi_main` and the request functions, over QMI or MBIM; a request is one step |
| `CmBrothers` | several managers for one channel: `kill_brothers`, `kill_data_call_pdp` |
| `Mbim`, `Atc` | the manager over MBIM and over AT, with the exchange of each |
| `Proxy` | the three proxies, with clients and modem |
| `QmapDriver`, `QmapData` | the driver's uplink and devices; its downlink, raw mode and bridge mode |
| `BjnpJob`, `BjnpLevels`, `BjnpDiscover` | a print job, the reporting of status, the discovery of the BJNP backend |
| `UrlReader` | the URL log reader and the kernel's queue |
| `MC...` | instances for TLC |
| `CopyStreamProofs`, `PrintProofs`, `CfProofs`, `CmProofs`, `QmiProofs`, `MbimProofs`, `AtcProofs`, `ProxyProofs` | theorems: `CopyStreamProofs` has the lemmas about `PrintBuffer`, `CopyStream` and its refinement of `ByteChannel`; `PrintProofs` has `PrintServer`, `BjnpDiscover` and `BjnpJob`; `CfProofs` has `CfDeploy` and `CfLock`; `CmProofs` has `CmBrothers` and `CmMain`; `QmiProofs` has those about `QmiTransaction`, its refinement of `QmiExchange`, `QmapDriver` and the downlink of `QmapData`; `MbimProofs`, `AtcProofs` and `ProxyProofs` have the module of their name |

**PrintBuffer, CopyStream.**  A byte is its offset in its stream, so a slot of the
ring says which byte it holds, and loss, repetition and reordering are visible.
`infd` is always valid and left out; `outfd = -1` is `outfd |-> FALSE`; the two
bits of `err` are two fields.  `Prepare` stands for the loop head up to `select`
(both `prepBuffer` calls, the timer, the sample of the clock); then one action per
descriptor test and call, each with a `Skip...` twin for an unset descriptor.
`last_read_time` is kept as `age`, the clock minus it, and `now` as `nowAge`, so
that time needs no absolute value; writes renew `age` but not `nowAge`, which is
sampled again before it is read.  `ClockSet` is NTP.  `printed` and `received` are
history variables.  The printer may return 0 bytes or an error to a read at any
time; SIGPIPE is ignored by the process, so a write to a closed connection is an
error.

**PrintServer.**  `proc[p].st` is the place of a process in `server` or `one_job`;
a port stands for its lock file.  A killed process that had the device open
stays `dying`, with device and lock, until `Reap`.  `HotplugCommit` is the
script's configuration change with the restart that follows it: every instance is
killed and new ones are started on new pids, while dying ones remain.  procd runs
hotplug scripts one at a time; disabled sections are the same as none.  With
`standalone` false, processes come from inetd and the package's own service is
not enabled, so the script's restart starts nothing.

**CfDeploy.**  A step is one HTTP request or one save; `Fail` ends the deployment
between any two: a refused request, a lost answer, a failed save or a power cut.
`disk` survives, `mem` and the locals do not.  A request takes effect within its
call or never.  `creator` and `edited` are history.  A hostname stands for its
zone.  External facts: Cloudflare refuses a CNAME beside another record of the
name, and a GET or DELETE by an id that is gone is an HTTP error, which
`client()` raises.  Ids are picked as the least free one: they only need to be
distinct from ids that are still remembered somewhere.  `adopted` is the history of
the records that were taken in by their hostname, which the code does where the
making of one was never answered (`core.lua:186` and `219`).

**CfLock.**  One file operation is one step.  The directory is `young` for its
first ten seconds.  Local file operations take less than that together, requests
and service restarts may take longer, so `Age` waits while anybody who holds the
lock, or is about to take it over, is in the middle of local operations.  `lock()`
reads the job (`ReadJob`), then the age (`StatLock`), then asks for the process the
copy names (`LookAtJob`); another process may act between any two.  Phases other
than `deploying` are one, since nothing here tells them apart.

**QmiTransaction.**  A critical section of `cm_command_mutex` is one step, except
that the sender looks at `cdc_wdm_fd` and writes in two, between which the reader
may close the device.  `pthread_cond_timeout_np` is four waits; between two of
them a signal is lost.  The transaction counter wraps at `MaxTid` instead of 255
or 65535.  `ran` and `result.n` are history: which request the modem ran and which
one an answer belongs to.

**CmMain.**  One request is one step with an outcome (answered, refused, timed
out and perhaps run later, woken without an answer, device closed), which is what
`QmiExchange` promises.  `qmi_main` is split at its requests and at its `poll`;
the switch of events, the retries of START with their delays, hanging up and the
release of client ids follow the code.  The modem holds the truth: the call and
its address per family, its profile, its clients.  Of the interface, `iface` is the
address the manager itself sets, which it does over MBIM alone: over QMI
`udhcpc_start` starts the interface and sets its MTU, and the address comes by
DHCP.  `started` is history: the address of the call when the interface was last
started; `passedOver` that a check found no call up and left it as it was.

**CmBrothers.**  Pids start in any order.  A process is at a place of `main`,
`kill_brothers` or its round; `/proc` is the set of processes that live, looked
at one by one.  What happens in a round is `CmMain`'s; here it may hang.

**Mbim, Atc.**  The main loop is reduced to which request follows which.  In `Mbim`
the host's copy of a state is written after the mutex is left, so that the reader
may compare with an old one.  In `Atc` a line carries the prefix and value the code
sees and, as history, the command it answers; `readline`, unsolicited lines,
SMS lines that take the next line along, the handshake and the start of the
device are the code's.  The modem also sends lines by themselves that look like
final responses (`Unasked`: `NO CARRIER`, the end of a firmware update, `CONNECT`).
`slip` is history: an answer came late or not whole, or such a line came while a
command other than a greeting waited.  `told` is the modem's: it has answered
`at+cfun=1,1` and is about to restart.  `again` stays set from then on, as in
`main`, until a signal clears it.

**Proxy.**  One module with the skeleton the three programs share; `kind` selects
the routing.  Descriptors are small numbers that the kernel uses again, as it
does.  `clean` is history: nobody left with a request under way, nothing was lost.
The MBIM loop returns past its cleanup when `read()` of a client gives nothing
(`HalfClose`): the new round forgets the connections, but the server of the old one
keeps its name (`leaked`), and no round gets one again (`NoServer`).

**QmapDriver, QmapData.**  A packet is its device and number.  start_xmit is split
where it leaves `agg_lock`, disconnect at its calls, and `link_state_store`, which
takes no lock and is called by one process per context, at each use of what they
share: the old bits, the load and the store of the new ones, the real carrier on,
the virtual device, the look for a bit left, the real carrier off.  What the
compiler reads again may be what was written or what is there (`Sees`).  Bytes and
ages are choices.
usbnet and the queueing discipline are external: a FIFO and a number of buffers
under way.  In `QmapData` a packet has a mux id, a command bit, a version, its
length and whether the transfer ends inside it.

**BjnpJob, BjnpLevels, BjnpDiscover.**  One iteration of the run loop is one
action, since it decides on its descriptors once; print data are items, one of
which is a start command.  CUPS' set of reasons is state of its own, which
outlives `printer_t`.  Discovery has a socket per interface and answers that
arrive in any order among stray datagrams.

**UrlReader.**  A byte is the record it belongs to and its place in it, so that a
read that cuts a record is visible.  After a full buffer is dropped
(`urllogger-reader.c:281`) reading goes on in the middle of a record; a stream says
where such bytes look like a header, and the program then prints a line that is no
event.  The reader may be killed (SIGKILL, or SIGPIPE when the shell no longer
reads), and the failure of `set_cache_limit(fd, 0)` at its end is ignored
(`urllogger-reader.c:347`): in both cases the kernel goes on caching for nobody until a
`--clear` succeeds, which `CacheNeedsReader` says.  That the queue keeps its limit
when it is closed is taken from the scripts, which run `--clear` after the reader.

The parts compose by promise.  `PrintServer` needs of a job that it ends, which is
`CopyStream`'s `JobEnds`.  `CmMain` needs the exchange of `QmiExchange`, which
`QmiTransaction` implements (`ImplementsExchange`), and `CmBrothers` needs that a
round ends or hangs.  `QmapDriver` has the steps of `udhcpc_start` and
`udhcpc_stop` that write its `link_state`.  `CfDeploy` runs one deployment at a
time; that two never overlap is `CfLock`'s matter and does not hold in every case
(section 6), so `CfDeploy`'s results hold for deployments that do not overlap.

## 3. Runs and bounds

| run | checks | bounds |
|---|---|---|
| `copy_safe` | `SuccessMeansPrinted`, `IdleNeverDropsData`, `StatusLossIsHarmless`, refinements `JobIsChannel` and `StatusIsChannel` | rings of 2, 3 job bytes, 2 status bytes, both loops: full, empty and wrapped rings, every split of a read or write; the clock may be set |
| `copy_ends` | `JobEnds`, `IdleOnlyAfterLimit` | rings of 2, 2 job bytes, 1 status byte; no clock changes, which could put off the timeout for ever |
| `server` | `OneWriterPerPrinter`, `AcceptedClientIsFreed` | servers or one-shot processes, 2 printers, 2 ports: the old and the new process of both |
| `cf_shared` | `TunnelRemembered`, `NoOrphanRecord`, `RemovesOnlyItsOwn` | 2 hostnames, 1 account; 2 failures, 2 changes by others, 1 of the origin, 3 of these together |
| `cf_move` | `AlwaysReachable`, `RetryResumes`; `RecordsKept`, `ReaderEnds`; `ManagersFound`, `TakesOver` | 2 hostnames in 2 accounts, 3 failures, 1 origin change; 4 records of 2 lengths, all known or one not, with or without bytes that look like a header behind it, a buffer of 4; 3 managers that take over, or 2 with 2 breakdowns, or 2 and a search |
| `cf_lock_recovers` | `StaleLockIsTakenOver`, `LockIsKept` | 3 processes, 1 crash |
| `qmi_transaction` | `WaiterIsServed`, `CallsReturn`, refinement `ImplementsExchange`; `UplinkInOrder`, `CarrierAgrees`, `UplinkMoves`; `DownlinkAsSent` | 2 requests, 1 indication, 1 stop, ids that wrap at 3; 2 virtual devices with 1 packet each, or 2 stops of their contexts, or 1 with a stop, a disconnect or a suspend; 6 transfers of up to 3 packets, 2 hosts |
| `cm_main` | `StopCleansUp`, `CallIsKnown`, `StopsOrConnects` | 4 setups (locked SIM, a call left over, both families over QMI and MBIM), 1 fault, 1 stop |
| `mbim` | `CallUnderControl`, `CallSettles` | 1 fault, 1 change of the network, 1 stop |
| `atc` | `CallUnderControl`, `CallSettles` | 3 modems, 1 fault, 1 change, 1 stop |
| `proxy` | `AnswersRouted`, `ProxyMoves` | 3 clients on 3 descriptors, 2 slots, 2 ids, 3 requests, 1 fault, each proxy |
| `bjnp` | `JobIsSound`, `PrintEnds`; `ReasonsAgree`; `PrintersListed` | 2 copies of 3 items, a buffer of 3, 2 faults; 6 status answers, a threshold of 3; 6 interfaces of which 2 get a socket, 2 printers, 1 stray datagram |

Most properties of the later modules are conjunctions of named parts, the first
of which is the module's type invariant; each part has its own definition and
comment.  `WaiterIsServed`, for instance, is `TypeOK`, `AnswerIsMine` (an answer is
that of the caller's request), `StrandedOnlyBetweenWaits` (only the gap between
two waits loses a wake-up) and `WaiterIsRegistered`; `UplinkInOrder` is
`PacketsConserved`, `OvertakenOnlyInWork` and `FreedUsedOnlyInRace`;
`CallSettles` is `CommandReturns`, `StopEnds`, `CallViewSettles` and
`GetsConnected`.  `TypeOK`, `RingsOK`, `PrintedInOrder` and `StatusInOrder` of the print
job and `TypeOK` and `LockHeldWhileServing` of the server are proved (section 5)
and are not model-checked.

Three runs hold programs that share no state: a variable `part`, fixed at the
start, says which of them moves, so that the behaviours are those of each alone
and fairness is stated per part.

Deadlock is checked except in `cm_main` and `atc`, where the system may really
stop: a reader left over from a failed round reads the request to quit that is
meant for the next one, and main joins that one for ever.

Each bound is the smallest at which the cases of section 1 happen: two requests
are needed for an answer to be late for the first and wrong for the second, three
clients for a slot to be used by a second owner while a third one asks, two
virtual devices for a carrier that one of two contexts keeps up and for two
`link_state_store` at once, two copies for
a keep-alive that is unanswered when a copy starts.

`IdleOnlyAfterLimit` is an action property of the run without clock changes: with
them it would be false, as an NTP step counts as silence.  Two server ports are
needed for `OneWriterPerPrinter` to mean anything: if all printers shared one
port, one lock would serialise them all.  It depends on a section keeping its
port while a process on the old one may still be dying; the mutant that resets
the port shows so.  `None`, `Elsewhere`, hostnames and accounts are model values.

## 4. Fairness

* `CopyStream`: weak fairness of the daemon and of time.  Strong fairness of a
  `select` that returns, of one that finds the printer writable, and of a read
  and a printer write that make progress: signals do not interrupt every call,
  and the printer takes data again and again.  A printer that never does blocks
  the job for ever; the code intends that (`p910nd.c:459`).  Nothing is assumed of
  the client.
* `PrintServer`: processes run, the kernel reaps, F_SETLKW wakes its waiters, and
  a job ends.  Opening the printer may fail for ever.
* `CfDeploy`: the worker goes on, since every request has a timeout, and the user
  retries.  No fairness for troubles or other people.
* `CfLock`: processes go on, the user calls again, time passes.
* `QmiTransaction`: weak fairness of the main thread and of the reader.  Timed
  waits expire.  Nothing is assumed of the modem.
* `CmMain`: main, a reader that was told to leave, and the clock of its alarms
  and delays go on; an unplugged modem is plugged in again.  `Reconnects` adds
  that service stays and the faults are over.
* `CmBrothers`: each manager goes on, except in a round that hangs.
* `Mbim`, `Atc`: main, reader and modem go on, but the modem may miss an answer
  within its bound.  `Atc` also has a device that is closed when it leaves, a
  timeout that comes when nothing else can, and a modem that restarts once told to.
* `Proxy`: main and loop go on, the modem answers what it has not lost, the device
  is plugged in again.
* `QmapDriver`: start_xmit, timer, work item, queue, completions, tasklet, resume
  and disconnect go on; neither the stack nor the managers have to do anything.
* `BjnpJob`: the process and its loop go on, a `select` that can only time out
  does, data can be read when there is some, and the printer accepts data in the
  end.  A printer that stops acknowledging keeps the job for ever, which the code
  intends.
* `UrlReader`: the reader goes on.  Nothing is assumed of the kernel's events.

## 5. Proofs

Eight modules hold theorems, each for every value of the constants its
assumptions allow.  Where a property is not inductive, the strengthening (`IInv`,
or `ExchangeInv`, `DataInv`, `LockInv`, `MainInv`, `MbimInv`, `AtcInv`, `DiscoverInv`, `JobInv`) stands before the proof; TLC
checked it on an instance like that of the run before it was proved.  Each proof has
the same shape: `Init => IInv`, `IInv /\ [Next]_vars => IInv'` with one step or lemma
per action, and each property from `IInv`.

| theorem | states | for |
|---|---|---|
| `SuccessIsComplete`, `IdleTimeoutIsSafe`, `StatusLossNeverEndsJob` | `SuccessMeansPrinted`, `IdleNeverDropsData`, `StatusLossIsHarmless` | every `BUFFER_SIZE >= 1`, job, status, idle limit and clock |
| `JobRefinement`, `StatusRefinement` | `JobIsChannel`, `StatusIsChannel` | the same |
| `IdleTimeoutIsNotEarly` | `IdleOnlyAfterLimit` | the same, with a clock that is not set |
| `OneWriter` | `OneWriterPerPrinter` | all sets of printers, ports and processes, finite or not |
| `TunnelIsRemembered`, `NoRecordIsOrphan`, `CleanupIsSafe`, `StaysReachable` | `TunnelRemembered`, `NoOrphanRecord`, `RemovesOnlyItsOwn`, `AlwaysReachable` | all hostnames, accounts, origins and ids, any failures and interference |
| `LockKept` | `LockIsKept` | all sets of processes, any crashes |
| `BrothersFound` | `ManagersFound` | all sets of pids, any number of signals before SIGKILL |
| `StopsCleanUp`, `CallsAreKnown` | `StopCleansUp`, `CallIsKnown` | any set of families, QMI or MBIM, any way of running, any number of faults and signals |
| `CallerIsServed`, `LayerImplementsExchange` | `WaiterIsServed`, `ImplementsExchange` | any services, counter width and number of requests, with a `Timely` modem |
| `FirstRoundIsServed` | `WaiterIsServed` | the same without that, for no more requests than ids |
| `CarriersAgree`, `UplinkIsInOrder` | `CarrierAgrees`, `UplinkInOrder` | any number of virtual devices, limits and environment |
| `DownlinkIsAsSent` | `DownlinkAsSent` | any transfers, hosts, devices, padding and limits |
| `CallIsUnderControl` | `CallUnderControl` of `Mbim` | any number of faults, changes of the network and signals |
| `AtCallIsUnderControl` | `CallUnderControl` of `Atc` | any modems and profiles, handshakes, polls, faults, changes and signals |
| `JobsAreSound` | `JobIsSound` | any print data, copies, buffer, packet numbers, attempts and faults |
| `PrintersAreListed` | `PrintersListed` | any interfaces, printers, answers and stray datagrams |
| `AnswersAreRouted` | `AnswersRouted` | any number of managers, descriptors, client ids and requests, each of the three proxies |

The assumptions on the constants say that bounds are natural numbers, that
capacities are not zero, and that the values that stand for nothing (`None`, `0`,
`Ctl`) are different from those that stand for something: pids, tunnel ids and
record ids are positive, and `None` is none of the records the state holds
(`NoneAssumption`).  `QmapAssumption` adds that the agreed limit of datagrams is at least
two; a limit of one is the state before the settings arrive, which the model has.
`TransferAssumption` numbers the packets of a transfer in their order, which is
how the properties tell them apart.

**CopyStreamProofs.**  First the lemmas about the ring: each operation keeps the
record's type and `RingOK`; a read of `n` appends the next `n` stream offsets to
what is buffered and a write of `n` removes the first `n`; what `write` is
offered are the oldest bytes.  None of the properties is inductive alone.
`PrintedInOrder` needs the ring to hold the last bytes read in order (`RingsOK`);
`SuccessMeansPrinted` needs that EOF was only sent from an empty buffer, and that
an EOF read without error was read behind the last byte sent;
`StatusLossIsHarmless` needs the write error of the status buffer to be cleared
in the step that sets it; and the results of system calls are known only at the
right place in the loop.  In the refinements each direction implements
`ByteChannel`, with the buffered bytes as its queue: a read maps to `Put`, a write
to `Deliver`, a broken status connection to `Lose`, a discard to `Drop`, the
return to `End`, everything else to a stutter.  `IdleOnlyAfterLimit` needs that
the sample of the clock is never later than the clock where the code compares it
(`SampleIsPast`); setting the clock breaks that, hence the hypothesis.

**PrintProofs, server.**  The lock is one per port, so that it alone does not give
one writer per printer: the inductive invariant adds `OnPortOfSection`, that every
process, a dying one included, is on the port its printer's section has now.  It
holds because the hotplug script sets a port only in a section it has just
added, when there is no process for that printer.  One lemma each for moving,
ending, starting and restarting processes; every action is one of these, taking
the lock, or releasing it.

**PrintProofs, discovery.**  Entries of the list keep their printer and their rank
never falls (`AddressAdded`), so that an answer once read stays listed at its best
(`HeardIsListed`); an entry has the address of the printer it shows as long as the
kept part of the MAC tells printers apart (`KeptApart`, `EntriesAreWhole`).  The
discovery finishes only with empty inboxes (`SocketsReady`).

**PrintProofs, print job.**  Between two iterations the buffer is the print data
behind what was acknowledged (`Buffered`); at most one packet is unanswered, it is
the head of that buffer and carries the number and the length the backend
remembers (`OneUnanswered`); and what the printer took beyond the acknowledged
items is what the answer under way says (`Accounted`).  An iteration is the report,
the side channel, the printer's answer, the print data and the write, one after
the other; one lemma for each says that the state inside the iteration keeps these
facts (`Going`), until the loop returns for a known reason.  A copy ends only with
an empty buffer, so that nothing but a keep-alive is still unanswered when the next
one starts (`CopyOver`).  That the items land in their places, copy after copy, is
`TakenInOrder`: a place in the printout belongs to one copy and one item
(`OnePlace`).  All of it is under the hypothesis that `select` was not interrupted,
which the properties have because the code drops the copy then (section 6).

**CfProofs, deployment.**  The invariant has three layers.  `Holds` says what the run
has in its hands at each stage, above all that `mem` is `disk` until the cleanup
begins: this makes a save that is cut short harmless.  `Remembered` and `Known`
say what the database knows: there is no tunnel of ours in the account between
the lookup and the POST, and the intent is on disk at the POST; every record of
ours is known by its id, or by an intent without id.  The second needs
`RecordsApart` (ids are unique, a CNAME has its name to itself) and `Read` (the
records the run has listed are still all of ours there are).  `Reachable` is
about a router that nobody interferes with: what the run holds of Cloudflare is
still true there, its hostname is live before the connector token changes, the
tunnel of the token reaches the router, and while the restart may still fail and
put the old token back, so does the old tunnel.  The cleanup must not break the
last point, which it cannot since it never visits the run's own hostname.  `Mine`
is what `CleanupIsSafe` adds: an id that a database names is that of a record of
ours or of an adopted one, since an entry without id is always an intent.  The
theorems are about one deployment at a time; see section 2 on how the parts
compose.

**CfProofs, lock.**  A deployment is not recognised by the age of its directory,
which may be old, but by the job file: `JobSpeaks`, the file names the deployment
under way, which needs `OneHolder`, that nobody else writes it; and `CopySpeaks`,
a caller's copy names the deployment that has gone on since it was read.  All are stated
for behaviours in which no two processes have got in together, as `LockIsKept`
is: the code does not exclude that (section 6).

**CmProofs.**  Of several managers: one kills only smaller pids (`OnlySmaller`), so that
what it has seen can be dead for good: everything seen in this round is dead but
for the victim in hand (`SeenIsDead`).  The search with `-k` goes through a
list it made before, and while it looks every manager found is still on it
(`SearchIsSound`).  Of one manager (`MainInv`): what it believes of the modem is
true only while every exchange was answered and no request was carried out behind
its timeout, which `clean` says.  Then `CallsKnown`: a call that is up in the modem
is one the manager reports up, and has the handle that hangs it up, and from the
place where the stop begins it is followed through the families; `StatusKnown`: a
call that is reported has an address, and no family is in an unknown state at the
end of a check.  `AddressKnown` holds whatever the outcome of the requests: an
interface that shows IPv4 was started for the address that is reported, or a check
is about to hang the call up or to take the family off; over QMI the address is the
modem's own, or an event, a CHECK or a check under way will find out (`News`).  The
first two are not inductive over a restart of the round:
`RoundsApart` says that the next round never begins with a stop under way, with a
reader left, or with an old event in the queue that would end it, and only over a
modem that lost the calls and client ids of the round before.

**QmiProofs, transactions.**  `is_response` compares service and id and nothing
else, and ids return after `MaxTid` requests.  So an answer that is under way
for that long is taken for that of a newer request, and `AnswerIsMine` is false
of an arbitrary modem.  The hypothesis `Timely` rules that out: no message is
under way for `MaxTid` requests or more, counting the requests of both counters.
It is a promise of the modem, not of the code: ids are 8 bits wide for control
requests, of which there are a few per start, and 16 bits for the others, so that
an answer would have to be late by that many calls, each of which returned or
timed out.  With no more requests than ids it holds by itself, which is
`FirstRoundIsServed`.  `Ages` relates an id to the number of requests since it was
drawn; with `Timely` it gives `OnlyMine`, that of all messages under way only the
answer of the last request fits `s_pRequest`.  `NoneLeftBehind` (types, lost
wake-ups only between two waits) holds without the hypothesis.  The refinement
maps a call to `Issue`, one that cannot be sent to `Refuse`, the modem's work to
`Execute`, the return to `Answered` or `GiveUp`, and the rest to a stutter.

**QmiProofs, driver.**  The proof sees a queue as the set of packets in it:
`Conserved` says that a packet taken is in exactly one place, `Ordered` which
places have older packets than others, and both need the shape of a start_xmit
under way (`Shape`: it takes the aggregation buffer over before it goes on) and
that no packet is in two frames of a queue.  `Ends` follows disconnect: behind
`netif_stop_queue` no start_xmit begins, one that was running is noted in `raced`,
and so is the timer it arms behind `hrtimer_cancel`; that the one disconnect of a
behaviour starts with every device still present (`budget.leaves = 1 => Present`)
was missing from the first attempt and is needed there.  `Follows`
ties `link_state` and the devices that are up to the steps of the managers and of
the calls under way: `Bits` says for each context where its bit and its device
stand at each step of its call, and holds until a bit is written back (`lost`);
`RealTracks` says that a call that cleared its bit knows of every bit there is, so
that it is right to turn the real carrier off, and holds until a bit is set behind
it (`late`).  The carriers come from both.  The downlink (`DataInv`) is about one transfer at a time:
what is left of it is its end (`RestIsLeft`), each frame handed on comes from a
packet looked at, in their order (`ChainIsLooked`), and a packet looked at whose
device is there was handed on (`LookedIsChained`).

**MbimProofs.**  The invariant has two halves.  `Exchanges` holds whatever the modem
does: of everything under way, only the waiting command's answer carries its id,
because `NextId` is an id that nothing under way carries, which there is since
finitely many messages are under way.  `InTime` holds while every command was
answered in time (`clean`): at most one command or answer is under way, an answer to
the close says that the call is down and the device closed, and a reader that has
left leaves no command without its answer.  `Leaving` ties the two ends of a stop
together: the main loop and the reader hear of it in the same step, and
`DISCONNECTED`, which ends the loop, is posted only by a reader that is done.

**AtcProofs.**  An AT answer carries no id, so the invariant has to say what is under
way.  `InTime` holds while every command was answered in time and whole, and no
final response came unasked while one waited (`slip = "never"`; atchannel.c:132 warns
of those, and the theorem is about the runs without): the modem has at most the command that waits, the channel at
most that command's lines with its final response behind them, and unsolicited
lines of any kind anywhere between (`InStep`; the reader passes over a final one
when no command waits, or takes it for the answer to a greeting); the greeting is apart, for which several tries
may be under way, all of them greetings, until the pause lets them run out
(`Greeting`).  From there on truth is carried along the channel: a line says what
is so in the modem and no OK comes without the line it is for (`WireIsTrue`), so
that the response does too (`ResponseIsTrue`), and what the caller concludes from it
is right (`WokenLearns`): the style and the NAT mode (`Styled`: the modem is
restarted once), and whether there is a call (`CallTracked`: a call that is up is
known, or the request under way will find it).  `Closing` says that the channel
ends under a command only by the restart of the modem, which takes the call, and
`Styled` that it comes when the style is known and the NAT mode is set.

**ProxyProofs.**  What is always true is that the list holds each connection once
and a manager has one connection (`Places`).  The rest needs `clean`, that no
manager left with a request under way and the modem lost nothing; then the head of
the control queue, and no other control request, is with the modem
(`QueueServed`); every request queued or with the modem still has its way back
(`QueueOwned`, `DevOwned`); the client ids are the modem's (`IdsOfModem`); and
over AT no old entry of `pollfds` names a connection that another manager has now
(`PollIsFresh`).  Two things had to be found for this to be inductive: a client id
is released once, and no request with that id is sent behind its release, so that
the modem may run the others in any order.

Only model-checked:

* all liveness (`JobEnds`, `AcceptedClientIsFreed`, `RetryResumes`,
  `StaleLockIsTakenOver`, `ReaderEnds`, `TakesOver`, `CallsReturn`, `UplinkMoves`,
  `StopsOrConnects`, `CallSettles`, `ProxyMoves`, `PrintEnds`): fairness and
  ENABLED are out of the prover's reach;
* `RecordsKept` of `UrlReader`: what the recursive parser returns for every buffer
  takes induction over data, which the provers do not do;
* `ReasonsAgree` of `BjnpLevels`: the vendor's reasons are a fold over the list of
  cartridges, so that what it leaves alone takes induction over the list.

## 6. Disagreements and limits

What was met while modelling.  The models have these behaviours; no run is
about them, and where a property would fail for one, its comment says what it
leaves out.

Cloudflare Tunnel plugin:

* `core.lua:219` (and `186`): after a failed POST the intent stays pending; if
  somebody makes a CNAME of that name to the router's tunnel by hand, a later
  cleanup deletes it, though the plugin's README.md:91 promises to remove "only DNS
  records created by this plugin".  `RemovesOnlyItsOwn` states what is kept: a
  record is removed only if the router made it, or took it in (`adopted`) while
  the making of its own was unanswered.
* `core.lua:206`: ingress rules are read, then written back several requests
  later; a rule added meanwhile is lost.
* `core.lua:98`: once a hostname is published, a changed local origin makes every
  further deployment of it a conflict.
* `core.lua:222`: a crash between the DELETE of an old record and the final save
  leaves an entry that every later cleanup fails on.
* `runtime.lua:285`, `288`, `326`, `400`: `stop` holds the lock for longer than ten
  seconds without a job file, and a deployment takes it away; two callers that
  both saw a stale lock both get in; a lock may be removed that is somebody
  else's by now.
* `runtime.lua:282`: the job is read before the age of the lock and the process are
  looked at.  A caller that read the job of the parent, which has exited, then finds
  an old directory and no process, and takes the lock of the worker that wrote its
  own job in between.  `DeploymentKeepsLock` speaks of callers that read the job
  while the deployment goes on.

Connection manager, proxies, driver:

* `main.c:620`: a reset of the modem that is handled before a waiting stop starts
  the manager over; the stop is lost with its socket pair.
* `main.c:306`: after a failed start the reader is not joined and may swallow the
  next request to quit.
* `QMIThread.c:620`: a wake-up without an answer is success to callers that want
  no answer; a call may be reported up without its handle.
* `QmiWwanCM.c:285`: the IPv6 client id is released under a service type the modem
  does not know.
* `main.c:59`: over MBIM an address that changes while the call stays up is never
  noticed, and the interface keeps the old one; `InterfaceFresh` says there that it
  carries what the manager reports, over QMI that it was started for the modem's.
* `main.c:547`: a check that finds no call up and one in an unknown state does
  nothing to the interface; a call that is dialled again meanwhile, with another
  address, finds the same families on it, and it is not started again
  (`passedOver`).
* `main.c:165`: managers with larger pids are not looked for, so that two that
  start together share the channel.
* `atchannel.c:773`: after one late answer each command gets the answer of the
  one before; `atc.c:411` may then repeat for ever.
* `atchannel.c:132`: `NO CARRIER`, `+QIND: "FOTA","END",0` and `CONNECT` are final
  responses by their text, and the comment says that some come unasked.  One that
  comes while a command waits ends it, and the command's own answer is the next
  one's, as after a late answer; the second of silence after the handshake makes up
  for one there.  `CallUnderControl` and the last two parts of `CallSettles` exclude
  it (`slip`); the rest of `CallSettles` holds with it.
* `atc.c:100`: the flag set for the restart is cleared by a signal only
  (`main.c:230`), so that every later end of a round starts the program over.  A stop
  that comes while `at+cfun=1,1` is answered clears it before it is set, and the
  program starts over after it.
* `quectel-qmi-proxy.c:226`: a client that leaves with two control requests queued
  leaves one behind, at which the queue stops for all (`leftBehind`; the same after
  a control answer that the modem lost).  `ProxyMoves` excludes both.
* `quectel-mbim-proxy.c:342`: a client that shuts down its sending side and stays
  makes the loop return past the cleanup of lines 375 to 379.  Its server stays open,
  `proxy_make_server` fails from then on, and the proxy wakes the modem up every ten
  seconds and serves nobody until it is killed.  `ProxyMoves` excludes it (`leaked`).
* `qmi_wwan_q.c:406`: `link_state` is read, changed and followed without a lock.  Of
  two managers one may write back the bit that the other has just changed; and the
  one that saw the last bit go turns the real carrier off (line 461) behind one that
  has set its bit and turned it on (439), whose device then has a carrier over a
  real device without.  `CarrierAgrees` states both as its exceptions (`lost`,
  `late`) and holds for all other interleavings.
* `qmi_wwan_q.c:443`: a call that has looked its virtual device up still uses it
  when disconnect has freed it meanwhile (`raced`).
* `qmi_wwan_q.c:1291`: disconnect frees the aggregation buffer and keeps its
  pointer, which a start_xmit that had begun before still uses.
* `qmi_wwan_q.c:1582`: one bad packet drops the rest of its transfer.

BJNP backend:

* `bjnp-runloop.c:174`: a `select` interrupted before the first acknowledgement ends
  the copy as a success with nothing printed.
* `bjnp-io.c:174`: job details that are never answered give session 65535, not an
  error.
* `bjnp-utils.c:216`: `u8tohex_string` writes every second digit to one place, so
  that printers whose other digits agree are one printer to discovery.
* `bjnp-utils.c:237`: a start command at the very end of a buffer is not found.

## 7. Mutants

Next to a definition stands, for each property, a variant with a plausible bug
(`...Anyway`, `No...Intent`, `ChainedFirst`).  With the variant in its place TLC
finds the property violated: the properties do constrain the code.

## 8. What is left out

Logging, mDNS, daemonising and option parsing of p910nd (the service runs it in
the foreground); the syntax of hostnames and tokens, the password check and the
final HTTPS verification of the tunnel plugin, which change no state that another
step reads; its `status`, `check` and `settings`, which only read; the duration
of anything but the idle timeout and the age of the lock.  The pending intent
for a tunnel is modelled per account and the account of a zone does not change.

Connection manager: message layouts, printing, the loopback test mode, QoS, the
qrtr transport, device detection in sysfs, split QMI packets.  Proxies: command
line options.  Over AT, a start that failed beside threads it leaves behind is the
end, also with the flag for another round set.  Driver: the NSS and MHI variants, ethtool, statistics.  BJNP: a
payload that arrives more than a second after its header, short writes to the
socket, addresses after the first that answers, a close datagram lost after a
failed connect, debug output.  URL log: the text of a line, the rotation of the
file by the service script.

## 9. Plan

Done: the modules of section 2, and the proofs of section 5; of the safety
properties, only those the provers cannot reach are left to the runs.  Next, in
order:

1. `Mwan3Track`: score machine, signals, status files and events, composed with
   `Mwan3Hotplug` (the `15-mwan3` script, `mwan3_lock`, start, stop, reload).
   Properties: the routing state follows the tracker's last status; no event
   after `ifdown`; a reload leaves no interface without its tracker.
2. `IpOps`: the range operators against sets of addresses, as an evaluated model.
3. `fakemesh` if its state machine proves worth it.
