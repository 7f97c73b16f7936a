# TLA+ models of the UCAS computer network labs

The repository is the coursework of a computer networks course: eleven small C
programs, each a lab, that grow from a hub to a TCP stack.  A lab copies the
files of the labs before it, so the same file occurs in several directories;
this project models each file once, in the lab where it is last used with
effect, and names the copies.

All programs have one shape: a thread runs `ustack_run` (`main.c`), which polls
raw sockets and calls `handle_packet` for one frame at a time; timer threads run
beside it; in the TCP labs an application thread calls the socket functions.
The threads share tables protected by one mutex each, or by none.

## Inventory

| Component | Source | State | Operations | Interacts with | What is hard | What makes it correct |
|---|---|---|---|---|---|---|
| Ring buffer | `11-tcp_stack/include/ring_buffer.h` (same in 12) | `size`, `head`, `tail`, `buf` | alloc, used, free, empty, full, read, write | receive path and `tcp_sock_read` | wrap-around, full against empty | it is a bounded FIFO queue |
| Waits | `11-tcp_stack/include/synch_wait.h` (same in 12) | `notified`, `sleep`, `dead`, mutex, condition | `sleep_on`, `wake_up`, `wait_exit` (never called) | every blocking socket call | lost wake-ups, spurious wake-ups | a notified sleeper returns |
| TCP data path | `11-tcp_stack/tcp_in.c`, `tcp_out.c`, `tcp_sock.c` (write, read), `tcp_apps.c` | `snd_wnd`, `snd_nxt`, `rcv_nxt`, `rcv_wnd`, receive buffer, waits | `tcp_process` (ESTABLISHED), `tcp_sock_write`, `tcp_sock_read`, `tcp_update_window` | network thread and application thread of two hosts | flags read without their mutex, windows read and written by two threads, a full buffer blocks the network thread | bytes arrive in order, once; readers and writers that can go on do |
| TCP connections | `11-tcp_stack/tcp_sock.c`, `tcp_in.c`, `tcp.c`, `tcp_timer.c` | `state`, the established, listen and bind tables, listen and accept queues, time-wait list | bind, listen, connect, accept, close, `tcp_process` | network, application and timer thread | a packet may be sent before the state it answers to is set; child sockets copy their parent | both ends reach CLOSED; lookups find the right socket; ports are unique |
| TCP retransmission | `12-tcp_stack_2/*.c`, `include/list.h` | send buffer, out-of-order buffer, timer list | as above, with loss | application, network and timer thread | retransmission against late ACK; timers that are stopped twice | what is not acknowledged is kept and sent again |
| ARP cache | `07-router/arpcache.c`, `arp.c` (same in 09 to 12) | 32 IP-to-MAC entries, requests with waiting packets | lookup, append, insert, sweep | forwarding thread and sweep thread | lookup and append are two critical sections; replies race the sweep | no waiting packet is forgotten, entries expire, answers are used |
| IP forwarding, ICMP, routing table | `07-router/ip.c`, `ip_base.c`, `icmp.c`, `rtable.c` (same or near in 09 to 12) | routing table | longest prefix match, forward, ICMP errors | ARP cache | the default route, TTL | the chosen route is the longest match |
| NAT | `10-nat/nat.c`, `ip.c` | mapping table, port bitmap, rules | translate (SNAT, DNAT), timeout sweep, config | forwarding thread and timeout thread | port reuse, connection finish, lock on every path | external ports are unique, both directions of a flow agree |
| Spanning tree | `05-stp/stp.c`, `stp_timer.c` | root, root path cost, designated information of every port | handle config, hello timer, recompute | neighbouring switches | configs in any order, stale information | one root, a loop-free active topology |
| MOSPF | `09-mospf/mospf_daemon.c`, `mospf_database.c` | neighbours, link state database, routing table | hello, LSU flooding, ageing, Dijkstra | five threads of each router | stale sequence numbers, ageing against flooding, table read without a lock | equal databases, shortest paths |
| Learning switch | `04-switch/mac.c`, `main.c`, `broadcast.c` | MAC table with visit times | lookup, insert, sweep, forward, broadcast | forwarding thread and sweep thread | lookup and insert are two critical sections | a frame goes where its station was seen last |
| Hub | `03-broadcast/broadcast.c`, `main.c` | none | broadcast | neighbouring hubs | loops | every other port gets the frame |
| Prefix tries | `06-lookup/tree.c`, `util.c` | binary trie, two-bit trie (`ad_trie`), four-bit trie (`super_trie`) | insert, lookup | none | leaf pushing, insertion order | lookup is longest prefix match |
| HTTPS server | `02-socket/https-server.c`, `util.c` | none kept | parse, redirect, answer | OpenSSL, file system | partial reads | the response for the request |
| Buffer bloat experiments | `08-bufferbloat/` | none | measurement scripts and data | mininet | | |
| Devices, netlink | `device_internal.c`, `rtable_internal.c` | interfaces, kernel routes | raw socket I/O | kernel | | |

## The modules, and how they correspond to the code

`RingBuffer` holds the algorithms of `ring_buffer.h` as operators on a record,
`SynchWait` those of `synch_wait.h`, `LinkedList` those of `list.h`.  The first two
are used by `TcpFlow`, the last by `Retrans`.  `Rtable` extends `Tries`, so that
one table of prefixes is looked up in four ways.  The other components do not
share state in the code, and have one module each.

| Module | What it is | Checked by | Proved in |
|---|---|---|---|
| `RingBuffer` | used, free, empty, full, read, write of one buffer | through the two below | `TcpFlowProofs` |
| `ByteQueue` | what a ring buffer promises: a bounded FIFO queue of bytes | | |
| `RingBufferUse` | a buffer under any legal use; refines `ByteQueue` | `ring_buffer` | `TcpFlowProofs` |
| `SynchWait` | `sleep_on` and `wake_up`, step by step | through `TcpFlow` | |
| `TcpFlow` | one direction of an established connection, four threads; refines `StreamPipe` | `flow` | `TcpFlowProofs` |
| `StreamPipe` | what a connection promises: a pipe of bytes that ends after the last one | | |
| `TcpConn` | socket calls, tables and connection states of many connections | `conn` | `TcpConnProofs` |
| `LinkedList` | the circular lists of `list.h` | through `Retrans` | `RetransProofs` |
| `Retrans` | the client of lab 12, over a link that loses packets | `retrans` | `RetransProofs` |
| `ArpCache` | cache, pending packets, forwarding and sweep threads | `arp`, `arp_expire` | `ArpCacheProofs` |
| `Nat` | translation table, port pool, timeout thread | `nat` | `NatHttpProofs` |
| `Stp` | switches of any topology that exchange configs | `stp` | `StpLanProofs` |
| `Mospf` | routers that flood their links and compute routes from them | `mospf` | `MospfProofs` |
| `Lan` | learning switches and hubs in a network of hosts | `switch` | `StpLanProofs` |
| `Tries` | the three prefix tries of `06-lookup` | `tries` | `TriesProofs` |
| `Rtable` | the routing table of `07-router` and its longest prefix match | `tries` | `TriesProofs` |
| `HttpServer` | the two listening threads of `02-socket` and their clients | `https` | `NatHttpProofs` |

The MC modules give constants their values and define nothing of the system.
An operator with an underscore in its name (`Free_NoSpare`) is a wrong version
of the operator after it: the bug that a property would notice.

**RingBuffer.**  The record has the fields `size`, `head`, `tail`, `buf` of the
struct.  `CopyIn` and `CopyOut` are the one or two `memcpy` calls of write and
read, `AfterWrite` and `AfterRead` the functions.  `WriteAllowed` is the assertion of
`write_ring_buffer`.  One cell stays empty, which `alloc_ring_buffer` allows for.
The names of `RingBufferUse` begin with `Buf` because `TcpFlowProofs` extends it next to
`TcpFlow`.

**SynchWait.**  A wait is its mutex, the two flags, the threads blocked in
`pthread_cond_wait` and those that were signalled and have to take the mutex
again.  `Slept` runs up to the block, `Returned` clears the flags, `Woken` is
`wake_up`, `Spurious` an early return of `pthread_cond_wait`, which the code does
not guard against with a loop.

**TcpFlow.**  The client's application thread writes a stream and closes; the
server's reads until it is told the end.  Each thread has a variable for the
place it is at (`app`, `snet`, `rnet`, `reader`), and a step touches shared state
once.  `sent`, `snd_wnd`, `rcv_nxt`, `rcv_wnd`, `rcv_buf` and `state` are the
fields of `struct tcp_sock`; the byte at position p is the number p, so that
order and loss are visible.  The load and the store of `tcp_update_window`, the
unlocked tests of `sleep`, the test of the state after `rcv_buf_lock` is
released, and the wake-up inside that lock are separate steps.  The lock is a
variable only because the reader keeps it while it waits for another mutex.

**TcpConn.**  The sockets of any number of clients and their children on one
server.  `state`, `established_table`, `listen_table`, `bind_table`,
`accept_queue` are those of the code; `net` and `app` say where the threads are;
`to` holds the packets on each link.  A socket call is split where it has sent a
packet and not yet changed the state or hashed the socket.  `alloc_child_tcp_sock`
copies the parent with `memcpy` before the state is changed, so the child goes
into the listen table, in front of its parent, and carries the bind list node of
its parent: `Found`, `Spawn` and `BindUnhashed` say what follows.  `overtaken`
records that a packet came between two steps of a call: only then may a
connection fail.

**LinkedList, Retrans.**  A list is the `next` and `prev` of every node; a node
that was deleted keeps its pointers, as in the code.  `Retrans` has the
socket (`tsk`), its send buffer, the list of its two timers, the places of the
application and the network thread, and the link.  Its peer is the kernel's TCP,
as in `tcp_stack_trans.py`, and external.  Timers are not measured: one
that is enabled may expire at any moment.  The process dies (`crashed`) where the
code follows a wild pointer: the retransmission timer is converted to its socket
as if it were the other one (`tcp_timer.c:19`).

`send_buf` is a list that no lock protects, and the model keeps its pointers.  The
application reads the tail of the list (`Build`), links its packet behind that
(`LinkForward`), then back (`LinkBack`), and only then emits it (`ready`).  The network
thread walks the same list in between, entry by entry (`ClearEntry`): it has read
the next entry before it frees the one in hand, tests `seq < ack` of its first
number as `tcp_buffer.c:20` does, and dies when it follows a pointer that is not yet
there.  `torn` is history: an entry was freed while another was added behind it.
A data segment takes `Seg` numbers.  `sleep_on` may return without a notification
(`Spurious`), from connect as well, after which the application writes or closes in
SYN_SENT.

The code does not compile as it
is committed (`tcp_buffer.h` has no `#endif`, `tcp_buffer.c:31` no semicolon,
`tcp_sock.c:416` names a field `wait_recv` that the socket does not have), and the
repository's README says that the module "might not work"; it is read with these
three repaired and nothing else.  In ESTABLISHED every packet from the peer is
taken for a duplicate, since `rcv_nxt` is advanced before it is compared
(`tcp_in.c:60`), so the code for data, windows and the out-of-order buffer is
never reached, and after the initial window the writer waits.

**ArpCache.**  `entries` is the table, with ages in seconds; `reqs` the pending
requests with their packets; `net` and `error` the packet that each thread holds
between `arpcache_lookup` and `arpcache_append_packet`.  A hop may reply at any
time, asked or not, with any MAC it has ever had; so requests, which leave no trace in the
router, are not in the model.  The sweep thread's pass is one critical section, its reports are
not.  A report is an ICMP error that goes through the same cache.

**Nat.**  `mappings` are the `nat_mapping`s, `assigned_ports` the bitmap, `locked`
the mutex left locked.  `DnatRules` is the list of rules as configured; the first
one for a port decides (`Rule`).  `DirOut` and `DirIn` are `get_packet_direction`.
Of a packet the flags SYN and FIN count, in any combination.
Fields that `malloc` leaves uninitialised take any value: `external_fin` of a flow that
was opened from inside, `internal_fin` and `update_time` of one opened from outside.
The properties do not read them.  They read `inside` and `outside` (what the last packet of
each side was: none, one without FIN, or one with), `quiet` (the time since a packet) and
`pooled`, which are history: no action depends on them.

**Stp.**  `ports[s][t]` is what the port of switch s towards t holds; `wire` the
configs under way.  A handler is one step, for the code holds `stp->lock`
throughout.  The loop meant to refresh all ports looks at the receiving port
(`stp.c:180-182`), and `Updated` does as the code does.

**Mospf.**  Each router has its neighbours, its database (a list, in the order of
arrival), the number of its next LSU, and queues of LSUs towards its neighbours.
The handler of an LSU, the hello of a neighbour, the sending of an own LSU and the
two ageing threads are an action each, since each holds `mospf_lock` for its whole
turn.  The databases have filled when a behaviour begins, each in one of the orders of
`Arrival`: an entry stays where it was appended, and ties between routes depend on it.
The routing table is an operator (`Rtable`) and no variable: a thread
computes it anew from the database each second.  `Dist` is Dijkstra's
algorithm, which with links of cost 1 is a search by distance; ties go to the
lowest index of the array, as in the code: `Prev` is the one before a router,
`Back` the edges that the code follows back, and `FirstHops` where they end.  Time is not counted: a neighbour may
time out when the link is down, an entry when no LSU can renew it (`Quiet`).
`alive` of a new neighbour is not initialised (`leftover`).

**Lan.**  A switch handles a packet in three steps: `Lookup` and `Insert`, which are
critical sections, and `Send` between them; `Sweep` and other switches come between any
two.  `lookup_port` reads the port of the entry after it has released the lock
(`mac.c:46-47`), when the sweep may have freed the entry.  The thread that reads is the only one
that allocates, and `free` writes only where the links of the list were, so the read yields
what was found; the model takes it so, which the head of `Lan.tla` states.  A hub repeats (`Repeat`).  Hosts
send and may be unplugged and plugged in elsewhere.  `Behind` is what can be reached
over a port; like `LoopFree` and `NoEcho` it depends on the wires alone and serves the
properties.  Its names begin with `Lan` where `Stp` has the same, and those of `HttpServer`
with `Http`, because each shares its module of proofs with another.

**Tries, Rtable.**  A node is named by the bits that lead to it, so a trie is a
function from bit strings to ports, and inner nodes may have no port.
`ad_trie` gives a node a child for the odd lengths between its levels, `super_trie`
spreads a prefix over the nodes of a level that it covers, as the code does.  The table lists covering prefixes first and has no duplicates, as the repository's
file of 697882 entries does.  A table in the model has its entries in any order, with
duplicates; `super_trie`, which overwrites, is held to tables that list covering
prefixes first (`CoveringFirst`), the others to any table.
`Rtable` searches the same entries as a list, behind a default route; the loop over
the list is a recursive function of the number of entries that it has seen.  The default
route is never found, which `RtableDefault.cfg` shows; `RtableIsLongestMatch` therefore
speaks of addresses that another entry matches, and says nothing of the rest.

**HttpServer.**  Two threads accept, receive, answer and close; clients follow the
redirection.  A request is its url and its headers; `parsed_headers` reverses
them, for each one is put in front of the list, and the last `Range` wins; one of the
requests of the run has two.
`get_response` reads the file and cuts the range; past the end it sends what the
buffer holds (`Junk`).  `bytes=-n` is read as the range from -n on.  An end before the start makes
`read_len` negative, which `fread` takes for a huge `size_t` (`https-server.c:200`) and which cuts
the response short (202): the model answers `Unreadable`, and no property speaks of it.

## The runs

| Run | Bounds | What it shows |
|---|---|---|
| `ring_buffer` | 3 bytes, 2 byte values, requests up to 4 | every position of head and tail, full and empty buffers, and requests longer than the content; refinement of `ByteQueue` |
| `flow` | stream 5 in one write, segments of 2, buffer 3, reads of 2 | the last segment is short, the window is used up, a segment does not fit while another does, reads cut segments; refinement of `StreamPipe`, safety, and liveness of sleepers, the lock and the stream |
| `conn` | 2 clients | simultaneous handshakes, accept in either order, active, passive and simultaneous close, TIME_WAIT of a child while another is open |
| `retrans` | files of 0, 1 and 3 segments of one number, window 2, 1 loss, 8 sequence numbers | a file shorter and longer than the window; any packet lost, in either direction; ACKs that cover several packets or none; every order of the three threads, and every step of a walk of the send buffer against both steps of an addition |
| `arp` | 2 hops, one of which has two MACs, 1 slot, 3 packets, 1 retry | the table overflows, requests are repeated and given up, several packets wait for one hop, errors wait as well; replies come at any time, asked or not, race the sweep, and change the MAC of a hop |
| `nat` | 2 internal and 2 remote endpoints, 2 ports, 2 rules outside the pool of which the second is never reached, 3 packets, timeout 1 | the pool is exhausted, a port is freed and assigned again, a remote addresses pool ports, the rules' port and one with no rule, packets with SYN and FIN in any combination |
| `stp` | the ring of `four_node_ring.py`, 1 config in a queue | two paths of equal length to the root, configs that cross; safety and convergence |
| `mospf` | 3 routers in a triangle, 2 of them with hosts, 1 fault, LSU ttl 3 | LSUs that come round both ways and overtake each other, a link that fails, a router that restarts, a counter that comes round to 0, a neighbour that times out at once; after any one of them the network settles |
| `switch` | one switch with a hub behind it, 3 hosts, 3 frames, 1 move, timeout 1 | frames that flood, are learnt, meet a swept or a stale entry between lookup, forwarding and insertion, and reach a host behind the hub |
| `tries` | 16 bit addresses, 8 of them, 11 prefixes within, at the end of and between levels, tables of up to 4 entries | prefixes nested in one level and across levels, some listed twice, in every order for the binary trie, the two-bit trie and the routing table, with covering prefixes first for the four-bit trie; four ways to look an address up that must agree |
| `https` | 2 clients, 3 manners, 8 requests, 2 files | a missing file, ranges inside, open, beyond the end, counted from the end and inverted, clients that stay silent or leave while the other is served |
| `arp_expire` | as `arp` | a disagreement: `arpcache.c:156` wants entries older than 15 seconds removed, and the sweep clears `valid` in a local copy (`arpcache.c:178`) |

Each bound is as small as keeps the cases named in the table: two of every
actor whose members compete, one fault more than what a handler is written for,
queues and buffers shorter than what is sent through them.  Bounds that only the
runs need are constants (`MaxRequest`, `NumPackets`, `MaxQueue`,
`MaxFrames`, `MaxMoves`, `MaxLoss`, `MaxEntries`, `Faults`).  `MaxQueue` makes switches lose a
config that meets a full queue, which is a bound of the model only.  `NumPackets` makes
traffic stop, which `PortsComeBack` and `PacketSettles` need, and which their
wording says.  `EntryTimeout = 0`, `MaxRetries = 1` and `Timeout = 1` scale 15
seconds, 5 retries, and 60 or 30 seconds down; ages stop counting once they are
overdue, so that a run covers any waiting time.  `CHECK_DEADLOCK FALSE` is set
where the system may really stop: all packets sent, a connection closed, threads
asleep, all clients answered.

Constants are tied by one named assumption in each module, which TLC evaluates in the
runs.  The most particular ones are these.  `RetransAssumption`: the window and the
two numbers of SYN and FIN take at most half of the sequence numbers (64 KiB of
2^32 in the code).  `StpAssumption`: a link joins two switches.  `LinksConnect`, a
hypothesis of the theorems about `Stp`: the topology is in one piece.
`MospfAssumption`: two routers share at most one network, a network has one or two of
them, and every router has a neighbour, as in `topo.py`.  `LanAssumption`: a wire joins two
ports, a port has one wire or one host.  `LoopFree` and `NoEcho`, hypotheses of the theorems about the two properties of
`Lan`: every device reaches every jack by one of its ports, without which a flooded
frame circulates, and behind a port of a switch there are only hubs and one jack.  `NoEcho` is
a strong hypothesis: no two switches are joined, directly or by hubs, and any two hosts are
on different ports.  That is the network of the lab (one switch, a host on each port) with hubs
in between.  Where two switches are joined, neither property holds: a frame does come back
(`LanEcho` below), and teaches a switch a wrong port (`StaleIsBrief` fails there with `MaxMoves = 1` and `MaxFrames = 2`).  TLC evaluates
both for the network of `switch`.  `LanTypeOK` needs neither.  `HttpAssumption` says what kind of data requests
and files are.  `TriesAssumption`: the levels
of a trie divide an address evenly and prefixes are no shorter than the head of
`super_trie`, as in the repository's table.

The type invariant of each module is `TypeOK` (`LanTypeOK` and `HttpTypeOK` of those two); it may be added to the invariants
of any configuration.  The runs spend their properties on what could go wrong.

### Fairness

* `TcpFlow`: weak fairness for each of the four threads.  They are kernel threads,
  and a thread waiting for a mutex that becomes free gets it in the end, as each
  mutex is contended by one other thread, which leaves it.  Spurious wake-ups are
  allowed and never assumed.
* `TcpConn`: weak fairness for every step of every thread, and applications that
  close what they opened.
* `Retrans`: the application, the network thread, the peer's receipt of packets
  and each timer are weakly fair.  The peer need not send anything of its own.
* `ArpCache`, `Nat`: the sweep thread and the clock go on; nothing says that packets
  or answers come.
* `Stp`: handlers are weakly fair.  Hellos are strongly fair: the code sends
  one every two seconds whatever the queues hold, and the model enables it only
  when the last hello has left its queue, which `MaxQueue` makes necessary and which
  is so again and again.
* `Mospf`: the packet thread, the two ageing threads and the periodic LSU of each
  router are weakly fair.  Faults are not, and nobody has to repair a link.
* `HttpServer`: the two listening threads are weakly fair, and clients do in the
  end what their manner says.
* `Lan`, `Tries`, `RingBufferUse`: safety only.

## What is proved

All proofs are for every value of the constants that the named assumption of the
module admits.

* `TcpFlowProofs`, first part: head and tail stay inside the buffer, and the ring buffer
  implements `ByteQueue`.  The lemmas before that say what used, free, read and write do
  to `Contents`, the bytes from head to tail; they are the only place where wrapping
  is reasoned about, and the second part cites them as well.
* `TcpFlowProofs`, second part: `TypeOK`, `StreamIntegrity`, `AckOnlyStored`,
  `CloseWaitMeansStored`, `BlockedCanBeWoken`.  They are not inductive alone.  `IInv`
  adds `PipeOK` (the packets under way continue one another, from what is stored
  to what was sent), `HandlingOK` (what the network thread is about to do agrees
  with `rcv_nxt` and the packet in hand) and `WaitsOK` (each wait is used by one
  thread, and who is in it is where its place says).  A step of the receiver keeps
  the stream because the packet in hand starts where the stored bytes end.
* `TcpFlowProofs`, last part: `TcpFlow` implements `StreamPipe`.  What is stored is the
  bytes read and those in the ring buffer; `CLOSE_WAIT` is the end.  Five actions
  move the pipe on (`SendSegment`, `SendFin`, `StoreData`, `ReadData`, `EnterCloseWait`), all
  others leave it as it is (`OthersRest`).  `IInv` says why each move is one the pipe
  allows: that a segment is stored only after it was sent, before the end and where
  there is room, and that the end was sent and is last.  `CloseWaitMeansStored` follows.
* `TcpConnProofs`: `TypeOK`; `PortStaysBound`, with no condition; and, as long as no
  packet has overtaken a call (`Undisturbed`), `EstablishedByBoth`, `ForgottenByBoth`,
  `PacketsGoHome` and that no host has crashed, for any number of clients.  The
  invariant `CInv` gives each side a phase, which is its state together with the place
  of the thread that has sent a packet and not yet changed the state.  `Agree` lists the
  pairs of phases that two sides can be in with the packets between them; each
  step leads from one line of that list to another.  `Serves` says that the server has
  one child at work at a time, which is at the head of its bucket: this is why a
  lookup by port alone finds the right socket.  `PortInv` needs nothing of this, only
  that a child that has been through TIME_WAIT stays CLOSED.  `EstablishedByBoth` needs its
  condition, although two clients are too few to show it: with three, a child that was
  closed in the race around accept comes back to life, and another client's packets
  find it.
* `TcpConnProofs`, last part: `CrashOnlyOvertaken`, host by host.  A client host is not
  harmed by what threads do to the connections of other clients, though all children
  share one bucket.  `CInv` says nothing once any two threads have met; `OInv` says what
  remains.  `Bucket`: there is at most one child in the bucket, whoever overtakes whom.
  `Orderly`: while neither socket of a connection has been overtaken, `Ordered` says
  which packets are under way between its two sides in their phases, and the client
  finds the socket for each.  It is weaker than `Agree`, for the packets of another
  client may drive the child ahead of its own client, and only the order in which the
  child has sent its packets is left.  TLC checked `OInv` with two clients (18415
  states) and with three (553202 up to symmetry) before it was proved.
* `RetransProofs`, lab 12: `SendBufferIsUnacked` and `NothingForgotten`, for every file, window
  and number of losses, with `Seg` = 1 and as long as the list is not torn.  Both conditions
  are needed, and neither is one that the code provides: `RetransPartial` and `RetransRace`
  below show what happens without them.  The theorems say that this is all that can happen:
  every other interleaving of a walk with an addition is harmless.  The invariant `RInv` says where the
  numbers are: the first unacknowledged one is not above the ACKs under way, which come in
  order, these are not above what the peer expects, and that is not above the next number to
  be used.  The code compares numbers by the sign of their difference, which is right only
  while no two are half the sequence space apart; the window keeps them near (`CallOK`),
  because it is set once and every segment uses it up.  `BInv` adds the pointers: from the
  entry where the walk is, or else from the first unacknowledged one, the list runs in order to the
  last linked one (`Chain`), the entry that is being added hangs on its end by one pointer
  or by both (`Half`), and the walk has read as its next entry the one that follows (`WalkOK`).
* `RetransProofs`, the lists of `list.h`: inserting a node keeps a list that can be walked both
  ways, deleting one does too, and deleting a node for the second time, when it was
  alone, empties the list whatever has been added since (which is what befalls the
  time-wait timer of lab 12).
* `RetransProofs`, last part: `TypeOK`, with the timer list, and `EnabledIsLinked`, with no
  condition on `Seg` or the send buffer: until
  the connection is over, the retransmission timer is in the list exactly when it is
  enabled.  `ListOK` lists what the three nodes can point at: the list has one timer or
  none, and a retransmission timer that is not in it points back at the head, so that
  deleting it again empties the list and does not spoil it.  `ThreadsOK` says which
  states the application can be in while the network thread handles a packet in the
  state it has read before; it is what excludes a timer that is set after it is over.
* `ArpCacheProofs`: `OneRequestPerHop` and `WaitsOnlyUnknown`, with `NetUnknown` (the hop
  of the packet that the forwarding thread holds stays unknown until it is
  appended, because this thread alone inserts) and `ErrorIsOwn`.  From there,
  `OnceEach`, `InOrder` and `SentToNextHop`: `JInv` adds that each packet that came in is
  in one place (`Placed`), that the packets that wait for a hop stand in its queue in
  the order they came, behind those that were sent and before the one in the
  forwarding thread's hands (`QueueOK`), and that valid entries are right (`TableOK`).
* `NatHttpProofs`: `TypeOK` and the action property `RemovedOnlyIdle`, with no condition:
  `HistoryInv` says that the FIN flag of a side that has sent something is the one of its last
  packet, and that for a flow with a pool port `update_time` is set from the start and
  shows how long the flow has been quiet.  `PortsUnique`, `PoolIsRight` and `PortsFromPool` are
  together inductive under `RulesApart`: no DNAT rule names a port of the pool.  So it is in
  every configuration file of the lab, but nothing ensures it (`parse_config` does not look), and
  without it `PoolIsRight` fails (`NatRuleInPool` below).
* `StpLanProofs`: `TypeOK`, `CostIsReal`, `NeverWorse` and `LinkIsServed`, in every topology that is
  in one piece (`LinksConnect`).  `IInv` says where each config comes from: one under
  way was offered by the switch at the other end (`Good`), one that a port holds is
  what its own switch offers now or was offered by the other end, and what a switch
  believes follows from what its root port holds.  A step keeps it because the port
  that won is not designated and is therefore not overwritten.  `LinkIsServed` needs in
  addition what two ends know of each other while configs cross (`LinksOK`).  That a
  link makes a difference of at most one in the distance to a switch
  (`DistanceIsSteady`) is proved from `LinksConnect`: distance is a recursive function, and
  the lemmas look at the least number for which they might fail (`LeastNat`).
* `StpLanProofs`, the learning switch: `LanTypeOK` in every network, loops and joined switches
  included (`TypesInv` adds that what is under way was sent).  `StaleIsBrief` and `ArrivesOnce` under `LoopFree` and
  `NoEcho`, hence for networks in which no two switches are joined, for any number of switches, hubs, hosts, frames
  and moves.  `LanInv` follows every
  packet from its sender on.  A copy under way comes from where its sender is, unless a
  switch sent it back to a hub, where it meets no other switch (`CopiesOK`, `WorkOK`).  So what
  a switch learns is right when it is learnt, and the age of an entry that
  is out of date is no less than the time since its host was moved (`EntriesOK`).  The port of
  an entry is one where its host is or was (`Leads`), hence a host that stays is found.
  Therefore a packet for such a host is in one of three situations: arrived, waiting at exactly one
  port from which it goes on towards the host, or in the hands of one switch that has not sent it
  yet (`Arrives`); and no copy
  is on its way back to a sender that stays (`SendersOK`).  When nothing is under way, this is
  `ArrivesOnce`.
* `NatHttpProofs`, the web server: `AnswerIsRight`, for any clients, requests and files.
  `HttpInv` says that what the two queues hold, and what the two threads read from, is a
  connection to that port which nobody has answered, each of them once (`Queued`,
  `QueuedOnce`, `InService`); so a client that has an answer has that to its own request, at its own port
  (`Replied`).  That this answer is right (`RightAnswer`) is a fact about the headers in
  reverse order and about cutting a file, for requests whose range is one: with an end that
  is not before its start, and not counted from the end of the file.  The safety half of `PoliteIsServed` comes with
  it: a client that waits is queued or being read from (`Expected`).
* `TriesProofs`: each of the three tries, and, where an entry other than the default route
  matches, the loop over the routing table, finds the longest prefix of an address (`TrieIsLongestMatch`, `AdTrieIsLongestMatch`,
  `SuperTrieIsLongestMatch`, `RtableIsLongestMatch`), for every table and for addresses and
  levels of every width.  `TriesInv` says which nodes there are after the lines were read
  in their order, and which line set the port of each; `FoundIsLongest` says when the last
  port on the way down is that of the longest prefix.  For `super_trie` this needs
  `CoveringFirst`.
* `MospfProofs`: `TypeOK`; `LastStays`, an LSU that was overtaken or came round by another way
  never replaces the last one; and `LastIsTrue`, the entry with the last number of a
  router that was never set back names its present neighbours.  `MInv` says of every
  entry and every LSU under way that its number was used by its router, that two with
  the same number say the same unless the counter was set back (`Numbered`), that a database
  has at most one entry for a router, and that nothing is on a link that is down.
  Topology and order of arrival are arbitrary.
* `MospfProofs`, the routes: `HostRoutes`, once the databases agree a packet for a
  network of hosts arrives, in every such topology.  `DatabaseIs` turns `Agreed` and
  `MInv` into what a database holds; then the graph that a router makes of it is that of
  the links that work, as far as it reaches (`GraphIs`).  So its distances are true
  (`DistancesAre`), the way back that Dijkstra's `prev` records ends at a neighbour that
  is one hop nearer to the destination, whichever of several ways it takes (`WayBackIs`,
  `WayBackEnds`), and a packet is one hop nearer after each router (`HopsArrive`).
  `Balls`, what lies within n hops, is a recursive function; what is needed of it comes
  from the least n for which a claim might fail (`FirstMissing`).

Only model-checked:

* all liveness properties (`StreamArrives`, `Settles`, `PoliteIsServed` and the like),
  which are beyond the prover.

## Further disagreements met while modelling

Fourteen more ways in which the code does not do what is said or expected of it.  None is
among the runs above.  Each is a counterexample to the property named last, with
`tlc -config <cfg> <module>`; where a property is named in the first column, it takes the
place of the properties of that configuration.

| Configuration (module) | Statement of the repository, or what one expects | What happens |
|---|---|---|
| `Flow`, `INVARIANT EofMeansAllRead` (`MCTcpFlow`) | `tcp_sock.c:353` "return 0: end of stream" | `tcp_sock_read` finds the buffer empty and releases the lock; data and FIN arrive; it tests the state (`tcp_sock.c:362`) and returns 0 with bytes unread |
| `FlowStall` (`MCTcpFlow`) | `tcp_sock.c:395` "return positive: sent length" | the last ACK advertised a window of 0; reading enlarges `rcv_wnd` (`tcp_sock.c:385`) and no packet says so |
| `NatHalfClosed`, `SPECIFICATION FairSpec`, `PROPERTY PortIsFreed` (`MCNat`) | `nat.c:216` "find the finished flows, remove them and free port" | `do_translation` falls off its end with the mutex locked (`nat.c:173`) |
| `ConnSyn` (`MCTcpConn`) | `tcp_sock.h:46` "it mallocs a child" | the SYN of a second client finds the first child in the listen table (`tcp_in.c:160`) |
| `StpChain` (`MCStp`) | `b2-output.txt:24` and the like: every switch reports the lowest root | in the chain 1 - 3 - 2, switch 3 can hear of 2 first, and then never offers root 1 towards 2 (`stp.c:180`) |
| `MospfLoop` (`MCMospf`) | packets for the network between two routers arrive | in the square of `topo.py`, routers 1 and 2 send packets for the network of 3 and 4 to each other for ever (`TransitRoutes`): the first LSA in the database leads to the far end of that link, and after a restart of 2 their databases have different orders |
| `LanEcho` (`MCLan`) | packets arrive once | between two switches, a switch that has learnt the receiver behind the port that a packet came from sends it out of that port again (`ArrivesOnce`) |
| `Retrans`, `INVARIANT ArmedWhileUnacked` (`MCRetrans`) | an unacknowledged packet has its timer running | the network thread wakes the thread that connects before it deletes SYN's timer (`12-tcp_stack_2/tcp_in.c:82-83`); what is sent in between has its timer deleted |
| `Retrans`, `PROPERTY TimeWaitEnds` (`MCRetrans`) | TIME_WAIT ends | the retransmission timer is deleted when it is not in the list any more (`12-tcp_stack_2/tcp_timer.c:64`), and a second deletion empties the list, with the time-wait timer in it (`SecondDeletionEmpties`) |
| `RetransRace` (`MCRetrans`) | a packet that the peer lacks is in the send buffer | the network thread frees the last entry of the list while the application adds one behind it: nothing leads from the head to the new packet, which is never sent again (`12-tcp_stack_2/tcp_out.c:64`, `tcp_buffer.c:17-24`; `NothingMissing`) |
| `RetransPartial` (`MCRetrans`) | `12-tcp_stack_2/tcp_buffer.c:14` "Remove all packets acknowledged by ACK (seq_end <= ack)" | line 20 tests `seq < ack`: with segments of two numbers and an ACK in the middle of one, the second half leaves the buffer although the peer lacks it (`NothingForgotten`) |
| `NatHalfClosed` (`MCNat`) | `nat.c:207-208` "check whether the flow is finished according to FIN bit", `nat.h:28` "received fin packet from outer node" | `external_fin` of a flow opened from inside is never set (`nat.c:132-134`) and read by the sweep (`nat.c:211`): after the FIN of the inside alone the flow may be removed (`NoFlowGoesHalfClosed`) |
| `NatRuleInPool` (`MCNat`) | `nat.h:58` "port pool, indicates whether a port is assigned" | a rule names a port of the pool: when its flow is removed (`nat.c:227`), the bit is cleared of a port that another flow has, which can then be assigned again (`PoolIsRight`) |
| `RtableDefault` (`MCTries`) | `07-router/ip_base.c:28` "to find the entry with the same and longest prefix" | the search starts from mask 0 and wants a larger one, so the default route is never found (`LongestIsFound`) |

The following were seen while translating the code.  Several are in the models
above as behaviour that properties make room for.

* `tcp_in.c:85`: a reader that has tested the state and not yet entered `sleep_on`
  is not woken by the FIN, and sleeps for ever.
* `tcp_sock.c:387`, `tcp_in.c:99`: reader and network thread can each look for a
  sleeper before the other sleeps, and then both block.  (`StreamArrives` excepts
  runs in which the network thread found too little room.)
* `tcp_in.c:14`: the writer can zero `snd_wnd` between the load and the store of
  `tcp_update_window`, and is then not notified, against `tcp_in.c:11`.
* `tcp_sock.c:278`, `tcp.c:80`: SYN is sent before the socket is hashed; a reply that is
  faster finds no socket, and NULL is dereferenced.  (`CrashOnlyOvertaken`.)
* `tcp_sock.c:342`, `345`: FIN is sent before the state is set; a faster reply is ignored and
  the socket stays in LAST_ACK or FIN_WAIT_1.  (`ConnectionEnds` excepts it.)
* `tcp_in.c:56`: any packet sets `rcv_nxt`; the SYN of a second client sets that of
  the first one's child, against `tcp_sock.h:98`.
* `tcp_timer.c:21`: the child shares its parent's list node, so its TIME_WAIT takes the
  listening socket's port out of the bind table.  (`PortStaysBound` excepts it.)
* `tcp_sock.c:276`: connect binds its port twice, and it is never released.
* `12-tcp_stack_2`: the first retransmission crashes; any ACK in FIN_WAIT_1 or LAST_ACK
  is taken for that of the FIN; the server side dies of its first ACK, since a
  child copies the list heads of its parent and frees what it finds there.
* `arpcache.c:184`: the first request is not counted, so six are sent, not the five of
  `arpcache.c:160`.
* `arpcache.c:118`: a new address of a known hop goes to another slot, and lookups may
  go on finding the old one.  (The run has a hop with two addresses; `SentToNextHop` allows
  either.)
* `07-router/ip.c:24`: a packet for another interface of the same router is forwarded,
  and the router asks for its own address; errors are sent about errors.
* `07-router/ip_base.c:30`: the default route has mask 0, which is never larger than
  the 0 that the search starts from.  (`RtableIsLongestMatch` excepts it, `RtableDefault` shows it.)
* `nat.c:89`: a packet without FIN clears the flag that an earlier one set, against
  `nat.h:27`.
* `nat.c:148`: a DNAT flow starts with an `update_time` that nobody set, and may be
  removed at once.  (`RemovedOnlyIdle` is about flows with a pool port.)
* `nat.c:227`: with a rule whose port lies in the pool, removing its flow clears the
  bit of another.  (`RulesApart` excludes it from the theorems, `NatRuleInPool` shows it.)
* `nat.c:82`, `212`: acknowledgment numbers are kept in network byte order.
* `stp.c:217`: the difference of two 64-bit ids is cut to an int.
* `09-mospf`: `alive` of a new neighbour is not initialised, so it may time out at
  once; an own LSU that comes back during a restart is stored like another's, and
  may hide routes until it ages out (40 seconds); a 16-bit counter that comes round
  to 0 is not accepted until the old entries age out; a neighbour that is not in
  the database has the index -1 (`mospf_daemon.c:182`), and the write that follows, outside the array, is left out of
  the model (`HostRoutes` speaks of databases that agree, where it is not met);
  `closest` of `dijkstra` is not set when nothing more is reached
  (`mospf_daemon.c:259`), is read as what it was in the turn before, and does no harm.
* `06-lookup`: a prefix of length 0 is lost in the binary trie, lengths up to 6 are not
  distinguished in `ad_trie`, and `super_trie` needs 8 at least; the table of the
  repository has lengths from 8.
* `02-socket`: a range beyond the end of the file is answered with bytes that nobody
  wrote; a range counted from the end is answered from the start; one whose end is before its start has
  a negative length (`https-server.c:200-202`); the 301 lacks its last blank line; the method is ignored; a client that
  leaves early ends the process, and one that stays silent holds its port.

## What is not modelled, and why

* The server side of lab 12: it dies of the first ACK (see above).
* MOSPF: a packet that is forwarded while the table is rebuilt (`mospf_daemon.c:143`)
  may meet an empty one and crashes; the table is complete in the model.
* `TcpConn`: RST (never sent), the backlog (never enforced), freeing of sockets (never
  reached), and sequence numbers, which the code does not compare in these states.
* `wait_exit` of `synch_wait.h` (never called).
* The stack variable that `11-tcp_stack/main.c:98` hands to the application thread.
* Requests in several pieces or longer than the buffers of `02-socket`: the code reads
  once; TLS.
* The arguments and configuration files of the programs, and the NULL that
  `get_packet_direction` of NAT dereferences when there is no route.
* `08-bufferbloat`: scripts and measurements.  Raw sockets, netlink, packet parsing,
  checksums, logging: input, output and layout.

## Plan

Done: every part of the inventory but the last two, with proofs for all of them.

Next, in this order:

1. `Mospf` together with the forwarding of `Rtable`: packets under way while the
   tables change.
2. `TcpFlow` in both directions, and `TcpConn` with sequence numbers.
