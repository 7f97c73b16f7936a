-------------------------------- MODULE TcpConn --------------------------------
(***************************************************************************)
(* The connections of 11-tcp_stack: the socket calls and tcp_process, from *)
(* connect and accept to TIME_WAIT, with the socket tables that a packet   *)
(* is looked up in.  Data is left to module TcpFlow.                       *)
(*                                                                         *)
(* One server host listens; each client host connects once.  A host has an *)
(* application thread, the thread of ustack_run, which handles one packet  *)
(* at a time, and a timer thread.  None of them takes a lock.  A step is   *)
(* what a thread does between two actions that another thread can notice:  *)
(* the calls send first and change state afterwards, so a reply may come   *)
(* in between.  An application may close an open connection at any time,   *)
(* and the server accepts again afterwards; tcp_apps.c is one user of      *)
(* these calls, which accepts once.                                        *)
(*                                                                         *)
(* A host that looks up no socket for a packet dereferences NULL (tcp.c:80)*)
(* and crashes.  Nothing in the stack sends RST.  Links lose and reorder   *)
(* nothing, as in the topology of this lab; sleep_on is taken to wait for  *)
(* the notification (see SynchWait for what it does).  A list operation is *)
(* one step.  Sockets are never freed: each table entry adds a reference   *)
(* and connect binds twice, so ref_cnt stays above 0 for a client, and a   *)
(* child starts with the count of its parent.                              *)
(***************************************************************************)
EXTENDS SequencesExt

CONSTANTS Client, Server, Listener   \* hosts; the server's listening socket

ASSUME ConnAssumption ==
  Server \notin Client /\ Listener \notin Client \X {"client", "child"}

(* The socket of a client, and the child that the server allocates for it. *)
Sock == Client \X {"client", "child"}
Child == {s \in Sock : s[2] = "child"}
Peer(s) == <<s[1], IF s[2] = "client" THEN "child" ELSE "client">>
Host(s) == IF s[2] = "client" THEN s[1] ELSE Server
Hosts == Client \cup {Server}

VARIABLES
  state,              \* tsk->state of each socket; "NONE": not allocated
  notified,           \* clients whose wait_connect is notified
  established_table,  \* the client sockets that a lookup can find
  listen_table,       \* the server's bucket of its port, in list order
  bind_table,         \* what a walk of the bucket of a bound port finds
  linked,             \* the children with a bind_hash_list of their own
  accept_queue,       \* the listener's
  app,                \* what the application thread of each host does next
  accepted,           \* the socket tcp_sock_accept returned last
  net,                \* what the network thread of each host does next
  to,                 \* the packets under way to each socket
  crashed,            \* hosts that have looked up no socket for a packet
  overtaken           \* sockets of which two threads met in a call

tables == <<established_table, listen_table, bind_table, linked>>
vars == <<state, notified, tables, accept_queue, app, accepted, net, to,
          crashed, overtaken>>

Init ==
  /\ state = [s \in Sock |-> IF s \in Child THEN "NONE" ELSE "CLOSED"]
  /\ notified = {}
  /\ established_table = {} /\ listen_table = << >> /\ bind_table = {} /\ linked = {}
  /\ accept_queue = << >>
  /\ app = [h \in Hosts |-> IF h = Server THEN "bind" ELSE "connect"]
  /\ accepted = Listener
  /\ net = [h \in Hosts |-> << >>]
  /\ to = [s \in Sock |-> << >>]
  /\ crashed = {} /\ overtaken = {}
-------------------------------------------------------------------------------
(* Between two steps of a call or a handler on a socket, the thread is at  *)
(* one of these places.                                                    *)
InCall == {"syn", "hash", "last", "wait1"}
InHandler == {<<"accept", s>> : s \in Sock} \cup {<<"fin", s>> : s \in Sock}

Goes(h, from, next) ==
  /\ h \notin crashed /\ app[h] = from
  /\ app' = [app EXCEPT ![h] = next]

Enters(s, new) == state' = [state EXCEPT ![s] = new]
Sends(s, flags) == to' = [to EXCEPT ![Peer(s)] = Append(@, flags)]

(* list_delete_entry of the one node that s has in its table. *)
Unlinked(list, s) ==
  IF \E i \in DOMAIN list : list[i] = s
  THEN RemoveAt(list, CHOOSE i \in DOMAIN list : list[i] = s) ELSE list

Unhashed(s) ==
  /\ established_table' = established_table \ {s}
  /\ listen_table' = Unlinked(listen_table, s)

(* tcp_bind_unhash.  A client is linked twice, and deleting a node that    *)
(* points to itself leaves it in the list.  A child has the list node of   *)
(* its parent, and deletes what the parent was linked between.             *)
BindUnhashed(s) ==
  CASE s \notin Child -> UNCHANGED <<bind_table, linked>>
    [] s \in linked   -> /\ bind_table' = bind_table \ {s}
                         /\ linked' = linked \ {s}
    [] OTHER          -> /\ bind_table' = bind_table \ (Child \cup {Listener})
                         /\ UNCHANGED linked
-------------------------------------------------------------------------------
(* The client application: tcp_sock_connect, then tcp_sock_close. *)

SendSyn(s) ==
  /\ Goes(Host(s), "connect", "syn")
  /\ bind_table' = bind_table \cup {s}
  /\ Sends(s, "SYN")
  /\ UNCHANGED <<state, notified, established_table, listen_table, linked,
                 accept_queue, accepted, net, crashed, overtaken>>

EnterSynSent(s) ==
  /\ Goes(Host(s), "syn", "hash")
  /\ Enters(s, "SYN_SENT")
  /\ UNCHANGED <<notified, tables, accept_queue, accepted, net, to,
                 crashed, overtaken>>

Hash(s) ==
  /\ Goes(Host(s), "hash", "sleep")
  /\ established_table' = established_table \cup {s}
  /\ UNCHANGED <<state, notified, listen_table, bind_table, linked,
                 accept_queue, accepted, net, to, crashed, overtaken>>

ConnectReturns(s) ==
  /\ s \in notified
  /\ Goes(Host(s), "sleep", "open")
  /\ notified' = notified \ {s}
  /\ UNCHANGED <<state, tables, accept_queue, accepted, net, to,
                 crashed, overtaken>>

Connect(s) == SendSyn(s) \/ EnterSynSent(s) \/ Hash(s) \/ ConnectReturns(s)

(* The server application: bind, listen, and accept in a loop. *)

Bind ==
  /\ Goes(Server, "bind", "listen")
  /\ bind_table' = bind_table \cup {Listener}
  /\ UNCHANGED <<state, notified, established_table, listen_table, linked,
                 accept_queue, accepted, net, to, crashed, overtaken>>

Listen ==
  /\ Goes(Server, "listen", "accept")
  /\ listen_table' = <<Listener>>
  /\ UNCHANGED <<state, notified, established_table, bind_table, linked,
                 accept_queue, accepted, net, to, crashed, overtaken>>

Accept ==
  /\ accept_queue # << >>
  /\ Goes(Server, "accept", "open")
  /\ accepted' = Head(accept_queue)
  /\ accept_queue' = Tail(accept_queue)
  /\ UNCHANGED <<state, notified, tables, net, to, crashed, overtaken>>

(* tcp_sock_close; the network thread may be in a handler of this socket.  *)
Meets(s) ==
  overtaken' = IF net[Host(s)] \in {<<"accept", s>>, <<"fin", s>>}
               THEN overtaken \cup {s} ELSE overtaken

Returns(s) == IF s \in Child THEN "accept" ELSE "done"

SendLastFin(s) ==
  /\ state[s] = "CLOSE_WAIT"
  /\ Goes(Host(s), "open", "last")
  /\ Sends(s, "FIN|ACK")
  /\ Meets(s)
  /\ UNCHANGED <<state, notified, tables, accept_queue, accepted, net, crashed>>

EnterLastAck(s) ==
  /\ Goes(Host(s), "last", Returns(s))
  /\ Enters(s, "LAST_ACK")
  /\ UNCHANGED <<notified, tables, accept_queue, accepted, net, to,
                 crashed, overtaken>>

SendFirstFin(s) ==
  /\ state[s] = "ESTABLISHED"
  /\ Goes(Host(s), "open", "wait1")
  /\ Sends(s, "FIN|ACK")
  /\ Meets(s)
  /\ UNCHANGED <<state, notified, tables, accept_queue, accepted, net, crashed>>

EnterFinWait1(s) ==
  /\ Goes(Host(s), "wait1", Returns(s))
  /\ Enters(s, "FIN_WAIT_1")
  /\ UNCHANGED <<notified, tables, accept_queue, accepted, net, to,
                 crashed, overtaken>>

CloseAtOnce(s) ==
  /\ state[s] \notin {"CLOSE_WAIT", "ESTABLISHED"}
  /\ Goes(Host(s), "open", Returns(s))
  /\ Unhashed(s)
  /\ Enters(s, "CLOSED")
  /\ Meets(s)
  /\ UNCHANGED <<notified, bind_table, linked, accept_queue, accepted, net,
                 to, crashed>>

Close(s) ==
  /\ s \notin Child \/ accepted = s
  /\ \/ SendLastFin(s) \/ EnterLastAck(s)
     \/ SendFirstFin(s) \/ EnterFinWait1(s)
     \/ CloseAtOnce(s)
-------------------------------------------------------------------------------
(* The network thread: handle_tcp_packet and tcp_process of the next       *)
(* packet under way to a socket.  It finds the socket f: on the server,    *)
(* where children are hashed before their state is set and so are in the   *)
(* listen table, the one that was hashed last.                             *)
Found(s, f) ==
  \/ f \in {s} \cap established_table
  \/ s \in Child /\ listen_table # << >> /\ f = Head(listen_table)

Receives(s, flags) ==
  /\ Host(s) \notin crashed /\ net[Host(s)] = << >>
  /\ to[s] # << >> /\ Head(to[s]) = flags

Taken(s) == [to EXCEPT ![s] = Tail(@)]
Answered(s, f, flags) == [Taken(s) EXCEPT ![Peer(f)] = Append(@, flags)]

(* No socket. *)
Crash(s, flags) ==
  /\ \A f \in Sock \cup {Listener} : ~Found(s, f)
  /\ crashed' = crashed \cup {Host(s)}
  /\ to' = Taken(s)
  /\ overtaken' = overtaken \cup
       {t \in {s} : app[Host(s)] \in InCall \cup {"bind", "listen"}}
  /\ UNCHANGED <<state, notified, tables, accept_queue, app, accepted, net>>

(* LISTEN: alloc_child_tcp_sock, with the state and the list nodes of the  *)
(* parent; only a SYN has an effect.                                       *)
Spawn_AtTail(s) ==
  /\ Enters(s, "SYN_RECV")
  /\ listen_table' = Append(listen_table, s)
  /\ to' = Answered(s, s, "SYN|ACK")
  /\ UNCHANGED <<notified, established_table, bind_table, linked, accept_queue,
                 app, accepted, net, crashed, overtaken>>
Spawn_Established(s) ==
  /\ Enters(s, "ESTABLISHED")
  /\ listen_table' = <<s>> \o listen_table
  /\ to' = Answered(s, s, "SYN|ACK")
  /\ UNCHANGED <<notified, established_table, bind_table, linked, accept_queue,
                 app, accepted, net, crashed, overtaken>>
Spawn(s) ==
  /\ Enters(s, "SYN_RECV")
  /\ listen_table' = <<s>> \o listen_table
  /\ IF bind_table \cap (Child \cup {Listener}) = {}
     THEN bind_table' = bind_table \cup {s} /\ linked' = linked \cup {s}
     ELSE UNCHANGED <<bind_table, linked>>
  /\ to' = Answered(s, s, "SYN|ACK")
  /\ UNCHANGED <<notified, established_table, accept_queue, app, accepted,
                 net, crashed, overtaken>>

SpawnChild(s, flags) == Found(s, Listener) /\ flags = "SYN" /\ Spawn(s)

Ignore(s) ==
  /\ to' = Taken(s)
  /\ UNCHANGED <<state, notified, tables, accept_queue, app, accepted, net, crashed>>

IgnoreListening(s, flags) ==
  Found(s, Listener) /\ flags # "SYN" /\ Ignore(s) /\ UNCHANGED overtaken

(* The application may be in a call on the socket that is found.           *)
MeetsCall(f) ==
  overtaken' = IF app[Host(f)] \in InCall /\ (f \notin Child \/ accepted = f)
               THEN overtaken \cup {f} ELSE overtaken

FinishConnect(s, f, flags) ==
  /\ state[f] = "SYN_SENT" /\ flags = "SYN|ACK"
  /\ to' = Answered(s, f, "ACK")
  /\ Enters(f, "ESTABLISHED")
  /\ notified' = notified \cup {f}
  /\ UNCHANGED <<tables, accept_queue, app, accepted, net, crashed>>

(* SYN_RECV: the child is queued, and established in a step of its own.    *)
EnqueueChild(s, f, flags) ==
  /\ state[f] = "SYN_RECV" /\ flags = "ACK"
  /\ accept_queue' = Append(accept_queue, f)
  /\ net' = [net EXCEPT ![Host(f)] = <<"accept", f>>]
  /\ to' = Taken(s)
  /\ UNCHANGED <<state, notified, tables, app, accepted, crashed>>

(* ESTABLISHED: the ACK is sent, and CLOSE_WAIT entered in a step of its own. *)
AckFin(s, f, flags) ==
  /\ state[f] = "ESTABLISHED" /\ flags = "FIN|ACK"
  /\ to' = Answered(s, f, "ACK")
  /\ net' = [net EXCEPT ![Host(f)] = <<"fin", f>>]
  /\ UNCHANGED <<state, notified, tables, accept_queue, app, accepted, crashed>>

FinAcked_Unhashes(s, f, flags) ==
  /\ state[f] = "FIN_WAIT_1" /\ flags = "ACK"
  /\ to' = Taken(s)
  /\ Unhashed(f)
  /\ Enters(f, "FIN_WAIT_2")
  /\ UNCHANGED <<notified, bind_table, linked, accept_queue, app, accepted, net, crashed>>
FinAcked(s, f, flags) ==
  /\ state[f] = "FIN_WAIT_1" /\ flags = "ACK"
  /\ to' = Taken(s)
  /\ Enters(f, "FIN_WAIT_2")
  /\ UNCHANGED <<notified, tables, accept_queue, app, accepted, net, crashed>>

EnterTimeWait_Unbinds(s, f, flags) ==
  /\ state[f] \in {"FIN_WAIT_1", "FIN_WAIT_2"} /\ flags = "FIN|ACK"
  /\ to' = Answered(s, f, "ACK")
  /\ Enters(f, "TIME_WAIT")
  /\ BindUnhashed(f)
  /\ UNCHANGED <<notified, established_table, listen_table, accept_queue, app, accepted,
                 net, crashed>>
EnterTimeWait_NoWait1(s, f, flags) ==
  /\ state[f] = "FIN_WAIT_2" /\ flags = "FIN|ACK"
  /\ to' = Answered(s, f, "ACK")
  /\ Enters(f, "TIME_WAIT")
  /\ UNCHANGED <<notified, tables, accept_queue, app, accepted, net, crashed>>
EnterTimeWait_OnAck(s, f, flags) ==
  /\ state[f] \in {"FIN_WAIT_1", "FIN_WAIT_2"} /\ flags \in {"FIN|ACK", "ACK"}
  /\ to' = Answered(s, f, "ACK")
  /\ Enters(f, "TIME_WAIT")
  /\ UNCHANGED <<notified, tables, accept_queue, app, accepted, net, crashed>>
EnterTimeWait(s, f, flags) ==
  /\ state[f] \in {"FIN_WAIT_1", "FIN_WAIT_2"} /\ flags = "FIN|ACK"
  /\ to' = Answered(s, f, "ACK")
  /\ Enters(f, "TIME_WAIT")
  /\ UNCHANGED <<notified, tables, accept_queue, app, accepted, net, crashed>>

(* LAST_ACK: tcp_unhash; the port stays bound. *)
LastAcked(s, f, flags) ==
  /\ state[f] = "LAST_ACK" /\ flags # "SYN"
  /\ to' = Taken(s)
  /\ Unhashed(f)
  /\ Enters(f, "CLOSED")
  /\ UNCHANGED <<notified, bind_table, linked, accept_queue, app, accepted, net, crashed>>

(* Anything else has no effect in the state the socket is in. *)
Expected(f, flags) ==
  \/ state[f] = "SYN_SENT" /\ flags = "SYN|ACK"
  \/ state[f] = "SYN_RECV" /\ flags = "ACK"
  \/ state[f] = "ESTABLISHED" /\ flags = "FIN|ACK"
  \/ state[f] = "FIN_WAIT_1" /\ flags \in {"ACK", "FIN|ACK"}
  \/ state[f] = "FIN_WAIT_2" /\ flags = "FIN|ACK"
  \/ state[f] = "LAST_ACK" /\ flags # "SYN"

Process(s, f, flags) ==
  /\ MeetsCall(f)
  /\ \/ FinishConnect(s, f, flags) \/ EnqueueChild(s, f, flags)
     \/ AckFin(s, f, flags) \/ FinAcked(s, f, flags)
     \/ EnterTimeWait(s, f, flags) \/ LastAcked(s, f, flags)
     \/ ~Expected(f, flags) /\ Ignore(s)

Handle(s) ==
  \E flags \in {"SYN", "SYN|ACK", "ACK", "FIN|ACK"} :
    /\ Receives(s, flags)
    /\ \/ Crash(s, flags)
       \/ SpawnChild(s, flags) \/ IgnoreListening(s, flags)
       \/ \E f \in Sock : Found(s, f) /\ Process(s, f, flags)

EstablishChild(s) ==
  /\ net[Host(s)] = <<"accept", s>> /\ Host(s) \notin crashed
  /\ net' = [net EXCEPT ![Host(s)] = << >>]
  /\ Enters(s, "ESTABLISHED")
  /\ UNCHANGED <<notified, tables, accept_queue, app, accepted, to, crashed, overtaken>>

EnterCloseWait(s) ==
  /\ net[Host(s)] = <<"fin", s>> /\ Host(s) \notin crashed
  /\ net' = [net EXCEPT ![Host(s)] = << >>]
  /\ Enters(s, "CLOSE_WAIT")
  /\ UNCHANGED <<notified, tables, accept_queue, app, accepted, to, crashed, overtaken>>

(* The timer thread: tcp_scan_timer_list, once the timer of s is due: no   *)
(* packet of the connection lives so long (TCP_TIMEWAIT_TIMEOUT, two       *)
(* seconds, against links of ten milliseconds).                            *)
Due(s) ==
  /\ state[s] = "TIME_WAIT" /\ Host(s) \notin crashed
  /\ to[s] = << >> /\ to[Peer(s)] = << >>

Expire(s) ==
  /\ Due(s)
  /\ Enters(s, "CLOSED")
  /\ BindUnhashed(s)
  /\ Unhashed(s)
  /\ UNCHANGED <<notified, accept_queue, app, accepted, net, to, crashed, overtaken>>
-------------------------------------------------------------------------------
Step(s) ==
  \/ s \notin Child /\ Connect(s)
  \/ Close(s) \/ Handle(s) \/ EstablishChild(s) \/ EnterCloseWait(s) \/ Expire(s)

Next == Bind \/ Listen \/ Accept \/ \E s \in Sock : Step(s)

Spec == Init /\ [][Next]_vars

(* Every thread goes on when it can, and applications close in the end.    *)
FairSpec ==
  /\ Spec
  /\ WF_vars(Bind) /\ WF_vars(Listen) /\ WF_vars(Accept)
  /\ \A s \in Sock :
       /\ WF_vars(s \notin Child /\ Connect(s)) /\ WF_vars(Close(s))
       /\ WF_vars(Handle(s)) /\ WF_vars(EstablishChild(s))
       /\ WF_vars(EnterCloseWait(s)) /\ WF_vars(Expire(s))
-------------------------------------------------------------------------------
States == {"NONE", "CLOSED", "SYN_SENT", "SYN_RECV", "ESTABLISHED", "CLOSE_WAIT",
           "LAST_ACK", "FIN_WAIT_1", "FIN_WAIT_2", "TIME_WAIT"}

(* Type correctness of the sockets, the tables, the threads and the links. *)
TypeOK ==
  /\ state \in [Sock -> States]
  /\ notified \subseteq Sock
  /\ established_table \subseteq Sock \ Child
  /\ listen_table \in Seq(Child \cup {Listener})
  /\ bind_table \subseteq Sock \cup {Listener} /\ linked \subseteq Child
  /\ accept_queue \in Seq(Child)
  /\ app \in [Hosts -> InCall \cup
                {"bind", "listen", "accept", "connect", "sleep", "open", "done"}]
  /\ accepted \in Child \cup {Listener}
  /\ net \in [Hosts -> {<< >>} \cup InHandler]
  /\ to \in [Sock -> Seq({"SYN", "SYN|ACK", "ACK", "FIN|ACK"})]
  /\ crashed \subseteq Hosts /\ overtaken \subseteq Sock

Undisturbed == overtaken = {}

CalledClose(s) ==
  IF s \in Child
  THEN \/ state[s] \in {"LAST_ACK", "FIN_WAIT_1", "FIN_WAIT_2", "TIME_WAIT", "CLOSED"}
       \/ accepted = s /\ app[Server] \in {"last", "wait1"}
  ELSE app[Host(s)] \in {"last", "wait1", "done"}

(* Sockets are hashed only at the end of connect and listen (tcp_sock.c:   *)
(* 278-280, 291-292) and unhashed by two threads (tcp_in.c:134,            *)
(* tcp_timer.c:22); still a packet fails to find a socket only when it     *)
(* overtakes one of these calls.                                           *)
CrashOnlyOvertaken ==
  \A h \in crashed : \E s \in overtaken : h \in {Host(s), Host(Peer(s))}

(* The server has seen the client's last packet of the handshake before it *)
(* hands out the connection (tcp_in.c:75-78).  Not so once a close has     *)
(* overtaken accept: a socket that close has unhashed comes back to life   *)
(* when tcp_process goes on, its client's packets find the child of        *)
(* another client, and the reply of that child goes to the wrong one.      *)
EstablishedByBoth ==
  \A s \in Child :
    Undisturbed /\ state[s] \notin {"NONE", "SYN_RECV"} =>
    app[Host(Peer(s))] \notin {"connect", "syn", "hash"} /\ state[Peer(s)] # "SYN_SENT"

(* A side forgets a connection, or waits to forget it, only after both     *)
(* applications have closed it (tcp_in.c:116-137): nobody goes on sending  *)
(* to a socket that is gone.                                               *)
ForgottenByBoth ==
  \A s \in Sock :
    /\ Undisturbed /\ state[s] \in {"TIME_WAIT", "CLOSED"}
    /\ state[Peer(s)] \notin {"NONE", "SYN_RECV"}
    /\ app[Host(s)] \notin {"connect", "syn", "hash"}
    => CalledClose(s) /\ CalledClose(Peer(s))

(* Although children are looked up in the listen table by port only        *)
(* (tcp_sock.c:112-120), a packet of an open connection finds the socket   *)
(* of that connection.                                                     *)
PacketsGoHome ==
  \A s \in Sock :
    /\ Undisturbed /\ state[s] \notin {"NONE", "CLOSED"}
    /\ to[s] # << >> /\ Head(to[s]) # "SYN"
    => \A f \in Sock \cup {Listener} : Found(s, f) => f = s

(* A port that packets are looked up by stays in the bind table: only the  *)
(* port of the listening socket may be taken out of it, and only when a    *)
(* child, which shares its list node, has gone through TIME_WAIT           *)
(* (tcp_in.c:146, tcp_timer.c:21).                                         *)
PortStaysBound ==
  \A s \in (established_table \cup ToSet(listen_table)) \ Child :
    s \notin bind_table => s = Listener /\ \E t \in Child : state[t] = "CLOSED"

(* A connection whose handshake has begun ends in CLOSED on both sides,    *)
(* through whichever of the closing states, unless a packet overtakes a    *)
(* call.                                                                   *)
ConnectionEnds ==
  \A s \in Child :
    state[s] = "SYN_RECV" ~>
      (state[s] = "CLOSED" /\ state[Peer(s)] = "CLOSED") \/ ~Undisturbed
-------------------------------------------------------------------------------
(* What the comments of the repository say, and the code does not do.      *)

(* tcp_sock.h:46, "when a passively opened tcp sock receives a SYN packet, *)
(* it mallocs a child tcp sock to serve the incoming connection".          *)
SynSpawnsChild ==
  [][\A s \in Child :
       to[s] # << >> /\ Head(to[s]) = "SYN" /\ to'[s] = Tail(to[s]) /\ crashed' = crashed
       => state'[s] = "SYN_RECV"]_vars
===============================================================================
