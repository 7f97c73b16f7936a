----------------------------- MODULE TcpConnProofs -----------------------------
(***************************************************************************)
(* What holds of the connections of 11-tcp_stack for any number of client  *)
(* hosts, in every interleaving of the threads.                            *)
(*                                                                         *)
(* While no two threads have met in a call on one socket, a connection is  *)
(* two phases, one per side, and the packets under way between them: Agree *)
(* lists the combinations, from the first SYN to CLOSED, and each step of  *)
(* the code leads from one to another.  Since the server looks children up *)
(* by port only, it has one child at work at a time, at the head of its    *)
(* bucket; Serves says where that child is.                                *)
(*                                                                         *)
(* That the port stays bound needs no such condition, and has an invariant *)
(* of its own: a child that has gone through TIME_WAIT stays CLOSED.       *)
(*                                                                         *)
(* Once threads have met, packets may go to the child of another client,   *)
(* and that child may run ahead of its client.  Orderly is what remains    *)
(* true of a connection of which neither socket has been overtaken, and    *)
(* keeps its client host from looking up a socket in vain.                 *)
(***************************************************************************)
EXTENDS TcpConn, SequenceTheorems, TLAPS

Flags == {"SYN", "SYN|ACK", "ACK", "FIN|ACK"}

(* The application of the host of s is at place p of a call on s. *)
Calls(s, p) == app[Host(s)] = p /\ (s \notin Child \/ accepted = s)

(* How far socket s has come.  The place of a thread counts as well as the *)
(* state, for a call sends its packet before it enters the next state.     *)
Phase(s) ==
  CASE state[s] = "NONE"        -> "none"
    [] state[s] = "CLOSED"      -> IF s \in Child THEN "gone"
                                   ELSE IF app[Host(s)] = "connect" THEN "idle"
                                   ELSE IF app[Host(s)] = "syn" THEN "opening" ELSE "gone"
    [] state[s] = "SYN_SENT"    -> "opening"
    [] state[s] = "SYN_RECV"    -> IF net[Host(s)] = <<"accept", s>> THEN "open" ELSE "answering"
    [] state[s] = "ESTABLISHED" -> IF net[Host(s)] = <<"fin", s>> THEN "asked"
                                   ELSE IF Calls(s, "wait1") THEN "first" ELSE "open"
    [] state[s] = "CLOSE_WAIT"  -> IF Calls(s, "last") THEN "last" ELSE "asked"
    [] state[s] = "LAST_ACK"    -> "last"
    [] state[s] = "FIN_WAIT_1"  -> "first"
    [] state[s] = "FIN_WAIT_2"  -> "half"
    [] OTHER                    -> "wait"

(* The packets that are ever under way to one socket at a time. *)
Nothing == << >>
JustSyn == <<"SYN">>
JustSynAck == <<"SYN|ACK">>
JustAck == <<"ACK">>
JustFin == <<"FIN|ACK">>
AckThenFin == <<"ACK", "FIN|ACK">>
FinThenAck == <<"FIN|ACK", "ACK">>

(* One side is in phase p with packets a under way to it, the other in     *)
(* phase q with packets b.                                                 *)
Half(p, q, a, b) ==
  \/ p = "idle" /\ q = "none" /\ a = Nothing /\ b = Nothing
  \/ p = "opening" /\ q = "none" /\ a = Nothing /\ b \in {Nothing, JustSyn}
  \/ p = "opening" /\ q = "answering" /\ a = JustSynAck /\ b = Nothing
  \/ p = "open" /\ q = "answering" /\ a = Nothing /\ b = JustAck
  \/ p = "first" /\ q = "answering" /\ a = Nothing /\ b = AckThenFin
  \/ p = "open" /\ q = "open" /\ a = Nothing /\ b = Nothing
  \/ p = "first" /\ q = "open" /\ a = Nothing /\ b = JustFin
  \/ p = "first" /\ q = "asked" /\ a = JustAck /\ b = Nothing
  \/ p = "half" /\ q = "asked" /\ a = Nothing /\ b = Nothing
  \/ p = "first" /\ q = "last" /\ a = AckThenFin /\ b = Nothing
  \/ p = "half" /\ q = "last" /\ a = JustFin /\ b = Nothing
  \/ p = "wait" /\ q = "last" /\ a = Nothing /\ b = JustAck
  \/ p = "wait" /\ q = "gone" /\ a = Nothing /\ b = Nothing
  \/ p = "first" /\ q = "first" /\ a = JustFin /\ b = JustFin
  \/ p = "wait" /\ q = "first" /\ a = Nothing /\ b = FinThenAck
  \/ p = "wait" /\ q = "wait" /\ a \in {Nothing, JustAck} /\ b \in {Nothing, JustAck}
  \/ p = "gone" /\ q = "gone" /\ a = Nothing /\ b = Nothing

Agree(p, q, a, b) == Half(p, q, a, b) \/ Half(q, p, b, a)

Connected(s) == Agree(Phase(s), Phase(Peer(s)), to[s], to[Peer(s)])

(* The application and the network thread of a client host, and the table. *)
InTable(s, apps, states) ==
  /\ app[Host(s)] \in apps /\ state[s] \in states
  /\ s \in established_table /\ net[Host(s)] = << >>

NotInTable(s, place, st) ==
  /\ app[Host(s)] = place /\ state[s] = st
  /\ s \notin established_table /\ net[Host(s)] = << >>

ClientOK(s) ==
  \/ NotInTable(s, "connect", "CLOSED") /\ s \notin notified
  \/ NotInTable(s, "syn", "CLOSED") /\ s \notin notified
  \/ NotInTable(s, "hash", "SYN_SENT") /\ s \notin notified
  \/ InTable(s, {"sleep"}, {"SYN_SENT"}) /\ s \notin notified
  \/ InTable(s, {"sleep", "open", "wait1"}, {"ESTABLISHED"})
  \/ /\ app[Host(s)] \in {"sleep", "open"} /\ state[s] = "ESTABLISHED"
     /\ s \in established_table /\ net[Host(s)] = <<"fin", s>>
  \/ InTable(s, {"sleep", "open", "last"}, {"CLOSE_WAIT"})
  \/ InTable(s, {"done"}, {"LAST_ACK", "FIN_WAIT_1", "FIN_WAIT_2", "TIME_WAIT"})
  \/ NotInTable(s, "done", "CLOSED")

(* The server's child at work, if any: k waits to be accepted, is in the   *)
(* hands of the application at place p, or neither.                        *)
Queued(k) == accept_queue = <<k>> /\ app[Server] = "accept"
Held(k, p) == accept_queue = << >> /\ app[Server] = p /\ accepted = k
Alone == accept_queue = << >> /\ app[Server] = "accept"

AtWork(k) ==
  \/ state[k] = "SYN_RECV" /\ net[Server] = << >> /\ Alone
  \/ state[k] = "SYN_RECV" /\ net[Server] = <<"accept", k>> /\ (Queued(k) \/ Held(k, "open"))
  \/ /\ state[k] = "ESTABLISHED" /\ net[Server] \in {<< >>, <<"fin", k>>}
     /\ Queued(k) \/ Held(k, "open")
  \/ state[k] = "ESTABLISHED" /\ net[Server] = << >> /\ Held(k, "wait1")
  \/ /\ state[k] = "CLOSE_WAIT" /\ net[Server] = << >>
     /\ Queued(k) \/ Held(k, "open") \/ Held(k, "last")
  \/ /\ state[k] \in {"LAST_ACK", "FIN_WAIT_1", "FIN_WAIT_2", "TIME_WAIT"}
     /\ net[Server] = << >> /\ Alone

OffWork(t) == state[t] \in {"NONE", "CLOSED"}

Serves(k) ==
  /\ listen_table = <<k, Listener>>
  /\ AtWork(k)
  /\ \A t \in Child \ {k} : OffWork(t)

Rests ==
  /\ accept_queue = << >> /\ net[Server] = << >>
  /\ \/ app[Server] \in {"bind", "listen"} /\ listen_table = << >>
     \/ app[Server] = "accept" /\ listen_table = <<Listener>>
  /\ \A t \in Child : OffWork(t)

ServerOK == Rests \/ \E k \in Child : Serves(k)

CInv ==
  /\ crashed = {}
  /\ ServerOK
  /\ \A s \in Sock \ Child : ClientOK(s) /\ Connected(s)
-------------------------------------------------------------------------------
(* The two sockets of a connection. *)
LEMMA SockFacts ==
  ASSUME NEW s \in Sock
  PROVE  /\ Peer(s) \in Sock /\ Peer(Peer(s)) = s /\ Peer(s) # s
         /\ Host(s) \in Hosts /\ Server \in Hosts /\ s # Listener
         /\ s \in Child <=> Peer(s) \notin Child
         /\ s \in Child => Host(s) = Server
         /\ s \notin Child => Host(s) \in Client /\ Host(s) # Server
  BY ConnAssumption DEF Sock, Child, Peer, Host, Hosts

LEMMA ChildFacts == Child \subseteq Sock /\ Listener \notin Sock
  BY ConnAssumption DEF Child, Sock

LEMMA OneClientPerHost ==
  ASSUME NEW s \in Sock \ Child, NEW t \in Sock \ Child, Host(s) = Host(t)
  PROVE  s = t
  BY DEF Sock, Child, Host

(* A packet finds a socket of the host it came to, on the client its own.  *)
LEMMA FoundFacts ==
  ASSUME TypeOK, NEW s \in Sock, NEW f \in Sock, Found(s, f)
  PROVE  /\ Host(f) = Host(s) /\ (f \in Child <=> s \in Child)
         /\ s \notin Child => f = s /\ s \in established_table
<1>1. CASE f \in {s} \cap established_table
  BY <1>1, SockFacts
<1>2. CASE s \in Child /\ listen_table # << >> /\ f = Head(listen_table)
  <2>1. f \in Child
    BY <1>2, ChildFacts DEF TypeOK
  <2> QED
    BY <1>2, <2>1, SockFacts
<1> QED
  BY <1>1, <1>2 DEF Found

LEMMA UnlinkedType ==
  ASSUME NEW S, NEW list \in Seq(S), NEW s
  PROVE  Unlinked(list, s) \in Seq(S)
<1>1. CASE \E i \in DOMAIN list : list[i] = s
  <2> DEFINE i == CHOOSE i \in DOMAIN list : list[i] = s
  <2>1. i \in 1 .. Len(list)
    BY <1>1
  <2> HIDE DEF i
  <2>2. SubSeq(list, 1, i - 1) \in Seq(S) /\ SubSeq(list, i + 1, Len(list)) \in Seq(S)
    BY <2>1
  <2>3. Unlinked(list, s) = SubSeq(list, 1, i - 1) \o SubSeq(list, i + 1, Len(list))
    BY <1>1 DEF Unlinked, RemoveAt, i
  <2> QED
    BY <2>2, <2>3
<1>2. CASE ~(\E i \in DOMAIN list : list[i] = s)
  BY <1>2 DEF Unlinked
<1> QED
  BY <1>1, <1>2

LEMMA UnlinkedElements ==
  ASSUME NEW S, NEW list \in Seq(S), NEW s
  PROVE  ToSet(Unlinked(list, s)) \subseteq ToSet(list)
<1>1. CASE \E i \in DOMAIN list : list[i] = s
  <2> DEFINE i == CHOOSE i \in DOMAIN list : list[i] = s
  <2>1. i \in 1 .. Len(list)
    BY <1>1
  <2> HIDE DEF i
  <2> DEFINE a == SubSeq(list, 1, i - 1)
             b == SubSeq(list, i + 1, Len(list))
  <2>2. /\ a \in Seq(S) /\ \A j \in DOMAIN a : j \in DOMAIN list /\ a[j] = list[j]
        /\ b \in Seq(S) /\ \A j \in DOMAIN b : i + j \in DOMAIN list /\ b[j] = list[i + j]
    BY <2>1
  <2>3. Unlinked(list, s) = a \o b
    BY <1>1 DEF Unlinked, RemoveAt, i
  <2> HIDE DEF a, b
  <2>4. \A j \in DOMAIN (a \o b) : (a \o b)[j] \in ToSet(list)
    BY <2>2 DEF ToSet
  <2> QED
    BY <2>3, <2>4 DEF ToSet
<1>2. CASE ~(\E i \in DOMAIN list : list[i] = s)
  BY <1>2 DEF Unlinked
<1> QED
  BY <1>1, <1>2

(* Only a child answers a SYN, and so only a child is queued for accept. *)
ClientsNeverAnswer == \A s \in Sock \ Child : state[s] \notin {"NONE", "SYN_RECV"}

TInv == TypeOK /\ ClientsNeverAnswer

LEMMA TypeInit == Init => TInv
  BY SockFacts, ChildFacts DEF Init, TInv, TypeOK, ClientsNeverAnswer, States, Hosts, InCall

LEMMA TypeStep == ASSUME TypeOK, ClientsNeverAnswer, Next PROVE TypeOK'
<1> USE SockFacts, ChildFacts
<1>1. CASE Bind
  BY <1>1 DEF TypeOK, Bind, Goes, InCall
<1>2. CASE Listen
  <2>1. listen_table' \in Seq(Child \cup {Listener})
    BY <1>2 DEF Listen
  <2> QED
    BY <1>2, <2>1 DEF TypeOK, Listen, Goes, InCall
<1>3. CASE Accept
  <2>1. accepted' \in Child /\ accept_queue' \in Seq(Child)
    BY <1>3 DEF Accept, TypeOK
  <2> QED
    BY <1>3, <2>1 DEF TypeOK, Accept, Goes, InCall, tables
<1>4. ASSUME NEW s \in Sock, s \notin Child, SendSyn(s) PROVE TypeOK'
  BY <1>4 DEF TypeOK, SendSyn, Goes, InCall, Sends
<1>5. ASSUME NEW s \in Sock, s \notin Child, EnterSynSent(s) PROVE TypeOK'
  BY <1>5 DEF TypeOK, EnterSynSent, Goes, InCall, Enters, States, tables
<1>6. ASSUME NEW s \in Sock, s \notin Child, Hash(s) PROVE TypeOK'
  BY <1>6 DEF TypeOK, Hash, Goes, InCall
<1>7. ASSUME NEW s \in Sock, s \notin Child, ConnectReturns(s) PROVE TypeOK'
  BY <1>7 DEF TypeOK, ConnectReturns, Goes, InCall, tables
<1>8. ASSUME NEW s \in Sock, SendLastFin(s) PROVE TypeOK'
  BY <1>8 DEF TypeOK, SendLastFin, Goes, InCall, Sends, Meets, tables
<1>9. ASSUME NEW s \in Sock, EnterLastAck(s) PROVE TypeOK'
  BY <1>9 DEF TypeOK, EnterLastAck, Goes, InCall, Enters, Returns, States, tables
<1>10. ASSUME NEW s \in Sock, SendFirstFin(s) PROVE TypeOK'
  BY <1>10 DEF TypeOK, SendFirstFin, Goes, InCall, Sends, Meets, tables
<1>11. ASSUME NEW s \in Sock, EnterFinWait1(s) PROVE TypeOK'
  BY <1>11 DEF TypeOK, EnterFinWait1, Goes, InCall, Enters, Returns, States, tables
<1>12. ASSUME NEW s \in Sock, CloseAtOnce(s) PROVE TypeOK'
  BY <1>12, UnlinkedType DEF TypeOK, CloseAtOnce, Goes, InCall, Enters, Unhashed, Meets, Returns, States
<1>13. ASSUME NEW s \in Sock, EstablishChild(s) PROVE TypeOK'
  BY <1>13 DEF TypeOK, EstablishChild, tables, Enters, States
<1>14. ASSUME NEW s \in Sock, EnterCloseWait(s) PROVE TypeOK'
  BY <1>14 DEF TypeOK, EnterCloseWait, tables, Enters, States
<1>15. ASSUME NEW s \in Sock, Expire(s) PROVE TypeOK'
  BY <1>15, UnlinkedType DEF TypeOK, Expire, Due, Enters, States, BindUnhashed, Unhashed
<1>16. ASSUME NEW s \in Sock, Handle(s) PROVE TypeOK'
  <2> SUFFICES ASSUME NEW flags \in Flags, Receives(s, flags),
                      \/ Crash(s, flags)
                      \/ SpawnChild(s, flags) \/ IgnoreListening(s, flags)
                      \/ \E f \in Sock : Found(s, f) /\ Process(s, f, flags)
               PROVE  TypeOK'
    BY <1>16 DEF Handle, Flags
  <2>1. /\ Taken(s) \in [Sock -> Seq(Flags)]
        /\ \A f \in Sock, g \in Flags : Answered(s, f, g) \in [Sock -> Seq(Flags)]
    <3>1. Taken(s) \in [Sock -> Seq(Flags)]
      BY DEF TypeOK, Receives, Taken, Flags
    <3>2. ASSUME NEW f \in Sock, NEW g \in Flags PROVE Answered(s, f, g) \in [Sock -> Seq(Flags)]
      BY <3>1 DEF Answered
    <3> QED
      BY <3>1, <3>2
  <2>2. CASE Crash(s, flags)
    BY <2>1, <2>2 DEF TypeOK, Crash, tables, Flags
  <2>3. CASE SpawnChild(s, flags)
    <3>1. s \in Child
      BY <2>3 DEF SpawnChild, Found, TypeOK
    <3>2. listen_table' \in Seq(Child \cup {Listener})
      BY <2>3, <3>1 DEF SpawnChild, Spawn, TypeOK
    <3>3. to' \in [Sock -> Seq(Flags)]
      BY <2>1, <2>3 DEF SpawnChild, Spawn, Flags
    <3> QED
      BY <2>3, <3>1, <3>2, <3>3 DEF TypeOK, SpawnChild, Spawn, Enters, States, Flags
  <2>4. CASE IgnoreListening(s, flags)
    BY <2>1, <2>4 DEF TypeOK, IgnoreListening, Ignore, tables, Flags
  <2>5. ASSUME NEW f \in Sock, Found(s, f), Process(s, f, flags) PROVE TypeOK'
    <3>1. overtaken' \subseteq Sock
      BY <2>5 DEF TypeOK, Process, MeetsCall
    <3>2. CASE FinishConnect(s, f, flags)
      BY <2>1, <3>1, <3>2 DEF TypeOK, FinishConnect, Enters, States, tables, Flags
    <3>3. CASE EnqueueChild(s, f, flags)
      <4>1. f \in Child
        BY <3>3 DEF EnqueueChild, ClientsNeverAnswer
      <4>2. accept_queue' \in Seq(Child)
        BY <3>3, <4>1 DEF TypeOK, EnqueueChild
      <4>3. net' \in [Hosts -> {<< >>} \cup InHandler]
        BY <3>3 DEF TypeOK, EnqueueChild, InHandler
      <4> QED
        BY <2>1, <3>1, <3>3, <4>2, <4>3 DEF TypeOK, EnqueueChild, tables, Flags
    <3>4. CASE AckFin(s, f, flags)
      BY <2>1, <3>1, <3>4 DEF TypeOK, AckFin, InHandler, tables, Flags
    <3>5. CASE FinAcked(s, f, flags)
      BY <2>1, <3>1, <3>5 DEF TypeOK, FinAcked, Enters, States, tables, Flags
    <3>6. CASE EnterTimeWait(s, f, flags)
      BY <2>1, <3>1, <3>6 DEF TypeOK, EnterTimeWait, Enters, States, tables, Flags
    <3>7. CASE LastAcked(s, f, flags)
      BY <2>1, <3>1, <3>7, UnlinkedType DEF TypeOK, LastAcked, Enters, States, Unhashed, Flags
    <3>8. CASE ~Expected(f, flags) /\ Ignore(s)
      BY <2>1, <3>1, <3>8 DEF TypeOK, Ignore, tables, Flags
    <3> QED
      BY <2>5, <3>2, <3>3, <3>4, <3>5, <3>6, <3>7, <3>8 DEF Process
  <2> QED
    BY <2>2, <2>3, <2>4, <2>5
<1> QED
  BY <1>1, <1>2, <1>3, <1>4, <1>5, <1>6, <1>7, <1>8, <1>9, <1>10, <1>11, <1>12, <1>13, <1>14, <1>15, <1>16 DEF Next, Step, Connect, Close

LEMMA ClientsStep == ASSUME TypeOK, ClientsNeverAnswer, Next PROVE ClientsNeverAnswer'
<1> USE SockFacts, ChildFacts
<1>1. ASSUME NEW s \in Sock, Handle(s) PROVE ClientsNeverAnswer'
  BY <1>1
  DEF Handle, Crash, SpawnChild, Spawn, IgnoreListening, Ignore, Found, Process,
      FinishConnect, EnqueueChild, AckFin, FinAcked, EnterTimeWait, LastAcked, Enters,
      ClientsNeverAnswer, TypeOK
<1> QED
  BY <1>1
  DEF Next, Step, Bind, Listen, Accept, Connect, SendSyn, EnterSynSent, Hash, ConnectReturns,
      Close, SendLastFin, EnterLastAck, SendFirstFin, EnterFinWait1, CloseAtOnce,
      EstablishChild, EnterCloseWait, Expire, Enters, ClientsNeverAnswer, TypeOK

LEMMA TypeInductive == Spec => []TInv
<1>1. TInv /\ [Next]_vars => TInv'
  <2>1. TInv /\ UNCHANGED vars => TInv'
    BY DEF TInv, TypeOK, ClientsNeverAnswer, vars, tables
  <2> QED
    BY <2>1, TypeStep, ClientsStep DEF TInv
<1> QED
  BY <1>1, TypeInit, PTL DEF Spec

(* TypeOK holds in every reachable state. *)
THEOREM ConnTypeCorrect == Spec => []TypeOK
<1>1. TInv => TypeOK
  BY DEF TInv
<1> QED
  BY <1>1, TypeInductive, PTL
-------------------------------------------------------------------------------
(* What keeps the port bound, whoever overtakes whom. *)
ClientsBound ==
  \A s \in Sock \ Child :
    /\ app[Host(s)] # "connect" => s \in bind_table
    /\ s \in established_table => app[Host(s)] # "connect"

(* The SYN is the first packet to a child, and there is no other. *)
OneSyn ==
  \A t \in Child :
    /\ app[Host(Peer(t))] = "connect" => state[t] = "NONE" /\ to[t] = << >>
    /\ \A i \in DOMAIN to[t] : to[t][i] = "SYN" => i = 1 /\ state[t] = "NONE"

InQueue(t) == \E i \in DOMAIN accept_queue : accept_queue[i] = t
InHands(t) == accepted = t /\ app[Server] \in {"open", "last", "wait1"}
Handled(t) == net[Server] \in {<<"accept", t>>, <<"fin", t>>}

(* A child is queued once, after the network thread has seen its ACK. *)
QueuedOnce ==
  /\ \A i, j \in DOMAIN accept_queue : accept_queue[i] = accept_queue[j] => i = j
  /\ ~InQueue(accepted)

NotYetQueued ==
  \A t \in Child :
    /\ state[t] = "NONE" => accepted # t /\ ~InQueue(t) /\ ~Handled(t)
    /\ state[t] = "SYN_RECV" /\ net[Server] # <<"accept", t>> => accepted # t /\ ~InQueue(t)

(* No thread has anything left to do with a child that was closed first.   *)
LeftAlone ==
  \A t \in Child :
    /\ state[t] \in {"FIN_WAIT_1", "FIN_WAIT_2", "TIME_WAIT"} => ~InQueue(t) /\ ~InHands(t)
    /\ state[t] \in {"FIN_WAIT_2", "TIME_WAIT"} => ~Handled(t)

Over(t) == state[t] = "CLOSED" /\ ~InQueue(t) /\ ~InHands(t) /\ ~Handled(t)

PortKept ==
  /\ Listener \in ToSet(listen_table) => app[Server] # "bind"
  /\ app[Server] # "bind" /\ Listener \notin bind_table => \E t \in Child : Over(t)

PortInv ==
  TInv /\ ClientsBound /\ OneSyn /\ QueuedOnce /\ NotYetQueued /\ LeftAlone /\ PortKept

LEMMA PortInit == Init => PortInv
<1> SUFFICES ASSUME Init PROVE PortInv
  OBVIOUS
<1> USE SockFacts, ChildFacts
<1>1. TInv
  BY TypeInit
<1>2. ClientsBound /\ OneSyn
  BY DEF Init, ClientsBound, OneSyn, Hosts
<1>3. QueuedOnce /\ NotYetQueued /\ LeftAlone
  BY DEF Init, QueuedOnce, NotYetQueued, LeftAlone, InQueue, InHands, Handled, Hosts, Child
<1>4. PortKept
  BY DEF Init, PortKept, ToSet, Hosts
<1> QED
  BY <1>1, <1>2, <1>3, <1>4 DEF PortInv

LEMMA ClientsBoundStep == ASSUME TInv, ClientsBound, Next PROVE ClientsBound'
<1> USE SockFacts, ChildFacts, OneClientPerHost DEF TInv, TypeOK
<1>1. ASSUME NEW s \in Sock, Handle(s) PROVE ClientsBound'
  BY <1>1
  DEF Handle, Crash, SpawnChild, Spawn, IgnoreListening, Ignore, Found, Process, Receives,
      FinishConnect, EnqueueChild, AckFin, FinAcked, EnterTimeWait, LastAcked, Expected,
      Answered, Taken, Enters, tables, Unhashed, ClientsBound
<1> QED
  BY <1>1
  DEF Next, Step, Bind, Listen, Accept, Connect, SendSyn, EnterSynSent, Hash, ConnectReturns,
      Close, SendLastFin, EnterLastAck, SendFirstFin, EnterFinWait1, CloseAtOnce, Goes, Returns,
      EstablishChild, EnterCloseWait, Expire, Due, Enters, Sends, tables,
      Unhashed, BindUnhashed, ClientsBound, InCall

LEMMA IdleFacts == \A t : << >> # <<"accept", t>> /\ << >> # <<"fin", t>>
  OBVIOUS

LEMMA QueuedOnceStep == ASSUME TInv, QueuedOnce, NotYetQueued, Next PROVE QueuedOnce'
<1> USE SockFacts, ChildFacts DEF TInv, TypeOK
<1>1. CASE Bind
  BY <1>1 DEF Bind, Goes, tables, QueuedOnce, InQueue
<1>2. CASE Listen
  BY <1>2 DEF Listen, Goes, tables, QueuedOnce, InQueue
<1>3. CASE Accept
  <2>1. accept_queue # << >> /\ accept_queue' = Tail(accept_queue) /\ accepted' = accept_queue[1]
    BY <1>3 DEF Accept
  <2>2. \A i \in DOMAIN Tail(accept_queue) :
          i + 1 \in DOMAIN accept_queue /\ Tail(accept_queue)[i] = accept_queue[i + 1]
    BY <2>1
  <2>3. ASSUME NEW i \in DOMAIN accept_queue', NEW j \in DOMAIN accept_queue',
               accept_queue'[i] = accept_queue'[j]
        PROVE  i = j
    BY <2>1, <2>2, <2>3 DEF QueuedOnce
  <2>4. ASSUME NEW i \in DOMAIN accept_queue', accept_queue'[i] = accepted' PROVE FALSE
    BY <2>1, <2>2, <2>4 DEF QueuedOnce
  <2> QED
    BY <2>3, <2>4 DEF QueuedOnce, InQueue
<1>4. ASSUME NEW s \in Sock, s \notin Child, SendSyn(s) PROVE QueuedOnce'
  BY <1>4 DEF SendSyn, Goes, Sends, tables, QueuedOnce, InQueue
<1>5. ASSUME NEW s \in Sock, s \notin Child, EnterSynSent(s) PROVE QueuedOnce'
  BY <1>5 DEF EnterSynSent, Goes, Enters, tables, QueuedOnce, InQueue
<1>6. ASSUME NEW s \in Sock, s \notin Child, Hash(s) PROVE QueuedOnce'
  BY <1>6 DEF Hash, Goes, tables, QueuedOnce, InQueue
<1>7. ASSUME NEW s \in Sock, s \notin Child, ConnectReturns(s) PROVE QueuedOnce'
  BY <1>7 DEF ConnectReturns, Goes, tables, QueuedOnce, InQueue
<1>8. ASSUME NEW s \in Sock, s \notin Child \/ accepted = s, SendLastFin(s) PROVE QueuedOnce'
  BY <1>8 DEF SendLastFin, Goes, Sends, tables, QueuedOnce, InQueue
<1>9. ASSUME NEW s \in Sock, s \notin Child \/ accepted = s, EnterLastAck(s) PROVE QueuedOnce'
  BY <1>9 DEF EnterLastAck, Goes, Enters, Returns, tables, QueuedOnce, InQueue
<1>10. ASSUME NEW s \in Sock, s \notin Child \/ accepted = s, SendFirstFin(s) PROVE QueuedOnce'
  BY <1>10 DEF SendFirstFin, Goes, Sends, tables, QueuedOnce, InQueue
<1>11. ASSUME NEW s \in Sock, s \notin Child \/ accepted = s, EnterFinWait1(s) PROVE QueuedOnce'
  BY <1>11 DEF EnterFinWait1, Goes, Enters, Returns, tables, QueuedOnce, InQueue
<1>12. ASSUME NEW s \in Sock, s \notin Child \/ accepted = s, CloseAtOnce(s) PROVE QueuedOnce'
  BY <1>12 DEF CloseAtOnce, Goes, Enters, Returns, tables, QueuedOnce, InQueue
<1>13. ASSUME NEW s \in Sock, EstablishChild(s) PROVE QueuedOnce'
  BY <1>13 DEF EstablishChild, Enters, tables, QueuedOnce, InQueue
<1>14. ASSUME NEW s \in Sock, EnterCloseWait(s) PROVE QueuedOnce'
  BY <1>14 DEF EnterCloseWait, Enters, tables, QueuedOnce, InQueue
<1>15. ASSUME NEW s \in Sock, Expire(s) PROVE QueuedOnce'
  BY <1>15 DEF Expire, Due, Enters, tables, QueuedOnce, InQueue
<1>16. ASSUME NEW s \in Sock, Handle(s) PROVE QueuedOnce'
  <2> SUFFICES ASSUME NEW flags \in Flags, Receives(s, flags),
                      \/ Crash(s, flags)
                      \/ SpawnChild(s, flags) \/ IgnoreListening(s, flags)
                      \/ \E f \in Sock : Found(s, f) /\ Process(s, f, flags)
               PROVE  QueuedOnce'
    BY <1>16 DEF Handle, Flags
  <2>1. CASE Crash(s, flags)
    BY <2>1 DEF Crash, Receives, Taken, tables, QueuedOnce, InQueue
  <2>2. CASE SpawnChild(s, flags)
    BY <2>2 DEF SpawnChild, Spawn, Enters, Receives, Answered, Taken, QueuedOnce, InQueue
  <2>3. CASE IgnoreListening(s, flags)
    BY <2>3 DEF IgnoreListening, Ignore, Receives, Taken, tables, QueuedOnce, InQueue
  <2>4. ASSUME NEW f \in Sock, Found(s, f), Process(s, f, flags) PROVE QueuedOnce'
    <3>1. CASE FinishConnect(s, f, flags)
      BY <3>1 DEF FinishConnect, Answered, Taken, Enters, tables, Receives, QueuedOnce, InQueue
    <3>2. CASE EnqueueChild(s, f, flags)
      <4>0. f \in Child /\ net[Server] = << >>
        BY <2>4, <3>2, FoundFacts DEF EnqueueChild, ClientsNeverAnswer, Receives
      <4>1. f \in Child /\ accepted # f /\ ~InQueue(f)
        BY <3>2, <4>0, IdleFacts DEF EnqueueChild, NotYetQueued
      <4>2. accept_queue' = Append(accept_queue, f) /\ accepted' = accepted
        BY <3>2 DEF EnqueueChild
      <4>3. \A i \in DOMAIN accept_queue' :
              \/ i \in DOMAIN accept_queue /\ accept_queue'[i] = accept_queue[i]
              \/ i = Len(accept_queue) + 1 /\ accept_queue'[i] = f
        BY <4>2
      <4> QED
        BY <4>1, <4>2, <4>3 DEF QueuedOnce, InQueue
    <3>3. CASE AckFin(s, f, flags)
      BY <3>3 DEF AckFin, Answered, Taken, tables, Receives, QueuedOnce, InQueue
    <3>4. CASE FinAcked(s, f, flags)
      BY <3>4 DEF FinAcked, Taken, Enters, tables, Receives, QueuedOnce, InQueue
    <3>5. CASE EnterTimeWait(s, f, flags)
      BY <3>5 DEF EnterTimeWait, Answered, Taken, Enters, tables, Receives, QueuedOnce, InQueue
    <3>6. CASE LastAcked(s, f, flags)
      BY <3>6 DEF LastAcked, Taken, Enters, tables, Receives, QueuedOnce, InQueue
    <3>7. CASE ~Expected(f, flags) /\ Ignore(s)
      BY <3>7 DEF Ignore, Taken, Receives, tables, QueuedOnce, InQueue
    <3> QED
      BY <2>4, <3>1, <3>2, <3>3, <3>4, <3>5, <3>6, <3>7 DEF Process
  <2> QED
    BY <2>1, <2>2, <2>3, <2>4
<1> QED
  BY <1>1, <1>2, <1>3, <1>4, <1>5, <1>6, <1>7, <1>8, <1>9, <1>10, <1>11,
     <1>12, <1>13, <1>14, <1>15, <1>16
  DEF Next, Step, Connect, Close

LEMMA NotYetQueuedStep ==
  ASSUME TInv, OneSyn, QueuedOnce, NotYetQueued, Next PROVE NotYetQueued'
<1> USE SockFacts, ChildFacts DEF TInv, TypeOK
<1>1. CASE Bind
  BY <1>1 DEF Bind, Goes, tables, NotYetQueued, InQueue, Handled
<1>2. CASE Listen
  BY <1>2 DEF Listen, Goes, tables, NotYetQueued, InQueue, Handled
<1>3. CASE Accept
  BY <1>3 DEF Accept, Goes, tables, NotYetQueued, InQueue, Handled
<1>4. ASSUME NEW s \in Sock, s \notin Child, SendSyn(s) PROVE NotYetQueued'
  BY <1>4 DEF SendSyn, Goes, Sends, tables, NotYetQueued, InQueue, Handled
<1>5. ASSUME NEW s \in Sock, s \notin Child, EnterSynSent(s) PROVE NotYetQueued'
  BY <1>5 DEF EnterSynSent, Goes, Enters, tables, NotYetQueued, InQueue, Handled
<1>6. ASSUME NEW s \in Sock, s \notin Child, Hash(s) PROVE NotYetQueued'
  BY <1>6 DEF Hash, Goes, tables, NotYetQueued, InQueue, Handled
<1>7. ASSUME NEW s \in Sock, s \notin Child, ConnectReturns(s) PROVE NotYetQueued'
  BY <1>7 DEF ConnectReturns, Goes, tables, NotYetQueued, InQueue, Handled
<1>8. ASSUME NEW s \in Sock, s \notin Child \/ accepted = s, SendLastFin(s) PROVE NotYetQueued'
  BY <1>8 DEF SendLastFin, Goes, Sends, tables, NotYetQueued, InQueue, Handled
<1>9. ASSUME NEW s \in Sock, s \notin Child \/ accepted = s, EnterLastAck(s) PROVE NotYetQueued'
  BY <1>9 DEF EnterLastAck, Goes, Enters, Returns, tables, NotYetQueued, InQueue, Handled
<1>10. ASSUME NEW s \in Sock, s \notin Child \/ accepted = s, SendFirstFin(s) PROVE NotYetQueued'
  BY <1>10 DEF SendFirstFin, Goes, Sends, tables, NotYetQueued, InQueue, Handled
<1>11. ASSUME NEW s \in Sock, s \notin Child \/ accepted = s, EnterFinWait1(s) PROVE NotYetQueued'
  BY <1>11 DEF EnterFinWait1, Goes, Enters, Returns, tables, NotYetQueued, InQueue, Handled
<1>12. ASSUME NEW s \in Sock, s \notin Child \/ accepted = s, CloseAtOnce(s) PROVE NotYetQueued'
  BY <1>12 DEF CloseAtOnce, Goes, Enters, Returns, tables, NotYetQueued, InQueue, Handled
<1>13. ASSUME NEW s \in Sock, EstablishChild(s) PROVE NotYetQueued'
  BY <1>13 DEF EstablishChild, Enters, tables, NotYetQueued, InQueue, Handled
<1>14. ASSUME NEW s \in Sock, EnterCloseWait(s) PROVE NotYetQueued'
  BY <1>14 DEF EnterCloseWait, Enters, tables, NotYetQueued, InQueue, Handled
<1>15. ASSUME NEW s \in Sock, Expire(s) PROVE NotYetQueued'
  BY <1>15 DEF Expire, Due, Enters, tables, NotYetQueued, InQueue, Handled
<1>16. ASSUME NEW s \in Sock, Handle(s) PROVE NotYetQueued'
  <2> SUFFICES ASSUME NEW flags \in Flags, Receives(s, flags),
                      \/ Crash(s, flags)
                      \/ SpawnChild(s, flags) \/ IgnoreListening(s, flags)
                      \/ \E f \in Sock : Found(s, f) /\ Process(s, f, flags)
               PROVE  NotYetQueued'
    BY <1>16 DEF Handle, Flags
  <2>1. CASE Crash(s, flags)
    BY <2>1 DEF Crash, Receives, Taken, tables, NotYetQueued, InQueue, Handled
  <2>2. CASE SpawnChild(s, flags)
    <3>1. s \in Child /\ state[s] = "NONE"
      <4>1. 1 \in DOMAIN to[s] /\ to[s][1] = "SYN"
        BY <2>2 DEF SpawnChild, Receives
      <4> QED
        BY <2>2, <4>1 DEF SpawnChild, Found, OneSyn
    <3> QED
      BY <2>2, <3>1 DEF SpawnChild, Spawn, Enters, NotYetQueued, InQueue, Handled
  <2>3. CASE IgnoreListening(s, flags)
    BY <2>3 DEF IgnoreListening, Ignore, Receives, Taken, tables, NotYetQueued, InQueue, Handled
  <2>4. ASSUME NEW f \in Sock, Found(s, f), Process(s, f, flags) PROVE NotYetQueued'
    <3>1. CASE FinishConnect(s, f, flags)
      BY <3>1 DEF FinishConnect, Answered, Taken, Enters, tables, Receives, NotYetQueued, InQueue, Handled
    <3>2. CASE EnqueueChild(s, f, flags)
      <4>1. f \in Child /\ Host(f) = Server /\ net[Server] = << >>
        BY <2>4, <3>2, FoundFacts DEF EnqueueChild, ClientsNeverAnswer, Receives
      <4>2. \A t : InQueue(t)' => t = f \/ InQueue(t)
        BY <3>2 DEF EnqueueChild, InQueue
      <4>3. /\ state' = state /\ accepted' = accepted /\ net'[Server] = <<"accept", f>>
            /\ state[f] = "SYN_RECV"
        BY <3>2, <4>1 DEF EnqueueChild
      <4> QED
        BY <4>1, <4>2, <4>3 DEF NotYetQueued, Handled
    <3>3. CASE AckFin(s, f, flags)
      <4>1. f \in Child => Host(f) = Server /\ net[Server] = << >>
        BY <2>4, FoundFacts DEF Receives
      <4>2. f \notin Child => net'[Server] = net[Server]
        BY <3>3 DEF AckFin
      <4> QED
        BY <3>3, <4>1, <4>2 DEF AckFin, NotYetQueued, InQueue, Handled
    <3>4. CASE FinAcked(s, f, flags)
      BY <3>4 DEF FinAcked, Taken, Enters, tables, Receives, NotYetQueued, InQueue, Handled
    <3>5. CASE EnterTimeWait(s, f, flags)
      BY <3>5 DEF EnterTimeWait, Answered, Taken, Enters, tables, Receives, NotYetQueued, InQueue, Handled
    <3>6. CASE LastAcked(s, f, flags)
      BY <3>6 DEF LastAcked, Taken, Enters, tables, Receives, NotYetQueued, InQueue, Handled
    <3>7. CASE ~Expected(f, flags) /\ Ignore(s)
      BY <3>7 DEF Ignore, Taken, Receives, tables, NotYetQueued, InQueue, Handled
    <3> QED
      BY <2>4, <3>1, <3>2, <3>3, <3>4, <3>5, <3>6, <3>7 DEF Process
  <2> QED
    BY <2>1, <2>2, <2>3, <2>4
<1> QED
  BY <1>1, <1>2, <1>3, <1>4, <1>5, <1>6, <1>7, <1>8, <1>9, <1>10, <1>11,
     <1>12, <1>13, <1>14, <1>15, <1>16
  DEF Next, Step, Connect, Close

LEMMA LeftAloneStep ==
  ASSUME TInv, QueuedOnce, NotYetQueued, LeftAlone, Next PROVE LeftAlone'
<1> USE SockFacts, ChildFacts DEF TInv, TypeOK
<1>1. CASE Bind
  BY <1>1 DEF Bind, Goes, tables, LeftAlone, InQueue, InHands, Handled
<1>2. CASE Listen
  BY <1>2 DEF Listen, Goes, tables, LeftAlone, InQueue, InHands, Handled
<1>3. CASE Accept
  BY <1>3 DEF Accept, Goes, tables, LeftAlone, InQueue, InHands, Handled
<1>4. ASSUME NEW s \in Sock, s \notin Child, SendSyn(s) PROVE LeftAlone'
  BY <1>4 DEF SendSyn, Goes, Sends, tables, LeftAlone, InQueue, InHands, Handled
<1>5. ASSUME NEW s \in Sock, s \notin Child, EnterSynSent(s) PROVE LeftAlone'
  BY <1>5 DEF EnterSynSent, Goes, Enters, tables, LeftAlone, InQueue, InHands, Handled
<1>6. ASSUME NEW s \in Sock, s \notin Child, Hash(s) PROVE LeftAlone'
  BY <1>6 DEF Hash, Goes, tables, LeftAlone, InQueue, InHands, Handled
<1>7. ASSUME NEW s \in Sock, s \notin Child, ConnectReturns(s) PROVE LeftAlone'
  BY <1>7 DEF ConnectReturns, Goes, tables, LeftAlone, InQueue, InHands, Handled
<1>8. ASSUME NEW s \in Sock, s \notin Child \/ accepted = s, SendLastFin(s) PROVE LeftAlone'
  BY <1>8 DEF SendLastFin, Goes, Sends, tables, LeftAlone, InQueue, InHands, Handled
<1>9. ASSUME NEW s \in Sock, s \notin Child \/ accepted = s, EnterLastAck(s) PROVE LeftAlone'
  BY <1>9 DEF EnterLastAck, Goes, Enters, Returns, tables, LeftAlone, InQueue, InHands, Handled
<1>10. ASSUME NEW s \in Sock, s \notin Child \/ accepted = s, SendFirstFin(s) PROVE LeftAlone'
  BY <1>10 DEF SendFirstFin, Goes, Sends, tables, LeftAlone, InQueue, InHands, Handled
<1>11. ASSUME NEW s \in Sock, s \notin Child \/ accepted = s, EnterFinWait1(s) PROVE LeftAlone'
  <2>1. accepted' = accepted /\ accept_queue' = accept_queue /\ net' = net
    BY <1>11 DEF EnterFinWait1
  <2>2. s \in Child => ~InQueue(s) /\ app'[Server] = "accept"
    BY <1>11 DEF EnterFinWait1, Goes, Returns, QueuedOnce
  <2>3. s \notin Child => app'[Server] = app[Server]
    BY <1>11 DEF EnterFinWait1, Goes
  <2>4. \A t \in Sock : t # s => state'[t] = state[t]
    BY <1>11 DEF EnterFinWait1, Enters
  <2>5. state'[s] = "FIN_WAIT_1"
    BY <1>11 DEF EnterFinWait1, Enters
  <2> QED
    BY <2>1, <2>2, <2>3, <2>4, <2>5 DEF LeftAlone, InQueue, InHands, Handled
<1>12. ASSUME NEW s \in Sock, s \notin Child \/ accepted = s, CloseAtOnce(s) PROVE LeftAlone'
  BY <1>12 DEF CloseAtOnce, Goes, Enters, Returns, tables, LeftAlone, InQueue, InHands, Handled
<1>13. ASSUME NEW s \in Sock, EstablishChild(s) PROVE LeftAlone'
  BY <1>13 DEF EstablishChild, Enters, tables, LeftAlone, InQueue, InHands, Handled
<1>14. ASSUME NEW s \in Sock, EnterCloseWait(s) PROVE LeftAlone'
  BY <1>14 DEF EnterCloseWait, Enters, tables, LeftAlone, InQueue, InHands, Handled
<1>15. ASSUME NEW s \in Sock, Expire(s) PROVE LeftAlone'
  BY <1>15 DEF Expire, Due, Enters, tables, LeftAlone, InQueue, InHands, Handled
<1>16. ASSUME NEW s \in Sock, Handle(s) PROVE LeftAlone'
  <2> SUFFICES ASSUME NEW flags \in Flags, Receives(s, flags),
                      \/ Crash(s, flags)
                      \/ SpawnChild(s, flags) \/ IgnoreListening(s, flags)
                      \/ \E f \in Sock : Found(s, f) /\ Process(s, f, flags)
               PROVE  LeftAlone'
    BY <1>16 DEF Handle, Flags
  <2>1. CASE Crash(s, flags)
    BY <2>1 DEF Crash, Receives, Taken, tables, LeftAlone, InQueue, InHands, Handled
  <2>2. CASE SpawnChild(s, flags)
    BY <2>2 DEF SpawnChild, Spawn, Enters, Receives, Answered, Taken, LeftAlone, InQueue, InHands, Handled
  <2>3. CASE IgnoreListening(s, flags)
    BY <2>3 DEF IgnoreListening, Ignore, Receives, Taken, tables, LeftAlone, InQueue, InHands, Handled
  <2>4. ASSUME NEW f \in Sock, Found(s, f), Process(s, f, flags) PROVE LeftAlone'
    <3>1. CASE FinishConnect(s, f, flags)
      BY <3>1 DEF FinishConnect, Answered, Taken, Enters, tables, Receives, LeftAlone, InQueue, InHands, Handled
    <3>2. CASE EnqueueChild(s, f, flags)
      BY <3>2 DEF EnqueueChild, Taken, tables, Receives, LeftAlone, InQueue, InHands, Handled
    <3>3. CASE AckFin(s, f, flags)
      BY <3>3 DEF AckFin, Answered, Taken, tables, Receives, LeftAlone, InQueue, InHands, Handled
    <3>4. CASE FinAcked(s, f, flags)
      <4>1. f \in Child => ~Handled(f)
        BY <2>4, FoundFacts, IdleFacts DEF Receives, Handled
      <4> QED
        BY <3>4, <4>1 DEF FinAcked, Taken, Enters, tables, LeftAlone, InQueue, InHands, Handled
    <3>5. CASE EnterTimeWait(s, f, flags)
      <4>1. f \in Child => ~Handled(f)
        BY <2>4, FoundFacts, IdleFacts DEF Receives, Handled
      <4> QED
        BY <3>5, <4>1 DEF EnterTimeWait, Enters, tables, LeftAlone, InQueue, InHands, Handled
    <3>6. CASE LastAcked(s, f, flags)
      BY <3>6 DEF LastAcked, Taken, Enters, tables, Receives, LeftAlone, InQueue, InHands, Handled
    <3>7. CASE ~Expected(f, flags) /\ Ignore(s)
      BY <3>7 DEF Ignore, Taken, Receives, tables, LeftAlone, InQueue, InHands, Handled
    <3> QED
      BY <2>4, <3>1, <3>2, <3>3, <3>4, <3>5, <3>6, <3>7 DEF Process
  <2> QED
    BY <2>1, <2>2, <2>3, <2>4
<1> QED
  BY <1>1, <1>2, <1>3, <1>4, <1>5, <1>6, <1>7, <1>8, <1>9, <1>10, <1>11,
     <1>12, <1>13, <1>14, <1>15, <1>16
  DEF Next, Step, Connect, Close

(* Packets that are not SYN leave OneSyn alone. *)
LEMMA AnswerHasNoSyn ==
  ASSUME TInv, OneSyn, ClientsBound, NEW s \in Sock, to[s] # << >>,
         NEW f \in Sock, f \notin Child => f \in established_table,
         \A t \in Child : state'[t] = state[t] \/ (state[t] # "NONE" /\ state'[t] # "NONE"),
         app' = app, to' = Answered(s, f, "ACK")
  PROVE  OneSyn'
<1> USE SockFacts, ChildFacts DEF TInv, TypeOK
<1>1. ASSUME NEW t \in Child
      PROVE  \A i \in DOMAIN Taken(s)[t] : Taken(s)[t][i] = "SYN" => i = 1 /\ state[t] = "NONE"
  BY DEF Taken, OneSyn
<1>2. Taken(s) \in [Sock -> Seq(Flags)]
  BY DEF Taken, Flags
<1>3. ASSUME NEW t \in Child, t # Peer(f) PROVE to'[t] = Taken(s)[t]
  BY <1>2, <1>3 DEF Answered
<1>4. ASSUME NEW t \in Child, t = Peer(f) PROVE to'[t] = Append(Taken(s)[t], "ACK")
  BY <1>2, <1>4 DEF Answered
<1>5. ASSUME NEW t \in Child
      PROVE  \A i \in DOMAIN to'[t] : to'[t][i] = "SYN" => i = 1 /\ state[t] = "NONE"
  <2>1. CASE t # Peer(f)
    BY <1>1, <1>3, <2>1
  <2>2. CASE t = Peer(f)
    <3>1. Taken(s)[t] \in Seq(Flags)
      BY <1>2
    <3>2. \A i \in DOMAIN Append(Taken(s)[t], "ACK") :
            \/ Append(Taken(s)[t], "ACK")[i] = "ACK"
            \/ i \in DOMAIN Taken(s)[t] /\ Append(Taken(s)[t], "ACK")[i] = Taken(s)[t][i]
      BY <3>1
    <3>3. to'[t] = Append(Taken(s)[t], "ACK")
      BY <1>4, <2>2
    <3> QED
      BY <1>1, <3>2, <3>3
  <2> QED
    BY <2>1, <2>2
<1>6. ASSUME NEW t \in Child, app[Host(Peer(t))] = "connect"
      PROVE  to'[t] = << >>
  <2>1. t # Peer(f)
    BY <1>6 DEF ClientsBound
  <2>2. to[t] = << >> /\ t # s
    BY <1>6 DEF OneSyn
  <2> QED
    BY <1>3, <2>1, <2>2 DEF Taken
<1> QED
  BY <1>5, <1>6 DEF OneSyn

LEMMA OneSynStep ==
  ASSUME TInv, OneSyn, NotYetQueued, ClientsBound, Next PROVE OneSyn'
<1> USE SockFacts, ChildFacts DEF TInv, TypeOK
<1>1. CASE Bind
  BY <1>1 DEF Bind, Goes, tables, OneSyn
<1>2. CASE Listen
  BY <1>2 DEF Listen, Goes, tables, OneSyn
<1>3. CASE Accept
  BY <1>3 DEF Accept, Goes, tables, OneSyn
<1>4. ASSUME NEW s \in Sock, s \notin Child, SendSyn(s) PROVE OneSyn'
  BY <1>4 DEF SendSyn, Goes, Sends, tables, OneSyn
<1>5. ASSUME NEW s \in Sock, s \notin Child, EnterSynSent(s) PROVE OneSyn'
  BY <1>5 DEF EnterSynSent, Goes, Enters, tables, OneSyn
<1>6. ASSUME NEW s \in Sock, s \notin Child, Hash(s) PROVE OneSyn'
  BY <1>6 DEF Hash, Goes, tables, OneSyn
<1>7. ASSUME NEW s \in Sock, s \notin Child, ConnectReturns(s) PROVE OneSyn'
  BY <1>7 DEF ConnectReturns, Goes, tables, OneSyn
<1>8. ASSUME NEW s \in Sock, s \notin Child \/ accepted = s, SendLastFin(s) PROVE OneSyn'
  BY <1>8 DEF SendLastFin, Goes, Sends, tables, OneSyn
<1>9. ASSUME NEW s \in Sock, s \notin Child \/ accepted = s, EnterLastAck(s) PROVE OneSyn'
  BY <1>9 DEF EnterLastAck, Goes, Enters, Returns, tables, OneSyn, NotYetQueued, Handled
<1>10. ASSUME NEW s \in Sock, s \notin Child \/ accepted = s, SendFirstFin(s) PROVE OneSyn'
  BY <1>10 DEF SendFirstFin, Goes, Sends, tables, OneSyn
<1>11. ASSUME NEW s \in Sock, s \notin Child \/ accepted = s, EnterFinWait1(s) PROVE OneSyn'
  BY <1>11 DEF EnterFinWait1, Goes, Enters, Returns, tables, OneSyn, NotYetQueued, Handled
<1>12. ASSUME NEW s \in Sock, s \notin Child \/ accepted = s, CloseAtOnce(s) PROVE OneSyn'
  BY <1>12 DEF CloseAtOnce, Goes, Enters, Returns, tables, OneSyn, NotYetQueued, Handled
<1>13. ASSUME NEW s \in Sock, EstablishChild(s) PROVE OneSyn'
  BY <1>13 DEF EstablishChild, Enters, tables, OneSyn, NotYetQueued, Handled
<1>14. ASSUME NEW s \in Sock, EnterCloseWait(s) PROVE OneSyn'
  BY <1>14 DEF EnterCloseWait, Enters, tables, OneSyn, NotYetQueued, Handled
<1>15. ASSUME NEW s \in Sock, Expire(s) PROVE OneSyn'
  BY <1>15 DEF Expire, Due, Enters, tables, OneSyn
<1>16. ASSUME NEW s \in Sock, Handle(s) PROVE OneSyn'
  <2> SUFFICES ASSUME NEW flags \in Flags, Receives(s, flags),
                      \/ Crash(s, flags)
                      \/ SpawnChild(s, flags) \/ IgnoreListening(s, flags)
                      \/ \E f \in Sock : Found(s, f) /\ Process(s, f, flags)
               PROVE  OneSyn'
    BY <1>16 DEF Handle, Flags
  <2>1. CASE Crash(s, flags)
    BY <2>1 DEF Crash, Receives, Taken, tables, OneSyn
  <2>2. CASE SpawnChild(s, flags)
    <3>1. s \in Child /\ app' = app /\ to' = Answered(s, s, "SYN|ACK")
      BY <2>2 DEF SpawnChild, Found, Spawn
    <3>2. \A t \in Child : to'[t] = Taken(s)[t]
      BY <3>1 DEF Answered, Taken
    <3>3. \A i \in DOMAIN Taken(s)[s] : Taken(s)[s][i] # "SYN"
      BY <3>1 DEF Receives, Taken, OneSyn
    <3>4. app[Host(Peer(s))] # "connect"
      BY <3>1 DEF Receives, OneSyn
    <3>5. \A t \in Child : t # s => state'[t] = state[t] /\ to'[t] = to[t]
      BY <2>2, <3>2 DEF SpawnChild, Spawn, Enters, Taken
    <3> QED
      BY <3>1, <3>2, <3>3, <3>4, <3>5 DEF OneSyn
  <2>3. CASE IgnoreListening(s, flags)
    BY <2>3 DEF IgnoreListening, Ignore, Receives, Taken, tables, OneSyn
  <2>4. ASSUME NEW f \in Sock, Found(s, f), Process(s, f, flags) PROVE OneSyn'
    <3>1. CASE FinishConnect(s, f, flags)
      <4>1. f \notin Child => f = s /\ s \in established_table
        BY <2>4, FoundFacts
      <4>2. \A t \in Child : state'[t] = state[t] \/ (state[t] # "NONE" /\ state'[t] # "NONE")
        BY <3>1 DEF FinishConnect, Enters
      <4>3. app' = app /\ to' = Answered(s, f, "ACK")
        BY <3>1 DEF FinishConnect
      <4>4. to[s] # << >>
        BY DEF Receives
      <4> QED
        BY <4>1, <4>2, <4>3, <4>4, AnswerHasNoSyn
    <3>2. CASE EnqueueChild(s, f, flags)
      BY <3>2 DEF EnqueueChild, Taken, tables, Receives, OneSyn
    <3>3. CASE AckFin(s, f, flags)
      <4>1. f \notin Child => f = s /\ s \in established_table
        BY <2>4, FoundFacts
      <4>2. \A t \in Child : state'[t] = state[t] \/ (state[t] # "NONE" /\ state'[t] # "NONE")
        BY <3>3 DEF AckFin, Enters
      <4>3. app' = app /\ to' = Answered(s, f, "ACK")
        BY <3>3 DEF AckFin
      <4>4. to[s] # << >>
        BY DEF Receives
      <4> QED
        BY <4>1, <4>2, <4>3, <4>4, AnswerHasNoSyn
    <3>4. CASE FinAcked(s, f, flags)
      BY <3>4 DEF FinAcked, Taken, Enters, tables, Receives, OneSyn
    <3>5. CASE EnterTimeWait(s, f, flags)
      <4>1. f \notin Child => f = s /\ s \in established_table
        BY <2>4, FoundFacts
      <4>2. \A t \in Child : state'[t] = state[t] \/ (state[t] # "NONE" /\ state'[t] # "NONE")
        BY <3>5 DEF EnterTimeWait, Enters
      <4>3. app' = app /\ to' = Answered(s, f, "ACK")
        BY <3>5 DEF EnterTimeWait
      <4>4. to[s] # << >>
        BY DEF Receives
      <4> QED
        BY <4>1, <4>2, <4>3, <4>4, AnswerHasNoSyn
    <3>6. CASE LastAcked(s, f, flags)
      BY <3>6 DEF LastAcked, Taken, Enters, tables, Receives, OneSyn
    <3>7. CASE ~Expected(f, flags) /\ Ignore(s)
      BY <3>7 DEF Ignore, Taken, Receives, tables, OneSyn
    <3> QED
      BY <2>4, <3>1, <3>2, <3>3, <3>4, <3>5, <3>6, <3>7 DEF Process
  <2> QED
    BY <2>1, <2>2, <2>3, <2>4
<1> QED
  BY <1>1, <1>2, <1>3, <1>4, <1>5, <1>6, <1>7, <1>8, <1>9, <1>10, <1>11,
     <1>12, <1>13, <1>14, <1>15, <1>16
  DEF Next, Step, Connect, Close

LEMMA OverStays ==
  ASSUME PortKept, \A t \in Child : Over(t) => Over(t)',
         ToSet(listen_table') \subseteq ToSet(listen_table) \cup Child,
         app'[Server] = "bind" <=> app[Server] = "bind",
         Listener \in bind_table => Listener \in bind_table'
  PROVE  PortKept'
  BY ChildFacts DEF PortKept

LEMMA PortKeptStep ==
  ASSUME TInv, OneSyn, QueuedOnce, NotYetQueued, LeftAlone, PortKept, Next PROVE PortKept'
<1> USE SockFacts, ChildFacts DEF TInv, TypeOK
<1>1. CASE Bind
  BY <1>1 DEF Bind, Goes, tables, PortKept, Over, InQueue, InHands, Handled
<1>2. CASE Listen
  <2>1. /\ app[Server] = "listen" /\ app'[Server] = "accept"
        /\ UNCHANGED <<state, accept_queue, accepted, net, bind_table>>
    BY <1>2 DEF Listen, Goes, Hosts
  <2>2. \A t \in Child : Over(t) => Over(t)'
    BY <2>1 DEF Over, InQueue, InHands, Handled
  <2> QED
    BY <2>1, <2>2 DEF PortKept
<1>3. CASE Accept
  <2>1. accept_queue # << >> /\ accept_queue' = Tail(accept_queue) /\ accepted' = accept_queue[1]
    BY <1>3 DEF Accept
  <2>2. \A i \in DOMAIN Tail(accept_queue) :
          i + 1 \in DOMAIN accept_queue /\ Tail(accept_queue)[i] = accept_queue[i + 1]
    BY <2>1
  <2>3. \A t : InQueue(t)' \/ accepted' = t => InQueue(t)
    BY <2>1, <2>2 DEF InQueue
  <2>4. state' = state /\ net' = net /\ listen_table' = listen_table /\ bind_table' = bind_table
    BY <1>3 DEF Accept, tables
  <2>5. app[Server] = "accept" /\ app'[Server] = "open"
    BY <1>3 DEF Accept, Goes
  <2>6. \A t \in Child : Over(t) => Over(t)'
    BY <2>3, <2>4, <2>5 DEF Over, InHands, Handled
  <2> QED
    BY <2>4, <2>5, <2>6, OverStays
<1>4. ASSUME NEW s \in Sock, s \notin Child, SendSyn(s) PROVE PortKept'
  BY <1>4 DEF SendSyn, Goes, Sends, tables, PortKept, Over, InQueue, InHands, Handled
<1>5. ASSUME NEW s \in Sock, s \notin Child, EnterSynSent(s) PROVE PortKept'
  BY <1>5 DEF EnterSynSent, Goes, Enters, tables, PortKept, Over, InQueue, InHands, Handled
<1>6. ASSUME NEW s \in Sock, s \notin Child, Hash(s) PROVE PortKept'
  BY <1>6 DEF Hash, Goes, tables, PortKept, Over, InQueue, InHands, Handled
<1>7. ASSUME NEW s \in Sock, s \notin Child, ConnectReturns(s) PROVE PortKept'
  BY <1>7 DEF ConnectReturns, Goes, tables, PortKept, Over, InQueue, InHands, Handled
<1>8. ASSUME NEW s \in Sock, s \notin Child \/ accepted = s, SendLastFin(s) PROVE PortKept'
  BY <1>8 DEF SendLastFin, Goes, Sends, tables, PortKept, Over, InQueue, InHands, Handled
<1>9. ASSUME NEW s \in Sock, s \notin Child \/ accepted = s, EnterLastAck(s) PROVE PortKept'
  BY <1>9 DEF EnterLastAck, Goes, Enters, Returns, tables, PortKept, Over, InQueue, InHands, Handled
<1>10. ASSUME NEW s \in Sock, s \notin Child \/ accepted = s, SendFirstFin(s) PROVE PortKept'
  BY <1>10 DEF SendFirstFin, Goes, Sends, tables, PortKept, Over, InQueue, InHands, Handled
<1>11. ASSUME NEW s \in Sock, s \notin Child \/ accepted = s, EnterFinWait1(s) PROVE PortKept'
  BY <1>11 DEF EnterFinWait1, Goes, Enters, Returns, tables, PortKept, Over, InQueue, InHands, Handled
<1>12. ASSUME NEW s \in Sock, s \notin Child \/ accepted = s, CloseAtOnce(s) PROVE PortKept'
  <2>1. ToSet(listen_table') \subseteq ToSet(listen_table)
    BY <1>12, UnlinkedElements DEF CloseAtOnce, Unhashed
  <2>2. s \in Child => InHands(s) /\ app[Server] = "open" /\ app'[Server] = "accept"
    BY <1>12 DEF CloseAtOnce, Goes, Returns, InHands
  <2>3. s \notin Child => app'[Server] = app[Server]
    BY <1>12 DEF CloseAtOnce, Goes
  <2>4. \A t \in Child : Over(t) => Over(t)'
    BY <1>12, <2>2, <2>3 DEF CloseAtOnce, Enters, Over, InQueue, InHands, Handled
  <2>5. bind_table' = bind_table
    BY <1>12 DEF CloseAtOnce
  <2> QED
    BY <2>1, <2>2, <2>3, <2>4, <2>5, OverStays
<1>13. ASSUME NEW s \in Sock, EstablishChild(s) PROVE PortKept'
  BY <1>13 DEF EstablishChild, Enters, tables, PortKept, Over, InQueue, InHands, Handled
<1>14. ASSUME NEW s \in Sock, EnterCloseWait(s) PROVE PortKept'
  BY <1>14 DEF EnterCloseWait, Enters, tables, PortKept, Over, InQueue, InHands, Handled
<1>15. ASSUME NEW s \in Sock, Expire(s) PROVE PortKept'
  <2>1. ToSet(listen_table') \subseteq ToSet(listen_table)
    BY <1>15, UnlinkedElements DEF Expire, Unhashed
  <2>2. state[s] = "TIME_WAIT" /\ state' = [state EXCEPT ![s] = "CLOSED"]
    BY <1>15 DEF Expire, Due, Enters
  <2>3. accept_queue' = accept_queue /\ app' = app /\ accepted' = accepted /\ net' = net
    BY <1>15 DEF Expire
  <2>4. \A t \in Child : Over(t) => Over(t)'
    BY <2>2, <2>3 DEF Over, InQueue, InHands, Handled
  <2>5. CASE s \in Child
    <3>1. Over(s)'
      BY <2>2, <2>3, <2>5 DEF Over, LeftAlone, InQueue, InHands, Handled
    <3> QED
      BY <2>1, <2>3, <2>5, <3>1 DEF PortKept
  <2>6. CASE s \notin Child
    <3>1. bind_table' = bind_table
      BY <1>15, <2>6 DEF Expire, BindUnhashed
    <3> QED
      BY <2>1, <2>3, <2>4, <3>1, OverStays
  <2> QED
    BY <2>5, <2>6
<1>16. ASSUME NEW s \in Sock, Handle(s) PROVE PortKept'
  <2> SUFFICES ASSUME NEW flags \in Flags, Receives(s, flags),
                      \/ Crash(s, flags)
                      \/ SpawnChild(s, flags) \/ IgnoreListening(s, flags)
                      \/ \E f \in Sock : Found(s, f) /\ Process(s, f, flags)
               PROVE  PortKept'
    BY <1>16 DEF Handle, Flags
  <2>1. CASE Crash(s, flags)
    BY <2>1 DEF Crash, Receives, Taken, tables, PortKept, Over, InQueue, InHands, Handled
  <2>2. CASE SpawnChild(s, flags)
    <3>1. s \in Child /\ state[s] = "NONE"
      <4>1. 1 \in DOMAIN to[s] /\ to[s][1] = "SYN"
        BY <2>2 DEF SpawnChild, Receives
      <4> QED
        BY <2>2, <4>1 DEF SpawnChild, Found, OneSyn
    <3>2. \A t \in Child : Over(t) => Over(t)'
      BY <2>2, <3>1 DEF SpawnChild, Spawn, Enters, Over, InQueue, InHands, Handled
    <3>3. ToSet(listen_table') \subseteq ToSet(listen_table) \cup Child
      <4>1. listen_table' = <<s>> \o listen_table
        BY <2>2 DEF SpawnChild, Spawn
      <4>2. \A i \in DOMAIN (<<s>> \o listen_table) :
              (<<s>> \o listen_table)[i] \in {s} \cup ToSet(listen_table)
        BY DEF ToSet
      <4> QED
        BY <3>1, <4>1, <4>2 DEF ToSet
    <3>4. bind_table \subseteq bind_table' /\ app' = app
      BY <2>2 DEF SpawnChild, Spawn
    <3> QED
      BY <3>2, <3>3, <3>4, OverStays
  <2>3. CASE IgnoreListening(s, flags)
    BY <2>3 DEF IgnoreListening, Ignore, Receives, Taken, tables, PortKept, Over, InQueue, InHands, Handled
  <2>4. ASSUME NEW f \in Sock, Found(s, f), Process(s, f, flags) PROVE PortKept'
    <3>1. CASE FinishConnect(s, f, flags)
      BY <3>1 DEF FinishConnect, Answered, Taken, Enters, tables, Receives, PortKept, Over, InQueue, InHands, Handled
    <3>2. CASE EnqueueChild(s, f, flags)
      <4>1. \A t : InQueue(t)' => t = f \/ InQueue(t)
        BY <2>4, <3>2 DEF EnqueueChild, InQueue, ClientsNeverAnswer
      <4>2. /\ state' = state /\ app' = app /\ accepted' = accepted
            /\ state[f] = "SYN_RECV" /\ net' = [net EXCEPT ![Host(f)] = <<"accept", f>>]
            /\ listen_table' = listen_table /\ bind_table' = bind_table
        BY <3>2 DEF EnqueueChild, tables
      <4>3. \A t \in Child : Over(t) => Over(t)'
        BY <4>1, <4>2 DEF Over, InHands, Handled
      <4> QED
        BY <4>2, <4>3, OverStays
    <3>3. CASE AckFin(s, f, flags)
      BY <3>3 DEF AckFin, Answered, Taken, tables, Receives, PortKept, Over, InQueue, InHands, Handled
    <3>4. CASE FinAcked(s, f, flags)
      BY <3>4 DEF FinAcked, Taken, Enters, tables, Receives, PortKept, Over, InQueue, InHands, Handled
    <3>5. CASE EnterTimeWait(s, f, flags)
      BY <3>5 DEF EnterTimeWait, Answered, Taken, Enters, tables, Receives, PortKept, Over, InQueue, InHands, Handled
    <3>6. CASE LastAcked(s, f, flags)
      <4>1. ToSet(listen_table') \subseteq ToSet(listen_table)
        BY <3>6, UnlinkedElements DEF LastAcked, Unhashed
      <4>2. \A t \in Child : Over(t) => Over(t)'
        BY <3>6 DEF LastAcked, Enters, Over, InQueue, InHands, Handled
      <4>3. bind_table' = bind_table /\ app' = app
        BY <3>6 DEF LastAcked
      <4> QED
        BY <4>1, <4>2, <4>3, OverStays
    <3>7. CASE ~Expected(f, flags) /\ Ignore(s)
      BY <3>7 DEF Ignore, Taken, Receives, tables, PortKept, Over, InQueue, InHands, Handled
    <3> QED
      BY <2>4, <3>1, <3>2, <3>3, <3>4, <3>5, <3>6, <3>7 DEF Process
  <2> QED
    BY <2>1, <2>2, <2>3, <2>4
<1> QED
  BY <1>1, <1>2, <1>3, <1>4, <1>5, <1>6, <1>7, <1>8, <1>9, <1>10, <1>11,
     <1>12, <1>13, <1>14, <1>15, <1>16
  DEF Next, Step, Connect, Close

LEMMA PortInductive == Spec => []PortInv
<1>1. PortInv /\ [Next]_vars => PortInv'
  <2>1. PortInv /\ UNCHANGED vars => PortInv'
    BY DEF PortInv, TInv, TypeOK, ClientsNeverAnswer, ClientsBound, OneSyn, QueuedOnce,
           NotYetQueued, LeftAlone, PortKept, Over, InQueue, InHands, Handled, vars, tables
  <2>2. PortInv /\ Next => TInv'
    BY TypeStep, ClientsStep DEF PortInv, TInv
  <2> QED
    BY <2>1, <2>2, ClientsBoundStep, OneSynStep, QueuedOnceStep, NotYetQueuedStep,
       LeftAloneStep, PortKeptStep DEF PortInv
<1> QED
  BY <1>1, PortInit, PTL DEF Spec

(* The port of every socket that packets are looked up by stays bound,     *)
(* with any number of clients and whichever threads meet in a call; only   *)
(* the listening port may go, once a child has left TIME_WAIT.             *)
THEOREM PortsStayBound == Spec => []PortStaysBound
<1>1. PortInv => PortStaysBound
  <2> SUFFICES ASSUME PortInv,
                      NEW s \in (established_table \cup ToSet(listen_table)) \ Child,
                      s \notin bind_table
               PROVE  s = Listener /\ \E t \in Child : state[t] = "CLOSED"
    BY DEF PortStaysBound
  <2> USE DEF PortInv, TInv, TypeOK
  <2>1. CASE s \in established_table
    BY <2>1 DEF ClientsBound
  <2>2. CASE s \in ToSet(listen_table)
    <3>1. s = Listener
      BY <2>2 DEF ToSet
    <3> QED
      BY <2>2, <3>1 DEF PortKept, Over
  <2> QED
    BY <2>1, <2>2
<1> QED
  BY <1>1, PortInductive, PTL
-------------------------------------------------------------------------------
(* Each step of a side leads from one combination to another; q is what    *)
(* the other side has come to, whatever that is.                           *)
LEMMA AppendTwo == ASSUME NEW x, NEW y PROVE Append(<<x>>, y) = <<x, y>>
<1> DEFINE p == Append(<<x>>, y)
           q == <<x, y>>
<1>1. p \in Seq({x, y}) /\ Len(p) = 2 /\ p[1] = x /\ p[2] = y
  <2>1. <<x>> \in Seq({x, y}) /\ Len(<<x>>) = 1
    OBVIOUS
  <2> QED
    BY <2>1
<1>2. q \in Seq({x, y}) /\ Len(q) = 2 /\ q[1] = x /\ q[2] = y
  OBVIOUS
<1> HIDE DEF p, q
<1>3. DOMAIN p = 1 .. 2 /\ DOMAIN q = 1 .. 2
  BY <1>1, <1>2
<1>4. p = q
  BY <1>1, <1>2, <1>3
<1> QED
  BY <1>4 DEF p, q

LEMMA QueueFacts ==
  /\ Append(Nothing, "SYN") = JustSyn /\ Append(Nothing, "SYN|ACK") = JustSynAck
  /\ Append(Nothing, "ACK") = JustAck /\ Append(Nothing, "FIN|ACK") = JustFin
  /\ Append(JustAck, "FIN|ACK") = AckThenFin /\ Append(JustFin, "ACK") = FinThenAck
  /\ Head(JustSyn) = "SYN" /\ Tail(JustSyn) = Nothing
  /\ Head(JustSynAck) = "SYN|ACK" /\ Tail(JustSynAck) = Nothing
  /\ Head(JustAck) = "ACK" /\ Tail(JustAck) = Nothing
  /\ Head(JustFin) = "FIN|ACK" /\ Tail(JustFin) = Nothing
  /\ Head(AckThenFin) = "ACK" /\ Tail(AckThenFin) = JustFin
  /\ Head(FinThenAck) = "FIN|ACK" /\ Tail(FinThenAck) = JustAck
<1>1. \A x : Append(<< >>, x) = <<x>> /\ Head(<<x>>) = x /\ Tail(<<x>>) = << >>
  OBVIOUS
<1>2. \A x, y : Head(<<x, y>>) = x /\ Tail(<<x, y>>) = <<y>>
  OBVIOUS
<1> QED
  BY <1>1, <1>2, AppendTwo, Zenon
  DEF Nothing, JustSyn, JustSynAck, JustAck, JustFin, AckThenFin, FinThenAck

LEMMA AgreeBothWays ==
  ASSUME NEW p, NEW q, NEW a, NEW b
  PROVE  Agree(p, q, a, b) <=> Agree(q, p, b, a)
  BY DEF Agree

LEMMA CloseFirst ==
  ASSUME NEW p, NEW q, NEW a, NEW b, Agree(p, q, a, b),
         p = "open"
  PROVE  Agree("first", q, a, Append(b, "FIN|ACK"))
  BY QueueFacts DEF Agree, Half

LEMMA CloseLast ==
  ASSUME NEW p, NEW q, NEW a, NEW b, Agree(p, q, a, b),
         p = "asked"
  PROVE  Agree("last", q, a, Append(b, "FIN|ACK"))
  BY QueueFacts DEF Agree, Half

LEMMA Opens ==
  ASSUME NEW p, NEW q, NEW a, NEW b, Agree(p, q, a, b),
         p = "idle"
  PROVE  Agree("opening", q, a, Append(b, "SYN")) /\ q = "none"
  BY QueueFacts DEF Agree, Half

LEMMA NoneReceives ==
  ASSUME NEW p, NEW q, NEW a, NEW b, Agree(p, q, a, b),
         p = "none", a # Nothing
  PROVE  /\ Head(a) = "SYN" /\ q = "opening"
         /\ Agree("answering", q, Tail(a), Append(b, "SYN|ACK"))
         /\ Agree("none", q, Tail(a), b)
  BY QueueFacts DEF Agree, Half

LEMMA OpeningReceives ==
  ASSUME NEW p, NEW q, NEW a, NEW b, Agree(p, q, a, b),
         p = "opening", a # Nothing
  PROVE  Head(a) = "SYN|ACK" /\ Agree("open", q, Tail(a), Append(b, "ACK"))
  BY QueueFacts DEF Agree, Half

LEMMA AnsweringReceives ==
  ASSUME NEW p, NEW q, NEW a, NEW b, Agree(p, q, a, b),
         p = "answering", a # Nothing
  PROVE  Head(a) = "ACK" /\ Agree("open", q, Tail(a), b)
  BY QueueFacts DEF Agree, Half

LEMMA OpenReceives ==
  ASSUME NEW p, NEW q, NEW a, NEW b, Agree(p, q, a, b),
         p = "open", a # Nothing
  PROVE  Head(a) = "FIN|ACK" /\ Agree("asked", q, Tail(a), Append(b, "ACK"))
  BY QueueFacts DEF Agree, Half

LEMMA FirstReceives ==
  ASSUME NEW p, NEW q, NEW a, NEW b, Agree(p, q, a, b),
         p = "first", a # Nothing
  PROVE  \/ Head(a) = "ACK" /\ Agree("half", q, Tail(a), b)
         \/ Head(a) = "FIN|ACK" /\ Agree("wait", q, Tail(a), Append(b, "ACK"))
  BY QueueFacts DEF Agree, Half

LEMMA HalfReceives ==
  ASSUME NEW p, NEW q, NEW a, NEW b, Agree(p, q, a, b),
         p = "half", a # Nothing
  PROVE  Head(a) = "FIN|ACK" /\ Agree("wait", q, Tail(a), Append(b, "ACK"))
  BY QueueFacts DEF Agree, Half

LEMMA LastReceives ==
  ASSUME NEW p, NEW q, NEW a, NEW b, Agree(p, q, a, b),
         p = "last", a # Nothing
  PROVE  Head(a) = "ACK" /\ Agree("gone", q, Tail(a), b)
  BY QueueFacts DEF Agree, Half

LEMMA WaitReceives ==
  ASSUME NEW p, NEW q, NEW a, NEW b, Agree(p, q, a, b),
         p = "wait", a # Nothing
  PROVE  Head(a) = "ACK" /\ Agree("wait", q, Tail(a), b)
  BY QueueFacts DEF Agree, Half

LEMMA WaitEnds ==
  ASSUME NEW p, NEW q, NEW a, NEW b, Agree(p, q, a, b),
         p = "wait", a = Nothing, b = Nothing
  PROVE  Agree("gone", q, a, b)
  BY QueueFacts DEF Agree, Half

LEMMA NothingToReceive ==
  ASSUME NEW p, NEW q, NEW a, NEW b, Agree(p, q, a, b),
         p \in {"idle", "asked", "gone"}
  PROVE  a = Nothing
  BY QueueFacts DEF Agree, Half

LEMMA PhaseFacts ==
  ASSUME NEW s \in Sock, TypeOK
  PROVE  /\ state[s] = "NONE" => Phase(s) = "none"
         /\ state[s] = "SYN_SENT" => Phase(s) = "opening"
         /\ state[s] = "LAST_ACK" => Phase(s) = "last"
         /\ state[s] = "FIN_WAIT_1" => Phase(s) = "first"
         /\ state[s] = "FIN_WAIT_2" => Phase(s) = "half"
         /\ state[s] = "TIME_WAIT" => Phase(s) = "wait"
         /\ state[s] = "CLOSED" /\ s \in Child => Phase(s) = "gone"
         /\ state[s] = "CLOSED" /\ s \notin Child =>
              /\ app[Host(s)] = "connect" => Phase(s) = "idle"
              /\ app[Host(s)] = "syn" => Phase(s) = "opening"
              /\ app[Host(s)] \notin {"connect", "syn"} => Phase(s) = "gone"
         /\ state[s] = "SYN_RECV" =>
              /\ net[Host(s)] = <<"accept", s>> => Phase(s) = "open"
              /\ net[Host(s)] # <<"accept", s>> => Phase(s) = "answering"
         /\ state[s] = "ESTABLISHED" =>
              /\ net[Host(s)] = <<"fin", s>> => Phase(s) = "asked"
              /\ net[Host(s)] # <<"fin", s>> /\ Calls(s, "wait1") => Phase(s) = "first"
              /\ net[Host(s)] # <<"fin", s>> /\ ~Calls(s, "wait1") => Phase(s) = "open"
         /\ state[s] = "CLOSE_WAIT" =>
              /\ Calls(s, "last") => Phase(s) = "last"
              /\ ~Calls(s, "last") => Phase(s) = "asked"
  BY DEF Phase

LEMMA PhaseKept ==
  ASSUME NEW s \in Sock, state'[s] = state[s], app'[Host(s)] = app[Host(s)],
         net'[Host(s)] = net[Host(s)], s \in Child => accepted' = accepted
  PROVE  Phase(s)' = Phase(s)
  BY DEF Phase, Calls

LEMMA PhaseOff ==
  ASSUME NEW s \in Child, OffWork(s), state'[s] = state[s]
  PROVE  Phase(s)' = Phase(s)
  BY DEF Phase, OffWork
-------------------------------------------------------------------------------
(* Which child is at work.                                                 *)
LEMMA ActiveChild ==
  ASSUME ServerOK, NEW k \in Child, ~OffWork(k)
  PROVE  Serves(k)
  BY DEF ServerOK, Rests, Serves

LEMMA InHandsChild ==
  ASSUME ServerOK, app[Server] \in {"open", "last", "wait1"}
  PROVE  accepted \in Child /\ Serves(accepted) /\ Held(accepted, app[Server])
<1>1. ~Rests
  BY DEF Rests
<1>2. PICK k \in Child : Serves(k)
  BY <1>1 DEF ServerOK
<1>3. Held(k, app[Server])
  BY <1>2 DEF Serves, AtWork, Queued, Held, Alone
<1> QED
  BY <1>2, <1>3 DEF Held

LEMMA HandledChild ==
  ASSUME ServerOK, NEW k \in Child, net[Server] \in {<<"accept", k>>, <<"fin", k>>}
  PROVE  Serves(k)
<1>1. ~Rests
  BY IdleFacts DEF Rests
<1>2. PICK j \in Child : Serves(j)
  BY <1>1 DEF ServerOK
<1>3. net[Server] \in {<< >>, <<"accept", j>>, <<"fin", j>>}
  BY <1>2 DEF Serves, AtWork
<1>4. j = k
  BY <1>3, IdleFacts
<1> QED
  BY <1>2, <1>4

LEMMA WhoServes ==
  ASSUME ServerOK, listen_table # << >>
  PROVE  \/ Head(listen_table) = Listener /\ Rests /\ app[Server] = "accept"
         \/ \E k \in Child : Head(listen_table) = k /\ Serves(k)
<1>1. CASE Rests
  BY <1>1 DEF Rests
<1>2. CASE \E k \in Child : Serves(k)
  BY <1>2 DEF Serves
<1> QED
  BY <1>1, <1>2 DEF ServerOK

LEMMA ConnInit == Init => CInv
<1> SUFFICES ASSUME Init PROVE CInv
  OBVIOUS
<1> USE SockFacts, ChildFacts
<1>1. Rests
  BY DEF Init, Rests, OffWork, Hosts
<1>2. ASSUME NEW s \in Sock \ Child PROVE ClientOK(s)
  BY DEF Init, ClientOK, NotInTable
<1>3. ASSUME NEW s \in Sock \ Child PROVE Connected(s)
  <2>1. Phase(s) = "idle" /\ Phase(Peer(s)) = "none"
    BY TypeInit, PhaseFacts DEF Init, TInv
  <2>2. to[s] = Nothing /\ to[Peer(s)] = Nothing
    BY DEF Init, Nothing
  <2> QED
    BY <2>1, <2>2 DEF Connected, Agree, Half
<1> QED
  BY <1>1, <1>2, <1>3 DEF Init, CInv, ServerOK

(* A step of a client host, and a step of the server for one child: what   *)
(* they leave alone keeps its place.                                       *)
LEMMA ClientFrame ==
  ASSUME TypeOK, CInv, NEW s \in Sock \ Child,
         \A t \in Sock : t # s => state'[t] = state[t],
         \A h \in Hosts : h # Host(s) => app'[h] = app[h] /\ net'[h] = net[h],
         accepted' = accepted, accept_queue' = accept_queue,
         listen_table' = listen_table, crashed' = crashed,
         \A t \in Sock \ Child : t # s => /\ t \in established_table' <=> t \in established_table
                                          /\ t \in notified' => t \in notified,
         \A t \in Sock : t # s /\ t # Peer(s) => to'[t] = to[t],
         ClientOK(s)', Connected(s)'
  PROVE  CInv'
<1> USE SockFacts, ChildFacts
<1>1. /\ \A t \in Child : state'[t] = state[t]
      /\ app'[Server] = app[Server] /\ net'[Server] = net[Server]
  OBVIOUS
<1>2. ServerOK'
  <2>1. ASSUME NEW k \in Child, Serves(k) PROVE Serves(k)'
    BY <1>1, <2>1 DEF Serves, AtWork, OffWork, Queued, Held, Alone
  <2>2. Rests => Rests'
    BY <1>1 DEF Rests, OffWork
  <2> QED
    BY <2>1, <2>2 DEF CInv, ServerOK
<1>3. ASSUME NEW t \in Sock \ Child, t # s PROVE ClientOK(t)' /\ Connected(t)'
  <2>1. Host(t) # Host(s) /\ Host(t) \in Hosts /\ Peer(t) # s /\ Peer(t) # Peer(s)
    BY <1>3, OneClientPerHost
  <2>2. Phase(t)' = Phase(t) /\ Phase(Peer(t))' = Phase(Peer(t))
    BY <1>1, <1>3, <2>1, PhaseKept
  <2>3. to'[t] = to[t] /\ to'[Peer(t)] = to[Peer(t)]
    BY <1>3, <2>1
  <2>4. Connected(t)'
    BY <2>2, <2>3 DEF CInv, Connected
  <2>5. ClientOK(t)'
    BY <1>3, <2>1 DEF CInv, ClientOK, InTable, NotInTable
  <2> QED
    BY <2>4, <2>5
<1> QED
  BY <1>2, <1>3 DEF CInv

LEMMA ServerFrame ==
  ASSUME TypeOK, CInv, NEW k \in Child,
         \A t \in Sock : t # k => state'[t] = state[t],
         \A t \in Child : t # k =>
           OffWork(t) \/ (app' = app /\ net' = net /\ accepted' = accepted),
         \A h \in Hosts : h # Server => app'[h] = app[h] /\ net'[h] = net[h],
         notified' = notified, crashed' = crashed,
         \A t \in Sock \ Child : t \in established_table' <=> t \in established_table,
         \A t \in Sock : t # k /\ t # Peer(k) => to'[t] = to[t],
         ServerOK', Connected(Peer(k))'
  PROVE  CInv'
<1> USE SockFacts, ChildFacts
<1>1. ASSUME NEW t \in Sock \ Child PROVE ClientOK(t)'
  <2>1. Host(t) \in Hosts /\ Host(t) # Server /\ t # k
    OBVIOUS
  <2> QED
    BY <2>1 DEF CInv, ClientOK, InTable, NotInTable
<1>2. ASSUME NEW t \in Sock \ Child, t # Peer(k) PROVE Connected(t)'
  <2>1. Host(t) # Server /\ Host(t) \in Hosts /\ t # k /\ Peer(t) # k /\ Peer(t) # Peer(k)
    BY <1>2
  <2>2. Phase(t)' = Phase(t)
    BY <2>1, PhaseKept
  <2>3. Phase(Peer(t))' = Phase(Peer(t))
    BY <2>1, PhaseOff, PhaseKept
  <2>4. to'[t] = to[t] /\ to'[Peer(t)] = to[Peer(t)]
    BY <1>2, <2>1
  <2> QED
    BY <2>2, <2>3, <2>4 DEF CInv, Connected
<1> QED
  BY <1>1, <1>2 DEF CInv
-------------------------------------------------------------------------------
(* The steps of a client application.                                      *)
LEMMA SendSyn_Client ==
  ASSUME TypeOK, CInv, NEW s \in Sock \ Child, SendSyn(s)
  PROVE  CInv'
<1> USE SockFacts, ChildFacts
<1>1. NotInTable(s, "connect", "CLOSED") /\ s \notin notified
  BY DEF CInv, ClientOK, InTable, NotInTable, SendSyn, Goes
<1>2. Phase(s) = "idle"
  BY <1>1, PhaseFacts, IdleFacts DEF Calls, InTable, NotInTable
<1>3. Phase(s)' = "opening"
  BY <1>1, IdleFacts DEF Phase, Calls, InTable, NotInTable, SendSyn, Goes, Sends, TypeOK
<1>4. Phase(Peer(s))' = Phase(Peer(s))
  BY PhaseKept DEF SendSyn, Goes, Sends, TypeOK
<1>5. to'[s] = to[s] /\ to'[Peer(s)] = Append(to[Peer(s)], "SYN")
  BY DEF SendSyn, Goes, Sends, TypeOK
<1>6. Connected(s)'
  BY <1>2, <1>3, <1>4, <1>5, Opens DEF CInv, Connected
<1>7. ClientOK(s)'
  BY <1>1 DEF ClientOK, InTable, NotInTable, SendSyn, Goes, Sends, TypeOK
<1> QED
  BY <1>6, <1>7, ClientFrame DEF SendSyn, Goes, Sends, TypeOK

LEMMA EnterSynSent_Client ==
  ASSUME TypeOK, CInv, NEW s \in Sock \ Child, EnterSynSent(s)
  PROVE  CInv'
<1> USE SockFacts, ChildFacts
<1>1. NotInTable(s, "syn", "CLOSED") /\ s \notin notified
  BY DEF CInv, ClientOK, InTable, NotInTable, EnterSynSent, Goes
<1>2. Phase(s) = "opening"
  BY <1>1, PhaseFacts, IdleFacts DEF Calls, InTable, NotInTable
<1>3. Phase(s)' = "opening"
  BY <1>1, IdleFacts DEF Phase, Calls, InTable, NotInTable, EnterSynSent, Goes, Enters, tables, TypeOK
<1>4. Phase(Peer(s))' = Phase(Peer(s))
  BY PhaseKept DEF EnterSynSent, Goes, Enters, tables, TypeOK
<1>5. to'[s] = to[s] /\ to'[Peer(s)] = to[Peer(s)]
  BY DEF EnterSynSent, Goes, Enters, tables, TypeOK
<1>6. Connected(s)'
  BY <1>2, <1>3, <1>4, <1>5 DEF CInv, Connected
<1>7. ClientOK(s)'
  BY <1>1 DEF ClientOK, InTable, NotInTable, EnterSynSent, Goes, Enters, tables, TypeOK
<1> QED
  BY <1>6, <1>7, ClientFrame DEF EnterSynSent, Goes, Enters, tables, TypeOK

LEMMA Hash_Client ==
  ASSUME TypeOK, CInv, NEW s \in Sock \ Child, Hash(s)
  PROVE  CInv'
<1> USE SockFacts, ChildFacts
<1>1. NotInTable(s, "hash", "SYN_SENT") /\ s \notin notified
  BY DEF CInv, ClientOK, InTable, NotInTable, Hash, Goes
<1>2. Phase(s) = "opening"
  BY <1>1, PhaseFacts, IdleFacts DEF Calls, InTable, NotInTable
<1>3. Phase(s)' = "opening"
  BY <1>1, IdleFacts DEF Phase, Calls, InTable, NotInTable, Hash, Goes, TypeOK
<1>4. Phase(Peer(s))' = Phase(Peer(s))
  BY PhaseKept DEF Hash, Goes, TypeOK
<1>5. to'[s] = to[s] /\ to'[Peer(s)] = to[Peer(s)]
  BY DEF Hash, Goes, TypeOK
<1>6. Connected(s)'
  BY <1>2, <1>3, <1>4, <1>5 DEF CInv, Connected
<1>7. ClientOK(s)'
  BY <1>1 DEF ClientOK, InTable, NotInTable, Hash, Goes, TypeOK
<1> QED
  BY <1>6, <1>7, ClientFrame DEF Hash, Goes, TypeOK

LEMMA ConnectReturns_Client ==
  ASSUME TypeOK, CInv, NEW s \in Sock \ Child, ConnectReturns(s)
  PROVE  CInv'
<1> USE SockFacts, ChildFacts
<1>1. /\ state[s] \in {"ESTABLISHED", "CLOSE_WAIT"} /\ s \in established_table
      /\ net[Host(s)] # << >> => net[Host(s)] = <<"fin", s>> /\ state[s] = "ESTABLISHED"
      /\ app[Host(s)] = "sleep"
  BY DEF CInv, ClientOK, InTable, NotInTable, ConnectReturns, Goes
<1>2. Phase(s) = IF state[s] = "ESTABLISHED" /\ net[Host(s)] # <<"fin", s>>
                 THEN "open" ELSE "asked"
  BY <1>1, PhaseFacts, IdleFacts DEF Calls, InTable, NotInTable
<1>3. Phase(s)' = IF state[s] = "ESTABLISHED" /\ net[Host(s)] # <<"fin", s>>
                  THEN "open" ELSE "asked"
  BY <1>1, IdleFacts DEF Phase, Calls, InTable, NotInTable, ConnectReturns, Goes, tables, TypeOK
<1>4. Phase(Peer(s))' = Phase(Peer(s))
  BY PhaseKept DEF ConnectReturns, Goes, tables, TypeOK
<1>5. to'[s] = to[s] /\ to'[Peer(s)] = to[Peer(s)]
  BY DEF ConnectReturns, Goes, tables, TypeOK
<1>6. Connected(s)'
  BY <1>2, <1>3, <1>4, <1>5 DEF CInv, Connected
<1>7. ClientOK(s)'
  BY <1>1 DEF ClientOK, InTable, NotInTable, ConnectReturns, Goes, tables, TypeOK
<1> QED
  BY <1>6, <1>7, ClientFrame DEF ConnectReturns, Goes, tables, TypeOK

LEMMA SendLastFin_Client ==
  ASSUME TypeOK, CInv, NEW s \in Sock \ Child, SendLastFin(s)
  PROVE  CInv'
<1> USE SockFacts, ChildFacts
<1>1. InTable(s, {"open"}, {"CLOSE_WAIT"})
  BY DEF CInv, ClientOK, InTable, NotInTable, SendLastFin, Goes, Meets
<1>2. Phase(s) = "asked"
  BY <1>1, PhaseFacts, IdleFacts DEF Calls, InTable, NotInTable
<1>3. Phase(s)' = "last"
  BY <1>1, IdleFacts DEF Phase, Calls, InTable, NotInTable, SendLastFin, Goes, Sends, Meets, tables, TypeOK
<1>4. Phase(Peer(s))' = Phase(Peer(s))
  BY PhaseKept DEF SendLastFin, Goes, Sends, Meets, tables, TypeOK
<1>5. to'[s] = to[s] /\ to'[Peer(s)] = Append(to[Peer(s)], "FIN|ACK")
  BY DEF SendLastFin, Goes, Sends, Meets, tables, TypeOK
<1>6. Connected(s)'
  BY <1>2, <1>3, <1>4, <1>5, CloseLast DEF CInv, Connected
<1>7. ClientOK(s)'
  BY <1>1 DEF ClientOK, InTable, NotInTable, SendLastFin, Goes, Sends, Meets, tables, TypeOK
<1> QED
  BY <1>6, <1>7, ClientFrame DEF SendLastFin, Goes, Sends, Meets, tables, TypeOK

LEMMA EnterLastAck_Client ==
  ASSUME TypeOK, CInv, NEW s \in Sock \ Child, EnterLastAck(s)
  PROVE  CInv'
<1> USE SockFacts, ChildFacts
<1>1. InTable(s, {"last"}, {"CLOSE_WAIT"})
  BY DEF CInv, ClientOK, InTable, NotInTable, EnterLastAck, Goes
<1>2. Phase(s) = "last"
  BY <1>1, PhaseFacts, IdleFacts DEF Calls, InTable, NotInTable
<1>3. Phase(s)' = "last"
  BY <1>1, IdleFacts DEF Phase, Calls, InTable, NotInTable, EnterLastAck, Goes, Enters, Returns, tables, TypeOK
<1>4. Phase(Peer(s))' = Phase(Peer(s))
  BY PhaseKept DEF EnterLastAck, Goes, Enters, Returns, tables, TypeOK
<1>5. to'[s] = to[s] /\ to'[Peer(s)] = to[Peer(s)]
  BY DEF EnterLastAck, Goes, Enters, Returns, tables, TypeOK
<1>6. Connected(s)'
  BY <1>2, <1>3, <1>4, <1>5 DEF CInv, Connected
<1>7. ClientOK(s)'
  BY <1>1 DEF ClientOK, InTable, NotInTable, EnterLastAck, Goes, Enters, Returns, tables, TypeOK
<1> QED
  BY <1>6, <1>7, ClientFrame DEF EnterLastAck, Goes, Enters, Returns, tables, TypeOK

LEMMA SendFirstFin_Client ==
  ASSUME TypeOK, CInv, NEW s \in Sock \ Child, SendFirstFin(s), overtaken' = {}
  PROVE  CInv'
<1> USE SockFacts, ChildFacts
<1>1. InTable(s, {"open"}, {"ESTABLISHED"})
  BY DEF CInv, ClientOK, InTable, NotInTable, SendFirstFin, Goes, Meets
<1>2. Phase(s) = "open"
  BY <1>1, PhaseFacts, IdleFacts DEF Calls, InTable, NotInTable
<1>3. Phase(s)' = "first"
  BY <1>1, IdleFacts DEF Phase, Calls, InTable, NotInTable, SendFirstFin, Goes, Sends, Meets, tables, TypeOK
<1>4. Phase(Peer(s))' = Phase(Peer(s))
  BY PhaseKept DEF SendFirstFin, Goes, Sends, Meets, tables, TypeOK
<1>5. to'[s] = to[s] /\ to'[Peer(s)] = Append(to[Peer(s)], "FIN|ACK")
  BY DEF SendFirstFin, Goes, Sends, Meets, tables, TypeOK
<1>6. Connected(s)'
  BY <1>2, <1>3, <1>4, <1>5, CloseFirst DEF CInv, Connected
<1>7. ClientOK(s)'
  BY <1>1 DEF ClientOK, InTable, NotInTable, SendFirstFin, Goes, Sends, Meets, tables, TypeOK
<1> QED
  BY <1>6, <1>7, ClientFrame DEF SendFirstFin, Goes, Sends, Meets, tables, TypeOK

LEMMA EnterFinWait1_Client ==
  ASSUME TypeOK, CInv, NEW s \in Sock \ Child, EnterFinWait1(s)
  PROVE  CInv'
<1> USE SockFacts, ChildFacts
<1>1. InTable(s, {"wait1"}, {"ESTABLISHED"})
  BY DEF CInv, ClientOK, InTable, NotInTable, EnterFinWait1, Goes
<1>2. Phase(s) = "first"
  BY <1>1, PhaseFacts, IdleFacts DEF Calls, InTable, NotInTable
<1>3. Phase(s)' = "first"
  BY <1>1, IdleFacts DEF Phase, Calls, InTable, NotInTable, EnterFinWait1, Goes, Enters, Returns, tables, TypeOK
<1>4. Phase(Peer(s))' = Phase(Peer(s))
  BY PhaseKept DEF EnterFinWait1, Goes, Enters, Returns, tables, TypeOK
<1>5. to'[s] = to[s] /\ to'[Peer(s)] = to[Peer(s)]
  BY DEF EnterFinWait1, Goes, Enters, Returns, tables, TypeOK
<1>6. Connected(s)'
  BY <1>2, <1>3, <1>4, <1>5 DEF CInv, Connected
<1>7. ClientOK(s)'
  BY <1>1 DEF ClientOK, InTable, NotInTable, EnterFinWait1, Goes, Enters, Returns, tables, TypeOK
<1> QED
  BY <1>6, <1>7, ClientFrame DEF EnterFinWait1, Goes, Enters, Returns, tables, TypeOK

LEMMA NoCloseAtOnce_Client ==
  ASSUME CInv, NEW s \in Sock \ Child PROVE ~CloseAtOnce(s)
  BY DEF CInv, ClientOK, InTable, NotInTable, CloseAtOnce, Goes

(* The network thread and the timer thread of a client host. *)
LEMMA UnlinkedOther ==
  ASSUME TypeOK, NEW s \in Sock \ Child
  PROVE  Unlinked(listen_table, s) = listen_table
<1>1. \A i \in DOMAIN listen_table : listen_table[i] # s
  BY SockFacts, ChildFacts DEF TypeOK
<1> QED
  BY <1>1 DEF Unlinked

LEMMA Process_Client ==
  ASSUME TypeOK, CInv, overtaken' = {}, NEW s \in Sock \ Child, NEW flags \in Flags,
         Receives(s, flags), s \in established_table, Process(s, s, flags)
  PROVE  CInv'
<1> USE SockFacts, ChildFacts
<1>1. /\ to[s] # Nothing /\ Head(to[s]) = flags /\ net[Host(s)] = << >>
      /\ Agree(Phase(s), Phase(Peer(s)), to[s], to[Peer(s)])
  BY DEF Receives, Nothing, CInv, Connected
<1>2. app[Host(s)] \notin InCall
  BY DEF Process, MeetsCall
<1>3. \/ InTable(s, {"sleep"}, {"SYN_SENT"}) /\ Phase(s) = "opening"
      \/ InTable(s, {"sleep", "open"}, {"ESTABLISHED"}) /\ Phase(s) = "open"
      \/ InTable(s, {"sleep", "open"}, {"CLOSE_WAIT"}) /\ Phase(s) = "asked"
      \/ InTable(s, {"done"}, {"LAST_ACK"}) /\ Phase(s) = "last"
      \/ InTable(s, {"done"}, {"FIN_WAIT_1"}) /\ Phase(s) = "first"
      \/ InTable(s, {"done"}, {"FIN_WAIT_2"}) /\ Phase(s) = "half"
      \/ InTable(s, {"done"}, {"TIME_WAIT"}) /\ Phase(s) = "wait"
  <2>1. ClientOK(s)
    BY DEF CInv
  <2> QED
    BY <1>1, <1>2, <2>1, PhaseFacts, IdleFacts DEF ClientOK, InTable, NotInTable, Calls, InCall
<1>4. \/ to' = Taken(s) \/ to' = Answered(s, s, "ACK")
  BY DEF Process, FinishConnect, EnqueueChild, AckFin, FinAcked, EnterTimeWait, LastAcked, Ignore
<1>5. \A t \in Sock : t # s /\ t # Peer(s) => to'[t] = to[t]
  BY <1>4 DEF Taken, Answered, TypeOK
<1>6. /\ to' = Taken(s) => to'[s] = Tail(to[s]) /\ to'[Peer(s)] = to[Peer(s)]
      /\ to' = Answered(s, s, "ACK") =>
           to'[s] = Tail(to[s]) /\ to'[Peer(s)] = Append(to[Peer(s)], "ACK")
  BY DEF Taken, Answered, TypeOK
<1>7. /\ app' = app /\ accepted' = accepted
      /\ \A h \in Hosts : h # Host(s) => net'[h] = net[h]
      /\ \A t \in Sock : t # s => state'[t] = state[t]
  BY <1>3 DEF Process, FinishConnect, EnqueueChild, AckFin, FinAcked, EnterTimeWait, LastAcked,
              Ignore, Enters, TypeOK, InTable
<1>8. Phase(Peer(s))' = Phase(Peer(s))
  BY <1>7, PhaseKept
<1>9. ASSUME Connected(s)', ClientOK(s)' PROVE CInv'
  <2>1. listen_table' = listen_table /\ accept_queue' = accept_queue /\ crashed' = crashed
    BY <1>3, UnlinkedOther
    DEF Process, FinishConnect, EnqueueChild, AckFin, FinAcked, EnterTimeWait, LastAcked,
        Ignore, Unhashed, tables, InTable
  <2>2. \A t \in Sock \ Child : t # s => /\ t \in established_table' <=> t \in established_table
                                         /\ t \in notified' => t \in notified
    BY DEF Process, FinishConnect, EnqueueChild, AckFin, FinAcked, EnterTimeWait, LastAcked,
           Ignore, Unhashed, tables
  <2> QED
    BY <1>5, <1>7, <1>9, <2>1, <2>2, ClientFrame
<1>10. CASE FinishConnect(s, s, flags)
  <2>1. Phase(s) = "opening"
    BY <1>3, <1>10 DEF FinishConnect, InTable
  <2>2. Phase(s)' = "open"
    BY <1>1, <1>3, <1>10, IdleFacts DEF FinishConnect, InTable, Phase, Calls, Enters, TypeOK
  <2>3. Agree("open", Phase(Peer(s)), Tail(to[s]), Append(to[Peer(s)], "ACK"))
    BY <1>1, <1>10, <2>1, OpeningReceives DEF FinishConnect
  <2>4. to'[s] = Tail(to[s]) /\ to'[Peer(s)] = Append(to[Peer(s)], "ACK")
    BY <1>6, <1>10 DEF FinishConnect
  <2>5. Connected(s)'
    BY <1>8, <2>2, <2>3, <2>4 DEF Connected
  <2>6. ClientOK(s)'
    BY <1>3, <1>10 DEF FinishConnect, ClientOK, InTable, Enters, tables, TypeOK
  <2> QED
    BY <1>9, <2>5, <2>6
<1>11. CASE EnqueueChild(s, s, flags)
  BY <1>3, <1>11 DEF EnqueueChild, InTable
<1>12. CASE AckFin(s, s, flags)
  <2>1. Phase(s) = "open"
    BY <1>3, <1>12 DEF AckFin, InTable
  <2>2. Phase(s)' = "asked"
    BY <1>1, <1>3, <1>12 DEF AckFin, InTable, Phase, TypeOK
  <2>3. Agree("asked", Phase(Peer(s)), Tail(to[s]), Append(to[Peer(s)], "ACK"))
    BY <1>1, <1>12, <2>1, OpenReceives DEF AckFin
  <2>4. to'[s] = Tail(to[s]) /\ to'[Peer(s)] = Append(to[Peer(s)], "ACK")
    BY <1>6, <1>12 DEF AckFin
  <2>5. Connected(s)'
    BY <1>8, <2>2, <2>3, <2>4 DEF Connected
  <2>6. ClientOK(s)'
    BY <1>3, <1>12 DEF AckFin, ClientOK, InTable, tables, TypeOK
  <2> QED
    BY <1>9, <2>5, <2>6
<1>13. CASE FinAcked(s, s, flags)
  <2>1. Phase(s) = "first"
    BY <1>3, <1>13 DEF FinAcked, InTable
  <2>2. Phase(s)' = "half"
    BY <1>3, <1>13 DEF FinAcked, InTable, Phase, Enters, TypeOK
  <2>3. Connected(s)'
    BY <1>1, <1>6, <1>8, <1>13, <2>1, <2>2, FirstReceives DEF FinAcked, Connected
  <2>4. ClientOK(s)'
    BY <1>3, <1>13 DEF FinAcked, ClientOK, InTable, Enters, tables, TypeOK
  <2> QED
    BY <1>9, <2>3, <2>4
<1>14. CASE EnterTimeWait(s, s, flags)
  <2>1. Phase(s) \in {"first", "half"}
    BY <1>3, <1>14 DEF EnterTimeWait, InTable
  <2>2. Phase(s)' = "wait"
    BY <1>3, <1>14 DEF EnterTimeWait, InTable, Phase, Enters, TypeOK
  <2>3. Agree("wait", Phase(Peer(s)), Tail(to[s]), Append(to[Peer(s)], "ACK"))
    BY <1>1, <1>14, <2>1, FirstReceives, HalfReceives DEF EnterTimeWait
  <2>4. to'[s] = Tail(to[s]) /\ to'[Peer(s)] = Append(to[Peer(s)], "ACK")
    BY <1>6, <1>14 DEF EnterTimeWait
  <2>5. Connected(s)'
    BY <1>8, <2>2, <2>3, <2>4 DEF Connected
  <2>6. ClientOK(s)'
    BY <1>3, <1>14 DEF EnterTimeWait, ClientOK, InTable, Enters, tables, TypeOK
  <2> QED
    BY <1>9, <2>5, <2>6
<1>15. CASE LastAcked(s, s, flags)
  <2>1. Phase(s) = "last"
    BY <1>3, <1>15 DEF LastAcked, InTable
  <2>2. Phase(s)' = "gone"
    BY <1>3, <1>15 DEF LastAcked, InTable, Phase, Enters, TypeOK
  <2>3. Connected(s)'
    BY <1>1, <1>6, <1>8, <1>15, <2>1, <2>2, LastReceives DEF LastAcked, Connected
  <2>4. ClientOK(s)'
    BY <1>3, <1>15 DEF LastAcked, ClientOK, InTable, NotInTable, Unhashed, Enters, TypeOK
  <2> QED
    BY <1>9, <2>3, <2>4
<1>16. CASE ~Expected(s, flags) /\ Ignore(s)
  <2>1. state' = state /\ net' = net /\ established_table' = established_table
    BY <1>16 DEF Ignore, tables
  <2>2. state[s] = "TIME_WAIT" /\ Phase(s) = "wait"
    BY <1>1, <1>3, <1>16, OpeningReceives, OpenReceives, NothingToReceive, LastReceives,
       FirstReceives, HalfReceives DEF Expected, InTable
  <2>3. Phase(s)' = "wait"
    BY <1>7, <2>1, <2>2 DEF Phase
  <2>4. Connected(s)'
    BY <1>1, <1>6, <1>8, <1>16, <2>2, <2>3, WaitReceives DEF Ignore, Connected
  <2>5. ClientOK(s)'
    BY <1>3, <1>7, <2>1, <2>2 DEF ClientOK, InTable
  <2> QED
    BY <1>9, <2>4, <2>5
<1> QED
  BY <1>10, <1>11, <1>12, <1>13, <1>14, <1>15, <1>16 DEF Process

LEMMA Handle_Client ==
  ASSUME TypeOK, CInv, overtaken' = {}, NEW s \in Sock \ Child, Handle(s)
  PROVE  CInv'
<1> USE SockFacts, ChildFacts
<1>1. PICK flags \in Flags :
        /\ Receives(s, flags)
        /\ \/ Crash(s, flags)
           \/ SpawnChild(s, flags) \/ IgnoreListening(s, flags)
           \/ \E f \in Sock : Found(s, f) /\ Process(s, f, flags)
  BY DEF Handle, Flags
<1>2. ~SpawnChild(s, flags) /\ ~IgnoreListening(s, flags)
  BY DEF SpawnChild, IgnoreListening, Found
<1>3. ASSUME Crash(s, flags) PROVE FALSE
  <2>1. s \notin established_table /\ app[Host(s)] \notin InCall
    BY <1>3 DEF Crash, Found
  <2>2. NotInTable(s, "connect", "CLOSED") \/ NotInTable(s, "done", "CLOSED")
    BY <2>1 DEF CInv, ClientOK, InTable, NotInTable, InCall
  <2>3. Phase(s) \in {"idle", "gone"}
    BY <2>2, PhaseFacts DEF NotInTable
  <2>4. to[s] = Nothing
    BY <2>3, NothingToReceive DEF CInv, Connected
  <2> QED
    BY <1>1, <2>4 DEF Receives, Nothing
<1>4. PICK f \in Sock : Found(s, f) /\ Process(s, f, flags)
  BY <1>1, <1>2, <1>3
<1> QED
  BY <1>1, <1>4, FoundFacts, Process_Client

LEMMA EnterCloseWait_Client ==
  ASSUME TypeOK, CInv, NEW s \in Sock \ Child, EnterCloseWait(s)
  PROVE  CInv'
<1> USE SockFacts, ChildFacts
<1>1. /\ app[Host(s)] \in {"sleep", "open"} /\ state[s] = "ESTABLISHED"
      /\ s \in established_table /\ net[Host(s)] = <<"fin", s>>
  BY IdleFacts DEF EnterCloseWait, CInv, ClientOK, InTable, NotInTable
<1>2. Phase(s) = "asked"
  BY <1>1, PhaseFacts
<1>3. Phase(s)' = "asked"
  BY <1>1 DEF EnterCloseWait, Enters, Phase, Calls, TypeOK
<1>4. Phase(Peer(s))' = Phase(Peer(s))
  BY PhaseKept DEF EnterCloseWait, Enters, TypeOK
<1>5. Connected(s)'
  BY <1>2, <1>3, <1>4 DEF EnterCloseWait, CInv, Connected
<1>6. ClientOK(s)'
  BY <1>1 DEF EnterCloseWait, Enters, tables, ClientOK, InTable, TypeOK
<1> QED
  BY <1>5, <1>6, ClientFrame DEF EnterCloseWait, Enters, tables, TypeOK

LEMMA NoEstablishChild_Client ==
  ASSUME CInv, NEW s \in Sock \ Child PROVE ~EstablishChild(s)
  BY IdleFacts DEF EstablishChild, CInv, ClientOK, InTable, NotInTable

LEMMA Expire_Client ==
  ASSUME TypeOK, CInv, NEW s \in Sock \ Child, Expire(s)
  PROVE  CInv'
<1> USE SockFacts, ChildFacts
<1>1. /\ InTable(s, {"done"}, {"TIME_WAIT"})
      /\ to[s] = Nothing /\ to[Peer(s)] = Nothing
  BY DEF Expire, Due, CInv, ClientOK, InTable, NotInTable, Nothing
<1>2. Phase(s) = "wait"
  BY <1>1, PhaseFacts DEF InTable
<1>3. Phase(s)' = "gone"
  BY <1>1 DEF InTable, Expire, Enters, Phase, TypeOK
<1>4. Phase(Peer(s))' = Phase(Peer(s))
  BY PhaseKept DEF Expire, Enters, TypeOK
<1>5. Connected(s)'
  BY <1>1, <1>2, <1>3, <1>4, WaitEnds DEF Expire, CInv, Connected
<1>6. ClientOK(s)'
  BY <1>1 DEF Expire, Enters, Unhashed, ClientOK, InTable, NotInTable, TypeOK
<1>7. listen_table' = listen_table
  BY UnlinkedOther DEF Expire, Unhashed
<1> QED
  BY <1>5, <1>6, <1>7, ClientFrame DEF Expire, Enters, Unhashed, TypeOK
-------------------------------------------------------------------------------
(* The steps of the server application.                                    *)
LEMMA RestFrame ==
  ASSUME TypeOK, CInv, Rests, Rests',
         state' = state, net' = net, to' = to, notified' = notified, crashed' = crashed,
         established_table' = established_table,
         \A h \in Hosts : h # Server => app'[h] = app[h]
  PROVE  CInv'
<1> USE SockFacts, ChildFacts
<1>1. ASSUME NEW t \in Sock \ Child PROVE ClientOK(t)' /\ Connected(t)'
  <2>1. Host(t) \in Hosts /\ Host(t) # Server /\ Peer(t) \in Child
    OBVIOUS
  <2>2. Phase(t)' = Phase(t) /\ Phase(Peer(t))' = Phase(Peer(t))
    BY <2>1, PhaseKept, PhaseOff DEF Rests
  <2> QED
    BY <2>1, <2>2 DEF CInv, Connected, ClientOK, InTable, NotInTable
<1> QED
  BY <1>1 DEF CInv, ServerOK

LEMMA BindListen ==
  ASSUME TypeOK, CInv, Bind \/ Listen
  PROVE  CInv'
<1>1. app[Server] \in {"bind", "listen"}
  BY DEF Bind, Listen, Goes
<1>2. Rests /\ listen_table = << >>
  BY <1>1 DEF CInv, ServerOK, Serves, AtWork, Queued, Held, Alone, Rests
<1>3. Rests'
  BY <1>1, <1>2 DEF Bind, Listen, Goes, Rests, OffWork, TypeOK, Hosts
<1> QED
  BY <1>2, <1>3, RestFrame DEF Bind, Listen, Goes, TypeOK

LEMMA AcceptStep ==
  ASSUME TypeOK, CInv, Accept
  PROVE  CInv'
<1> USE SockFacts, ChildFacts
<1>1. PICK k \in Child : Serves(k)
  BY DEF Accept, CInv, ServerOK, Rests
<1>2. Queued(k) /\ state[k] \in {"SYN_RECV", "ESTABLISHED", "CLOSE_WAIT"}
  BY <1>1 DEF Accept, Serves, AtWork, Held, Alone, Goes, Queued
<1>3. Held(k, "open")'
  BY <1>2 DEF Accept, Queued, Held, Goes, TypeOK
<1>4. state' = state /\ net' = net /\ listen_table' = listen_table
  BY DEF Accept, tables
<1>5. Serves(k)'
  BY <1>1, <1>2, <1>3, <1>4 DEF Serves, AtWork, OffWork, Queued, Held, Alone
<1>6. Phase(k)' = Phase(k)
  BY <1>2, <1>3, <1>4 DEF Phase, Calls, Queued, Held
<1>7. Phase(Peer(k))' = Phase(Peer(k))
  BY <1>4, PhaseKept DEF Accept, Goes, TypeOK
<1>8. Connected(Peer(k))'
  BY <1>6, <1>7 DEF Accept, CInv, Connected
<1> QED
  BY <1>1, <1>4, <1>5, <1>8, ServerFrame DEF Accept, Goes, tables, TypeOK, Serves, ServerOK

(* What a step of the child at work has to show. *)
LEMMA ChildMoves ==
  ASSUME TypeOK, CInv, NEW k \in Child, Serves(k), Serves(k)' \/ Rests',
         \A t \in Sock : t # k => state'[t] = state[t],
         \A h \in Hosts : h # Server => app'[h] = app[h] /\ net'[h] = net[h],
         notified' = notified, crashed' = crashed,
         \A t \in Sock \ Child : t \in established_table' <=> t \in established_table,
         \A t \in Sock : t # k /\ t # Peer(k) => to'[t] = to[t],
         Agree(Phase(k)', Phase(Peer(k)), to'[k], to'[Peer(k)])
  PROVE  CInv'
<1> USE SockFacts, ChildFacts
<1>1. Phase(Peer(k))' = Phase(Peer(k))
  BY PhaseKept
<1>2. Connected(Peer(k))'
  BY <1>1, AgreeBothWays DEF Connected
<1> QED
  BY <1>2, ServerFrame DEF Serves, ServerOK

LEMMA ServesFacts ==
  ASSUME CInv, NEW k \in Child
  PROVE  Agree(Phase(k), Phase(Peer(k)), to[k], to[Peer(k)])
  BY SockFacts, ChildFacts, AgreeBothWays DEF CInv, Connected

LEMMA SendLastFin_Server ==
  ASSUME TypeOK, CInv, NEW s \in Child, accepted = s, SendLastFin(s)
  PROVE  CInv'
<1> USE SockFacts, ChildFacts
<1>1. Serves(s) /\ Held(s, "open")
  BY InHandsChild DEF SendLastFin, Goes, CInv
<1>2. state[s] = "CLOSE_WAIT" /\ net[Server] = << >>
  BY <1>1, IdleFacts DEF Serves, AtWork, Held, Queued, Alone, SendLastFin, Goes, Sends, Meets, tables
<1>3. Phase(s) = "asked"
  BY <1>1, <1>2, PhaseFacts, IdleFacts DEF Calls, Held
<1>4. state'[s] = "CLOSE_WAIT" /\ net' = net /\ Held(s, "last")'
  BY <1>1, <1>2 DEF SendLastFin, Goes, Sends, Meets, tables, Held, Alone, TypeOK
<1>5. Phase(s)' = "last"
  BY <1>2, <1>4, IdleFacts DEF Phase, Calls, Held
<1>6. /\ \A t \in Sock : t # s => state'[t] = state[t]
      /\ listen_table' = listen_table
  BY DEF SendLastFin, Goes, Sends, Meets, tables, TypeOK
<1>7. Serves(s)'
  BY <1>1, <1>2, <1>4, <1>6 DEF Serves, AtWork, OffWork
<1>8. to'[s] = to[s] /\ to'[Peer(s)] = Append(to[Peer(s)], "FIN|ACK")
  BY DEF SendLastFin, Goes, Sends, Meets, tables, TypeOK
<1>9. Agree(Phase(s)', Phase(Peer(s)), to'[s], to'[Peer(s)])
  BY <1>3, <1>5, <1>8, ServesFacts, CloseLast
<1> QED
  BY <1>1, <1>6, <1>7, <1>9, ChildMoves DEF SendLastFin, Goes, Sends, Meets, tables, TypeOK

LEMMA EnterLastAck_Server ==
  ASSUME TypeOK, CInv, NEW s \in Child, accepted = s, EnterLastAck(s)
  PROVE  CInv'
<1> USE SockFacts, ChildFacts
<1>1. Serves(s) /\ Held(s, "last")
  BY InHandsChild DEF EnterLastAck, Goes, CInv
<1>2. state[s] = "CLOSE_WAIT" /\ net[Server] = << >>
  BY <1>1 DEF Serves, AtWork, Held, Queued, Alone, EnterLastAck, Goes, Enters, Returns, tables
<1>3. Phase(s) = "last"
  BY <1>1, <1>2, PhaseFacts, IdleFacts DEF Calls, Held
<1>4. state'[s] = "LAST_ACK" /\ net' = net /\ Alone'
  BY <1>1, <1>2 DEF EnterLastAck, Goes, Enters, Returns, tables, Held, Alone, TypeOK
<1>5. Phase(s)' = "last"
  BY <1>2, <1>4, IdleFacts DEF Phase, Calls, Held
<1>6. /\ \A t \in Sock : t # s => state'[t] = state[t]
      /\ listen_table' = listen_table
  BY DEF EnterLastAck, Goes, Enters, Returns, tables, TypeOK
<1>7. Serves(s)'
  BY <1>1, <1>2, <1>4, <1>6 DEF Serves, AtWork, OffWork
<1>8. to'[s] = to[s] /\ to'[Peer(s)] = to[Peer(s)]
  BY DEF EnterLastAck, Goes, Enters, Returns, tables, TypeOK
<1>9. Agree(Phase(s)', Phase(Peer(s)), to'[s], to'[Peer(s)])
  BY <1>3, <1>5, <1>8, ServesFacts
<1> QED
  BY <1>1, <1>6, <1>7, <1>9, ChildMoves DEF EnterLastAck, Goes, Enters, Returns, tables, TypeOK

LEMMA SendFirstFin_Server ==
  ASSUME TypeOK, CInv, NEW s \in Child, accepted = s, SendFirstFin(s), overtaken' = {}
  PROVE  CInv'
<1> USE SockFacts, ChildFacts
<1>1. Serves(s) /\ Held(s, "open")
  BY InHandsChild DEF SendFirstFin, Goes, CInv
<1>2. state[s] = "ESTABLISHED" /\ net[Server] = << >>
  BY <1>1, IdleFacts DEF Serves, AtWork, Held, Queued, Alone, SendFirstFin, Goes, Sends, Meets, tables
<1>3. Phase(s) = "open"
  BY <1>1, <1>2, PhaseFacts, IdleFacts DEF Calls, Held
<1>4. state'[s] = "ESTABLISHED" /\ net' = net /\ Held(s, "wait1")'
  BY <1>1, <1>2 DEF SendFirstFin, Goes, Sends, Meets, tables, Held, Alone, TypeOK
<1>5. Phase(s)' = "first"
  BY <1>2, <1>4, IdleFacts DEF Phase, Calls, Held
<1>6. /\ \A t \in Sock : t # s => state'[t] = state[t]
      /\ listen_table' = listen_table
  BY DEF SendFirstFin, Goes, Sends, Meets, tables, TypeOK
<1>7. Serves(s)'
  BY <1>1, <1>2, <1>4, <1>6 DEF Serves, AtWork, OffWork
<1>8. to'[s] = to[s] /\ to'[Peer(s)] = Append(to[Peer(s)], "FIN|ACK")
  BY DEF SendFirstFin, Goes, Sends, Meets, tables, TypeOK
<1>9. Agree(Phase(s)', Phase(Peer(s)), to'[s], to'[Peer(s)])
  BY <1>3, <1>5, <1>8, ServesFacts, CloseFirst
<1> QED
  BY <1>1, <1>6, <1>7, <1>9, ChildMoves DEF SendFirstFin, Goes, Sends, Meets, tables, TypeOK

LEMMA EnterFinWait1_Server ==
  ASSUME TypeOK, CInv, NEW s \in Child, accepted = s, EnterFinWait1(s)
  PROVE  CInv'
<1> USE SockFacts, ChildFacts
<1>1. Serves(s) /\ Held(s, "wait1")
  BY InHandsChild DEF EnterFinWait1, Goes, CInv
<1>2. state[s] = "ESTABLISHED" /\ net[Server] = << >>
  BY <1>1 DEF Serves, AtWork, Held, Queued, Alone, EnterFinWait1, Goes, Enters, Returns, tables
<1>3. Phase(s) = "first"
  BY <1>1, <1>2, PhaseFacts, IdleFacts DEF Calls, Held
<1>4. state'[s] = "FIN_WAIT_1" /\ net' = net /\ Alone'
  BY <1>1, <1>2 DEF EnterFinWait1, Goes, Enters, Returns, tables, Held, Alone, TypeOK
<1>5. Phase(s)' = "first"
  BY <1>2, <1>4, IdleFacts DEF Phase, Calls, Held
<1>6. /\ \A t \in Sock : t # s => state'[t] = state[t]
      /\ listen_table' = listen_table
  BY DEF EnterFinWait1, Goes, Enters, Returns, tables, TypeOK
<1>7. Serves(s)'
  BY <1>1, <1>2, <1>4, <1>6 DEF Serves, AtWork, OffWork
<1>8. to'[s] = to[s] /\ to'[Peer(s)] = to[Peer(s)]
  BY DEF EnterFinWait1, Goes, Enters, Returns, tables, TypeOK
<1>9. Agree(Phase(s)', Phase(Peer(s)), to'[s], to'[Peer(s)])
  BY <1>3, <1>5, <1>8, ServesFacts
<1> QED
  BY <1>1, <1>6, <1>7, <1>9, ChildMoves DEF EnterFinWait1, Goes, Enters, Returns, tables, TypeOK

LEMMA NoCloseAtOnce_Server ==
  ASSUME TypeOK, CInv, NEW s \in Child, accepted = s, CloseAtOnce(s), overtaken' = {}
  PROVE  FALSE
<1>1. Serves(s) /\ Held(s, "open") /\ Host(s) = Server
  BY InHandsChild, SockFacts, ChildFacts DEF CloseAtOnce, Goes, CInv
<1>2. net[Server] = <<"accept", s>>
  BY <1>1 DEF Serves, AtWork, CloseAtOnce, Held, Queued, Alone
<1> QED
  BY <1>1, <1>2 DEF CloseAtOnce, Meets

(* The network thread and the timer thread of the server.                  *)
LEMMA EstablishChild_Server ==
  ASSUME TypeOK, CInv, NEW s \in Child, EstablishChild(s)
  PROVE  CInv'
<1> USE SockFacts, ChildFacts
<1>1. Serves(s) /\ net[Server] = <<"accept", s>>
  BY HandledChild DEF EstablishChild, CInv
<1>2. state[s] = "SYN_RECV" /\ (Queued(s) \/ Held(s, "open"))
  BY <1>1, IdleFacts DEF Serves, AtWork
<1>3. Phase(s) = "open"
  BY <1>1, <1>2, PhaseFacts
<1>4. state'[s] = "ESTABLISHED" /\ net'[Server] = << >> /\ (Queued(s)' \/ Held(s, "open")')
  BY <1>2 DEF EstablishChild, Enters, Queued, Held, TypeOK
<1>5. Phase(s)' = "open"
  BY <1>4, IdleFacts DEF Phase, Calls, Queued, Held
<1>6. Serves(s)'
  BY <1>1, <1>4 DEF Serves, AtWork, OffWork, EstablishChild, Enters, tables, TypeOK
<1>7. Agree(Phase(s)', Phase(Peer(s)), to'[s], to'[Peer(s)])
  BY <1>3, <1>5, ServesFacts DEF EstablishChild
<1> QED
  BY <1>1, <1>6, <1>7, ChildMoves DEF EstablishChild, Enters, tables, TypeOK

LEMMA EnterCloseWait_Server ==
  ASSUME TypeOK, CInv, NEW s \in Child, EnterCloseWait(s)
  PROVE  CInv'
<1> USE SockFacts, ChildFacts
<1>1. Serves(s) /\ net[Server] = <<"fin", s>>
  BY HandledChild DEF EnterCloseWait, CInv
<1>2. state[s] = "ESTABLISHED" /\ (Queued(s) \/ Held(s, "open"))
  BY <1>1, IdleFacts DEF Serves, AtWork
<1>3. Phase(s) = "asked"
  BY <1>1, <1>2, PhaseFacts
<1>4. state'[s] = "CLOSE_WAIT" /\ net'[Server] = << >> /\ (Queued(s)' \/ Held(s, "open")')
  BY <1>2 DEF EnterCloseWait, Enters, Queued, Held, TypeOK
<1>5. Phase(s)' = "asked"
  BY <1>4 DEF Phase, Calls, Queued, Held
<1>6. Serves(s)'
  BY <1>1, <1>4 DEF Serves, AtWork, OffWork, EnterCloseWait, Enters, tables, TypeOK
<1>7. Agree(Phase(s)', Phase(Peer(s)), to'[s], to'[Peer(s)])
  BY <1>3, <1>5, ServesFacts DEF EnterCloseWait
<1> QED
  BY <1>1, <1>6, <1>7, ChildMoves DEF EnterCloseWait, Enters, tables, TypeOK

LEMMA ConcatTwo == ASSUME NEW x, NEW y PROVE <<x>> \o <<y>> = <<x, y>>
<1> DEFINE p == <<x>> \o <<y>>
           q == <<x, y>>
<1>1. p \in Seq({x, y}) /\ Len(p) = 2 /\ p[1] = x /\ p[2] = y
  <2>1. <<x>> \in Seq({x, y}) /\ Len(<<x>>) = 1 /\ <<y>> \in Seq({x, y}) /\ Len(<<y>>) = 1
    OBVIOUS
  <2> QED
    BY <2>1
<1>2. q \in Seq({x, y}) /\ Len(q) = 2 /\ q[1] = x /\ q[2] = y
  OBVIOUS
<1> HIDE DEF p, q
<1>3. DOMAIN p = 1 .. 2 /\ DOMAIN q = 1 .. 2
  BY <1>1, <1>2
<1>4. p = q
  BY <1>1, <1>2, <1>3
<1> QED
  BY <1>4 DEF p, q

LEMMA RemoveTwo == ASSUME NEW x, NEW y PROVE RemoveAt(<<x, y>>, 1) = <<y>>
<1> DEFINE q == <<x, y>>
<1>1. q \in Seq({x, y}) /\ q # << >> /\ Tail(q) = <<y>>
  OBVIOUS
<1> HIDE DEF q
<1>2. SubSeq(q, 1, 0) = << >> /\ SubSeq(q, 2, Len(q)) = Tail(q)
  BY <1>1, SubSeqEmpty, TailIsSubSeq
<1>3. Tail(q) \in Seq({x, y})
  BY <1>1
<1>4. << >> \o Tail(q) = Tail(q)
  BY <1>3, ConcatEmptySeq
<1>5. 1 - 1 = 0 /\ 1 + 1 = 2
  OBVIOUS
<1>6. RemoveAt(q, 1) = SubSeq(q, 1, 0) \o SubSeq(q, 2, Len(q))
  BY <1>5 DEF RemoveAt
<1> QED
  BY <1>1, <1>2, <1>4, <1>6 DEF q

(* The child that is deleted from the bucket is its first node.            *)
LEMMA UnlinkedFirst ==
  ASSUME NEW k \in Child, listen_table = <<k, Listener>>
  PROVE  Unlinked(listen_table, k) = <<Listener>>
<1> DEFINE list == listen_table
           i == CHOOSE i \in DOMAIN list : list[i] = k
<1>1. DOMAIN list = 1 .. 2 /\ list[1] = k /\ list[2] # k
  BY SockFacts, ChildFacts
<1>2. i = 1
  BY <1>1
<1>3. Unlinked(list, k) = RemoveAt(list, 1)
  BY <1>1, <1>2 DEF Unlinked
<1> HIDE DEF i
<1>4. RemoveAt(<<k, Listener>>, 1) = <<Listener>>
  BY RemoveTwo
<1> QED
  BY <1>3, <1>4

LEMMA Closed_Server ==
  ASSUME TypeOK, CInv, NEW s \in Child, Serves(s), net[Server] = << >>, Alone,
         Phase(s) \in {"last", "wait"}, Agree("gone", Phase(Peer(s)), to'[s], to'[Peer(s)]),
         Enters(s, "CLOSED"), Unhashed(s),
         UNCHANGED <<notified, accept_queue, app, accepted, net, crashed>>,
         \A t \in Sock : t # s /\ t # Peer(s) => to'[t] = to[t]
  PROVE  CInv'
<1> USE SockFacts, ChildFacts
<1>1. listen_table' = <<Listener>>
  BY UnlinkedFirst DEF Unhashed, Serves
<1>2. /\ \A t \in Sock : t # s => state'[t] = state[t]
      /\ state'[s] = "CLOSED"
  BY DEF Enters, TypeOK
<1>3. Rests'
  BY <1>1, <1>2 DEF Serves, Rests, OffWork, Alone
<1>4. Phase(s)' = "gone"
  BY <1>2 DEF Phase
<1>5. \A t \in Sock \ Child : t \in established_table' <=> t \in established_table
  BY DEF Unhashed
<1> QED
  BY <1>2, <1>3, <1>4, <1>5, ChildMoves

LEMMA Expire_Server ==
  ASSUME TypeOK, CInv, NEW s \in Child, Expire(s)
  PROVE  CInv'
<1> USE SockFacts, ChildFacts
<1>1. state[s] = "TIME_WAIT" /\ to[s] = Nothing /\ to[Peer(s)] = Nothing
  BY DEF Expire, Due, Nothing
<1>2. Serves(s) /\ net[Server] = << >> /\ Alone
  <2>1. Serves(s)
    BY <1>1, ActiveChild DEF OffWork, CInv
  <2> QED
    BY <1>1, <2>1 DEF Serves, AtWork
<1>3. Phase(s) = "wait"
  BY <1>1, PhaseFacts
<1>4. Agree("gone", Phase(Peer(s)), to[s], to[Peer(s)])
  BY <1>1, <1>3, ServesFacts, WaitEnds
<1> QED
  BY <1>2, <1>3, <1>4, Closed_Server DEF Expire

LEMMA Spawn_Server ==
  ASSUME TypeOK, CInv, NEW s \in Child, NEW flags \in Flags,
         Receives(s, flags), SpawnChild(s, flags), Rests, listen_table = <<Listener>>
  PROVE  CInv'
<1> USE SockFacts, ChildFacts
<1>1. Phase(s) \in {"none", "gone"} /\ to[s] # Nothing
  BY PhaseFacts DEF Rests, OffWork, Receives, Nothing
<1>2. Phase(s) = "none"
  BY <1>1, NothingToReceive, ServesFacts
<1>3. Agree("answering", Phase(Peer(s)), Tail(to[s]), Append(to[Peer(s)], "SYN|ACK"))
  BY <1>1, <1>2, NoneReceives, ServesFacts
<1>4. to'[s] = Tail(to[s]) /\ to'[Peer(s)] = Append(to[Peer(s)], "SYN|ACK")
  BY DEF SpawnChild, Spawn, Answered, Taken, TypeOK
<1>5. /\ state'[s] = "SYN_RECV" /\ \A t \in Sock : t # s => state'[t] = state[t]
      /\ net' = net /\ app' = app /\ accepted' = accepted /\ accept_queue' = accept_queue
      /\ notified' = notified /\ crashed' = crashed /\ established_table' = established_table
      /\ \A t \in Sock : t # s /\ t # Peer(s) => to'[t] = to[t]
  BY DEF SpawnChild, Spawn, Enters, Answered, Taken, TypeOK
<1>6. listen_table' = <<s, Listener>>
  <2>1. listen_table' = <<s>> \o <<Listener>>
    BY DEF SpawnChild, Spawn
  <2> QED
    BY <2>1, ConcatTwo
<1>7. Serves(s)'
  BY <1>5, <1>6 DEF Serves, AtWork, OffWork, Alone, Rests
<1>8. Phase(s)' = "answering"
  BY <1>5, IdleFacts DEF Phase, Rests
<1>9. Phase(Peer(s))' = Phase(Peer(s))
  BY <1>5, PhaseKept
<1>10. Connected(Peer(s))'
  BY <1>3, <1>4, <1>8, <1>9, AgreeBothWays DEF Connected
<1> QED
  BY <1>5, <1>7, <1>10, ServerFrame DEF Rests, ServerOK

LEMMA Process_Server ==
  ASSUME TypeOK, CInv, overtaken' = {}, NEW s \in Child, NEW flags \in Flags,
         Receives(s, flags), Serves(s), Process(s, s, flags)
  PROVE  CInv'
<1> USE SockFacts, ChildFacts
<1>1. /\ to[s] # Nothing /\ Head(to[s]) = flags /\ net[Server] = << >>
      /\ Agree(Phase(s), Phase(Peer(s)), to[s], to[Peer(s)])
  BY ServesFacts DEF Receives, Nothing
<1>2. ~(app[Server] \in InCall /\ accepted = s)
  BY DEF Process, MeetsCall
<1>3. \/ state[s] = "SYN_RECV" /\ Alone /\ Phase(s) = "answering"
      \/ state[s] = "ESTABLISHED" /\ (Queued(s) \/ Held(s, "open")) /\ Phase(s) = "open"
      \/ state[s] = "CLOSE_WAIT" /\ (Queued(s) \/ Held(s, "open")) /\ Phase(s) = "asked"
      \/ state[s] = "LAST_ACK" /\ Alone /\ Phase(s) = "last"
      \/ state[s] = "FIN_WAIT_1" /\ Alone /\ Phase(s) = "first"
      \/ state[s] = "FIN_WAIT_2" /\ Alone /\ Phase(s) = "half"
      \/ state[s] = "TIME_WAIT" /\ Alone /\ Phase(s) = "wait"
  <2>1. AtWork(s)
    BY DEF Serves
  <2>2. \/ state[s] = "SYN_RECV" /\ Alone
        \/ state[s] = "ESTABLISHED" /\ (Queued(s) \/ Held(s, "open"))
        \/ state[s] = "CLOSE_WAIT" /\ (Queued(s) \/ Held(s, "open"))
        \/ state[s] \in {"LAST_ACK", "FIN_WAIT_1", "FIN_WAIT_2", "TIME_WAIT"} /\ Alone
    BY <1>1, <1>2, <2>1, IdleFacts DEF AtWork, Held, InCall
  <2>3. net[Host(s)] = << >>
    BY <1>1
  <2> QED
    BY <2>2, <2>3, PhaseFacts, IdleFacts DEF Calls, Alone, Queued, Held
<1>4. \/ to' = Taken(s) \/ to' = Answered(s, s, "ACK")
  BY DEF Process, FinishConnect, EnqueueChild, AckFin, FinAcked, EnterTimeWait, LastAcked, Ignore
<1>5. \A t \in Sock : t # s /\ t # Peer(s) => to'[t] = to[t]
  BY <1>4 DEF Taken, Answered, TypeOK
<1>6. /\ to' = Taken(s) => to'[s] = Tail(to[s]) /\ to'[Peer(s)] = to[Peer(s)]
      /\ to' = Answered(s, s, "ACK") =>
           to'[s] = Tail(to[s]) /\ to'[Peer(s)] = Append(to[Peer(s)], "ACK")
  BY DEF Taken, Answered, TypeOK
<1>7. /\ app' = app /\ accepted' = accepted /\ crashed' = crashed
      /\ \A h \in Hosts : h # Server => net'[h] = net[h]
      /\ \A t \in Sock : t # s => state'[t] = state[t]
      /\ notified' = notified
      /\ \A t \in Sock \ Child : t \in established_table' <=> t \in established_table
  BY <1>3 DEF Process, FinishConnect, EnqueueChild, AckFin, FinAcked, EnterTimeWait, LastAcked,
              Ignore, Unhashed, Enters, tables, TypeOK
<1>9. ASSUME listen_table' = listen_table, AtWork(s)',
             Agree(Phase(s)', Phase(Peer(s)), to'[s], to'[Peer(s)])
      PROVE  CInv'
  <2>1. Serves(s)'
    BY <1>7, <1>9 DEF Serves, OffWork
  <2> QED
    BY <1>5, <1>7, <1>9, <2>1, ChildMoves
<1>10. ~FinishConnect(s, s, flags)
  BY <1>3 DEF FinishConnect
<1>11. CASE EnqueueChild(s, s, flags)
  <2>1. Phase(s) = "answering" /\ Alone
    BY <1>3, <1>11 DEF EnqueueChild
  <2>2. /\ state'[s] = "SYN_RECV" /\ net'[Server] = <<"accept", s>> /\ Queued(s)'
        /\ listen_table' = listen_table
    BY <1>11, <2>1 DEF EnqueueChild, Alone, Queued, tables, TypeOK
  <2>3. Phase(s)' = "open"
    BY <2>2 DEF Phase
  <2>4. Agree("open", Phase(Peer(s)), Tail(to[s]), to[Peer(s)])
    BY <1>1, <2>1, AnsweringReceives
  <2>5. to'[s] = Tail(to[s]) /\ to'[Peer(s)] = to[Peer(s)]
    BY <1>6, <1>11 DEF EnqueueChild
  <2> QED
    BY <1>9, <2>2, <2>3, <2>4, <2>5 DEF AtWork
<1>12. CASE AckFin(s, s, flags)
  <2>1. Phase(s) = "open" /\ (Queued(s) \/ Held(s, "open"))
    BY <1>3, <1>12 DEF AckFin
  <2>2. /\ state'[s] = "ESTABLISHED" /\ net'[Server] = <<"fin", s>>
        /\ Queued(s)' \/ Held(s, "open")'
        /\ listen_table' = listen_table
    BY <1>12, <2>1 DEF AckFin, Queued, Held, tables, TypeOK
  <2>3. Phase(s)' = "asked"
    BY <2>2 DEF Phase
  <2>4. Agree("asked", Phase(Peer(s)), Tail(to[s]), Append(to[Peer(s)], "ACK"))
    BY <1>1, <2>1, OpenReceives
  <2>5. to'[s] = Tail(to[s]) /\ to'[Peer(s)] = Append(to[Peer(s)], "ACK")
    BY <1>6, <1>12 DEF AckFin
  <2> QED
    BY <1>9, <2>2, <2>3, <2>4, <2>5 DEF AtWork
<1>13. CASE FinAcked(s, s, flags)
  <2>1. Phase(s) = "first" /\ Alone
    BY <1>3, <1>13 DEF FinAcked
  <2>2. state'[s] = "FIN_WAIT_2" /\ net' = net /\ Alone' /\ listen_table' = listen_table
    BY <1>13, <2>1 DEF FinAcked, Enters, Alone, tables, TypeOK
  <2>3. Phase(s)' = "half"
    BY <2>2 DEF Phase
  <2>4. Agree("half", Phase(Peer(s)), Tail(to[s]), to[Peer(s)])
    BY <1>1, <1>13, <2>1, FirstReceives DEF FinAcked
  <2>5. to'[s] = Tail(to[s]) /\ to'[Peer(s)] = to[Peer(s)]
    BY <1>6, <1>13 DEF FinAcked
  <2> QED
    BY <1>1, <1>9, <2>2, <2>3, <2>4, <2>5 DEF AtWork
<1>14. CASE EnterTimeWait(s, s, flags)
  <2>1. Phase(s) \in {"first", "half"} /\ Alone
    BY <1>3, <1>14 DEF EnterTimeWait
  <2>2. state'[s] = "TIME_WAIT" /\ net' = net /\ Alone' /\ listen_table' = listen_table
    BY <1>14, <2>1 DEF EnterTimeWait, Enters, Alone, tables, TypeOK
  <2>3. Phase(s)' = "wait"
    BY <2>2 DEF Phase
  <2>4. Agree("wait", Phase(Peer(s)), Tail(to[s]), Append(to[Peer(s)], "ACK"))
    BY <1>1, <1>14, <2>1, FirstReceives, HalfReceives DEF EnterTimeWait
  <2>5. to'[s] = Tail(to[s]) /\ to'[Peer(s)] = Append(to[Peer(s)], "ACK")
    BY <1>6, <1>14 DEF EnterTimeWait
  <2> QED
    BY <1>1, <1>9, <2>2, <2>3, <2>4, <2>5 DEF AtWork
<1>15. CASE LastAcked(s, s, flags)
  <2>1. Phase(s) = "last" /\ Alone
    BY <1>3, <1>15 DEF LastAcked
  <2>2. Agree("gone", Phase(Peer(s)), Tail(to[s]), to[Peer(s)])
    BY <1>1, <2>1, LastReceives
  <2>3. to'[s] = Tail(to[s]) /\ to'[Peer(s)] = to[Peer(s)]
    BY <1>6, <1>15 DEF LastAcked
  <2> QED
    BY <1>1, <1>5, <1>15, <2>1, <2>2, <2>3, Closed_Server DEF LastAcked
<1>16. CASE ~Expected(s, flags) /\ Ignore(s)
  <2>1. state' = state /\ net' = net /\ listen_table' = listen_table /\ accept_queue' = accept_queue
    BY <1>16 DEF Ignore, tables
  <2>2. state[s] = "TIME_WAIT" /\ Phase(s) = "wait" /\ Alone
    BY <1>1, <1>3, <1>16, AnsweringReceives, OpenReceives, NothingToReceive, LastReceives,
       FirstReceives, HalfReceives DEF Expected
  <2>3. Phase(s)' = "wait" /\ Alone'
    BY <1>7, <2>1, <2>2 DEF Phase, Alone
  <2>4. Agree("wait", Phase(Peer(s)), Tail(to[s]), to[Peer(s)])
    BY <1>1, <2>2, WaitReceives
  <2>5. to'[s] = Tail(to[s]) /\ to'[Peer(s)] = to[Peer(s)]
    BY <1>6, <1>16 DEF Ignore
  <2> QED
    BY <1>1, <1>9, <2>1, <2>2, <2>3, <2>4, <2>5 DEF AtWork
<1> QED
  BY <1>10, <1>11, <1>12, <1>13, <1>14, <1>15, <1>16 DEF Process

(* A SYN of another client finds the child at work, and is lost.           *)
LEMMA Lost_Server ==
  ASSUME TypeOK, CInv, NEW s \in Child, NEW k \in Child, NEW flags \in Flags,
         Receives(s, flags), Serves(k), s # k, Process(s, k, flags)
  PROVE  CInv'
<1> USE SockFacts, ChildFacts
<1>1. Phase(s) \in {"none", "gone"} /\ to[s] # Nothing
  BY PhaseFacts DEF Serves, OffWork, Receives, Nothing
<1>2. Phase(s) = "none"
  BY <1>1, NothingToReceive, ServesFacts
<1>3. flags = "SYN" /\ Agree("none", Phase(Peer(s)), Tail(to[s]), to[Peer(s)])
  BY <1>1, <1>2, NoneReceives, ServesFacts DEF Receives
<1>4. Ignore(s)
  BY <1>3 DEF Process, FinishConnect, EnqueueChild, AckFin, FinAcked, EnterTimeWait, LastAcked
<1>5. /\ state' = state /\ net' = net /\ app' = app /\ accepted' = accepted
      /\ accept_queue' = accept_queue /\ listen_table' = listen_table /\ notified' = notified
      /\ crashed' = crashed /\ established_table' = established_table
  BY <1>4 DEF Ignore, tables
<1>6. /\ to'[s] = Tail(to[s]) /\ to'[Peer(s)] = to[Peer(s)]
      /\ \A t \in Sock : t # s /\ t # Peer(s) => to'[t] = to[t]
  BY <1>4 DEF Ignore, Taken, TypeOK
<1>7. Phase(s)' = "none" /\ Phase(Peer(s))' = Phase(Peer(s))
  BY <1>2, <1>5, PhaseKept
<1>8. Connected(Peer(s))'
  BY <1>3, <1>6, <1>7, AgreeBothWays DEF Connected
<1>9. Serves(k)'
  BY <1>5 DEF Serves, AtWork, OffWork, Queued, Held, Alone
<1> QED
  BY <1>5, <1>6, <1>8, <1>9, ServerFrame DEF ServerOK

LEMMA Handle_Server ==
  ASSUME TypeOK, CInv, overtaken' = {}, NEW s \in Child, Handle(s)
  PROVE  CInv'
<1> USE SockFacts, ChildFacts
<1>1. PICK flags \in Flags :
        /\ Receives(s, flags)
        /\ \/ Crash(s, flags)
           \/ SpawnChild(s, flags) \/ IgnoreListening(s, flags)
           \/ \E f \in Sock : Found(s, f) /\ Process(s, f, flags)
  BY DEF Handle, Flags
<1>2. s \notin established_table
  BY DEF TypeOK
<1>3. CASE listen_table = << >>
  <2>1. app[Server] \in {"bind", "listen"}
    BY <1>3 DEF CInv, ServerOK, Rests, Serves
  <2>2. Crash(s, flags)
    BY <1>1, <1>2, <1>3 DEF SpawnChild, IgnoreListening, Found
  <2> QED
    BY <2>1, <2>2 DEF Crash
<1>4. CASE listen_table # << >>
  <2>1. \A f : Found(s, f) <=> f = Head(listen_table)
    BY <1>2, <1>4 DEF Found
  <2>2. CASE Head(listen_table) = Listener /\ Rests /\ app[Server] = "accept"
    <3>1. listen_table = <<Listener>>
      BY <2>2 DEF Rests
    <3>2. ~Crash(s, flags) /\ ~(\E f \in Sock : Found(s, f) /\ Process(s, f, flags))
      BY <2>1, <2>2 DEF Crash
    <3>3. ~IgnoreListening(s, flags)
      <4>1. Phase(s) \in {"none", "gone"} /\ to[s] # Nothing
        BY <1>1, <2>2, PhaseFacts DEF Rests, OffWork, Receives, Nothing
      <4>2. flags = "SYN"
        BY <1>1, <4>1, NothingToReceive, NoneReceives, ServesFacts DEF Receives
      <4> QED
        BY <4>2 DEF IgnoreListening
    <3> QED
      BY <1>1, <2>2, <3>1, <3>2, <3>3, Spawn_Server
  <2>3. CASE \E k \in Child : Head(listen_table) = k /\ Serves(k)
    <3>1. PICK k \in Child : Head(listen_table) = k /\ Serves(k)
      BY <2>3
    <3>2. ~Crash(s, flags) /\ ~SpawnChild(s, flags) /\ ~IgnoreListening(s, flags)
      BY <2>1, <3>1 DEF Crash, SpawnChild, IgnoreListening
    <3>3. Process(s, k, flags)
      BY <1>1, <2>1, <3>1, <3>2
    <3> QED
      BY <1>1, <3>1, <3>3, Process_Server, Lost_Server
  <2> QED
    BY <1>4, <2>2, <2>3, WhoServes DEF CInv
<1> QED
  BY <1>3, <1>4

-------------------------------------------------------------------------------
(* CInv is kept by every step in which no two threads meet.                *)
LEMMA ConnStep ==
  ASSUME TypeOK, CInv, Next, overtaken' = {}
  PROVE  CInv'
<1>1. CASE Bind \/ Listen
  BY <1>1, BindListen
<1>2. CASE Accept
  BY <1>2, AcceptStep
<1>3. ASSUME NEW s \in Sock \ Child, Step(s) PROVE CInv'
  BY <1>3, SendSyn_Client, EnterSynSent_Client, Hash_Client, ConnectReturns_Client,
     SendLastFin_Client, EnterLastAck_Client, SendFirstFin_Client, EnterFinWait1_Client,
     NoCloseAtOnce_Client, Handle_Client, NoEstablishChild_Client, EnterCloseWait_Client,
     Expire_Client
  DEF Step, Connect, Close
<1>4. ASSUME NEW s \in Child, Step(s) PROVE CInv'
  BY <1>4, SendLastFin_Server, EnterLastAck_Server, SendFirstFin_Server, EnterFinWait1_Server,
     NoCloseAtOnce_Server, Handle_Server, EstablishChild_Server, EnterCloseWait_Server,
     Expire_Server
  DEF Step, Close
<1> QED
  BY <1>1, <1>2, <1>3, <1>4, ChildFacts DEF Next

(* Threads that have met stay on record.                                   *)
LEMMA OvertakenGrows ==
  ASSUME Next PROVE overtaken \subseteq overtaken'
<1>1. ASSUME NEW s \in Sock, Handle(s) PROVE overtaken \subseteq overtaken'
  BY <1>1 DEF Handle, Crash, SpawnChild, Spawn, IgnoreListening, Process, MeetsCall
<1> QED
  BY <1>1
  DEF Next, Step, Bind, Listen, Accept, Connect, SendSyn, EnterSynSent, Hash, ConnectReturns,
      Close, SendLastFin, EnterLastAck, SendFirstFin, EnterFinWait1, CloseAtOnce, Meets,
      EstablishChild, EnterCloseWait, Expire

ConnInv == TInv /\ (Undisturbed => CInv)

LEMMA ConnInductive == Spec => []ConnInv
<1>1. Init => ConnInv
  BY TypeInit, ConnInit DEF ConnInv
<1>2. ConnInv /\ [Next]_vars => ConnInv'
  <2>1. ConnInv /\ UNCHANGED vars => ConnInv'
    BY DEF ConnInv, TInv, TypeOK, ClientsNeverAnswer, Undisturbed, CInv, ServerOK, Rests, Serves,
           AtWork, OffWork, Queued, Held, Alone, ClientOK, InTable, NotInTable, Connected,
           Phase, Calls, vars, tables
  <2>2. ASSUME ConnInv, Next PROVE ConnInv'
    <3>1. TInv'
      BY <2>2, TypeStep, ClientsStep DEF ConnInv, TInv
    <3>2. ASSUME overtaken' = {} PROVE CInv'
      BY <2>2, <3>2, OvertakenGrows, ConnStep DEF ConnInv, TInv, Undisturbed
    <3> QED
      BY <3>1, <3>2 DEF ConnInv, Undisturbed
  <2> QED
    BY <2>1, <2>2
<1> QED
  BY <1>1, <1>2, PTL DEF Spec

(* With any number of clients, no host looks up a socket in vain before a  *)
(* packet has overtaken a socket call.                                     *)
THEOREM NoCrashBeforeMeeting == Spec => [](Undisturbed => crashed = {})
<1>1. ConnInv => (Undisturbed => crashed = {})
  BY DEF ConnInv, CInv
<1> QED
  BY <1>1, ConnInductive, PTL

(* The server hands a connection out after its client is established.      *)
THEOREM BothEstablish == Spec => []EstablishedByBoth
<1>1. ConnInv => EstablishedByBoth
  <2> SUFFICES ASSUME ConnInv, Undisturbed, NEW s \in Child, state[s] \notin {"NONE", "SYN_RECV"}
               PROVE  /\ app[Host(Peer(s))] \notin {"connect", "syn", "hash"}
                      /\ state[Peer(s)] # "SYN_SENT"
    BY DEF EstablishedByBoth
  <2> USE SockFacts, ChildFacts
  <2>1. TypeOK /\ CInv
    BY DEF ConnInv, TInv
  <2>2. Phase(s) \notin {"none", "answering", "idle", "opening"}
    <3>1. CASE state[s] = "CLOSED"
      BY <2>1, <3>1, PhaseFacts
    <3>2. CASE state[s] # "CLOSED"
      <4>1. AtWork(s)
        BY <2>1, <3>2, ActiveChild DEF CInv, OffWork, Serves
      <4>2. state[s] \in {"ESTABLISHED", "CLOSE_WAIT", "LAST_ACK", "FIN_WAIT_1", "FIN_WAIT_2",
                          "TIME_WAIT"}
        BY <4>1 DEF AtWork
      <4> QED
        BY <2>1, <4>2, PhaseFacts
    <3> QED
      BY <3>1, <3>2
  <2>3. Phase(Peer(s)) \notin {"idle", "opening"}
    BY <2>1, <2>2, ServesFacts DEF Agree, Half
  <2> QED
    BY <2>1, <2>3, PhaseFacts DEF CInv, ClientOK, InTable, NotInTable
<1> QED
  BY <1>1, ConnInductive, PTL

(* A side forgets a connection only after both applications closed it.     *)
THEOREM BothForget == Spec => []ForgottenByBoth
<1>1. ConnInv => ForgottenByBoth
  <2> SUFFICES ASSUME ConnInv, NEW s \in Sock, Undisturbed, state[s] \in {"TIME_WAIT", "CLOSED"},
                      state[Peer(s)] \notin {"NONE", "SYN_RECV"},
                      app[Host(s)] \notin {"connect", "syn", "hash"}
               PROVE  CalledClose(s) /\ CalledClose(Peer(s))
    BY DEF ForgottenByBoth
  <2> USE SockFacts, ChildFacts
  <2>1. TypeOK /\ CInv
    BY DEF ConnInv, TInv
  <2>2. Phase(s) \in {"wait", "gone"}
    BY <2>1, PhaseFacts
  <2>3. Agree(Phase(s), Phase(Peer(s)), to[s], to[Peer(s)])
    BY <2>1, ServesFacts DEF CInv, Connected
  <2>4. Phase(Peer(s)) \in {"last", "gone", "first", "wait"}
    BY <2>2, <2>3 DEF Agree, Half
  <2>5. ASSUME NEW t \in Sock, Phase(t) \in {"last", "gone", "first", "wait"},
               state[t] \notin {"NONE", "SYN_RECV"}
        PROVE  CalledClose(t)
    <3>1. CASE t \in Child
      BY <2>1, <2>5, <3>1 DEF Phase, Calls, CalledClose, TypeOK, States
    <3>2. CASE t \notin Child
      <4>1. ClientOK(t)
        BY <2>1, <3>2 DEF CInv
      <4> QED
        BY <2>5, <3>2, <4>1, IdleFacts DEF Phase, Calls, CalledClose, ClientOK, InTable, NotInTable
    <3> QED
      BY <3>1, <3>2
  <2> QED
    BY <2>2, <2>4, <2>5
<1> QED
  BY <1>1, ConnInductive, PTL

(* Although children are looked up by port only, a packet of an open       *)
(* connection finds the socket of that connection.                         *)
THEOREM PacketsFindHome == Spec => []PacketsGoHome
<1>1. ConnInv => PacketsGoHome
  <2> SUFFICES ASSUME ConnInv, NEW s \in Sock, Undisturbed, state[s] \notin {"NONE", "CLOSED"},
                      NEW f \in Sock \cup {Listener}, Found(s, f)
               PROVE  f = s
    BY DEF PacketsGoHome
  <2> USE SockFacts, ChildFacts
  <2>1. TypeOK /\ CInv
    BY DEF ConnInv, TInv
  <2>2. CASE s \in Child
    <3>1. Serves(s)
      BY <2>1, <2>2, ActiveChild DEF OffWork, CInv
    <3>2. Head(listen_table) = s
      BY <3>1 DEF Serves
    <3> QED
      BY <3>2 DEF Found
  <2>3. CASE s \notin Child
    BY <2>3 DEF Found
  <2> QED
    BY <2>2, <2>3
<1> QED
  BY <1>1, ConnInductive, PTL
-------------------------------------------------------------------------------
(* What holds of one connection whatever the threads do to the others: as  *)
(* long as neither of its own sockets has been overtaken, its client finds *)
(* the socket for every packet.  Packets of another client may reach the   *)
(* child, so that the child may run ahead of its client, but what it has   *)
(* sent is still what a child in its phase sends.                          *)
Unmet(s) == s \notin overtaken /\ Peer(s) \notin overtaken

(* What is under way to a client in phase p, once its SYN was answered,    *)
(* from a child in phase q: the rest of what such a child has sent.        *)
FromChild(p, q, a) ==
  \/ /\ p \in {"open", "first"}
     /\ \/ q \in {"answering", "open"} /\ a = Nothing
        \/ q = "asked" /\ a \in {JustAck, Nothing}
        \/ q = "last" /\ a \in {AckThenFin, JustFin}
        \/ q \in {"first", "half"} /\ a = JustFin
        \/ q = "wait" /\ a = FinThenAck
        \/ q = "gone" /\ a \in {Nothing, JustAck, JustFin, AckThenFin, FinThenAck}
  \/ /\ p = "half"
     /\ \/ q = "asked" /\ a = Nothing
        \/ q = "last" /\ a = JustFin
        \/ q = "gone" /\ a \in {Nothing, JustFin}
  \/ /\ p \in {"asked", "last", "wait"}
     /\ \/ q \in {"last", "first", "half"} /\ a = Nothing
        \/ q \in {"wait", "gone"} /\ a \in {Nothing, JustAck}
  \/ p = "gone" /\ q \in {"last", "wait", "gone"} /\ a = Nothing

ToClient(p, q, a) ==
  \/ p \in {"idle", "opening"} /\ q = "none" /\ a = Nothing
  \/ p = "opening" /\ q # "none" /\ a # Nothing /\ Head(a) = "SYN|ACK" /\ FromChild("open", q, Tail(a))
  \/ p \notin {"idle", "opening"} /\ FromChild(p, q, a)

HasFin(b) == \E i \in DOMAIN b : b[i] = "FIN|ACK"

(* A client that has sent its FIN first goes from TIME_WAIT only after the *)
(* child has seen it.                                                      *)
ToChild(p, q, b) ==
  /\ p = "idle" => b = Nothing
  /\ p = "opening" => b = Nothing \/ (q = "none" /\ b = JustSyn)
  /\ p # "opening" /\ q = "answering" => b # Nothing /\ Head(b) = "ACK"
  /\ p \in {"first", "wait"} /\ q \in {"answering", "open", "first", "half"} => HasFin(b)

Ordered(p, q, a, b) == ToClient(p, q, a) /\ ToChild(p, q, b)

ChildOK(f) ==
  /\ net[Server] = <<"accept", f>> => state[f] = "SYN_RECV"
  /\ net[Server] = <<"fin", f>> => state[f] = "ESTABLISHED" /\ ~Calls(f, "wait1")
  /\ Calls(f, "last") => state[f] = "CLOSE_WAIT"
  /\ Calls(f, "wait1") => state[f] = "ESTABLISHED"
  /\ ~OffWork(f) => listen_table = <<f, Listener>>

InOrder(s) ==
  /\ Host(s) \notin crashed
  /\ ClientOK(s) /\ ChildOK(Peer(s))
  /\ Ordered(Phase(s), Phase(Peer(s)), to[s], to[Peer(s)])

Orderly(s) == Unmet(s) => InOrder(s)

(* At most one child is in the bucket, whoever overtakes whom. *)
Bucket ==
  /\ listen_table \in {<< >>, <<Listener>>} \cup {<<k, Listener>> : k \in Child}
  /\ app[Server] \in {"bind", "listen"} => listen_table = << >>

OInv == Bucket /\ \A s \in Sock \ Child : Orderly(s)

LEMMA FinFacts ==
  ASSUME NEW b \in Seq(Flags), NEW x \in Flags
  PROVE  /\ Append(b, x) \in Seq(Flags) /\ Append(b, x) # Nothing
         /\ b # Nothing => /\ Head(Append(b, x)) = Head(b)
                           /\ Tail(Append(b, x)) = Append(Tail(b), x)
         /\ HasFin(b) \/ x = "FIN|ACK" => HasFin(Append(b, x))
         /\ b # Nothing /\ HasFin(b) /\ Head(b) # "FIN|ACK" => HasFin(Tail(b))
         /\ ~HasFin(Nothing)
<1>1. Append(b, x) \in Seq(Flags) /\ Append(b, x) # << >>
  OBVIOUS
<1>2. b # << >> => /\ Head(Append(b, x)) = Head(b)
                   /\ Tail(Append(b, x)) = Append(Tail(b), x)
  BY HeadTailAppend
<1>3. HasFin(b) \/ x = "FIN|ACK" => HasFin(Append(b, x))
  <2>1. /\ Append(b, x)[Len(b) + 1] = x /\ Len(b) + 1 \in DOMAIN Append(b, x)
        /\ \A i \in DOMAIN b : i \in DOMAIN Append(b, x) /\ Append(b, x)[i] = b[i]
    OBVIOUS
  <2> QED
    BY <2>1, Zenon DEF HasFin
<1>4. ASSUME b # << >>, HasFin(b), Head(b) # "FIN|ACK" PROVE HasFin(Tail(b))
  <2>1. PICK i \in DOMAIN b : b[i] = "FIN|ACK"
    BY <1>4 DEF HasFin
  <2>2. i - 1 \in DOMAIN Tail(b) /\ Tail(b)[i - 1] = b[i]
    BY <1>4, <2>1
  <2> QED
    BY <2>1, <2>2 DEF HasFin
<1>5. ~HasFin(<< >>)
  BY DEF HasFin
<1> QED
  BY <1>1, <1>2, <1>3, <1>4, <1>5 DEF Nothing

(* How a child goes on, with a packet to its client and without one.       *)
Answers(q, x, q2) ==
  \/ q = "open" /\ x = "ACK" /\ q2 = "asked"
  \/ q = "open" /\ x = "FIN|ACK" /\ q2 = "first"
  \/ q = "asked" /\ x = "FIN|ACK" /\ q2 = "last"
  \/ q \in {"first", "half"} /\ x = "ACK" /\ q2 = "wait"

Turns(q, q2) ==
  \/ q = q2
  \/ q = "answering" /\ q2 = "open"
  \/ q = "first" /\ q2 = "half"
  \/ q \in {"last", "first", "half", "wait"} /\ q2 = "gone"

LEMMA ChildAnswers ==
  ASSUME NEW p, NEW q, NEW a \in Seq(Flags), NEW b \in Seq(Flags), NEW x, NEW q2, NEW c,
         Ordered(p, q, a, b), Answers(q, x, q2),
         c = b \/ (q2 \in {"asked", "wait"} /\ b # Nothing /\ c = Tail(b))
  PROVE  Ordered(p, q2, Append(a, x), c)
<1>0. x \in Flags
  BY DEF Answers, Flags
<1>1. ASSUME NEW r, NEW d, FromChild(r, q, d) PROVE FromChild(r, q2, Append(d, x))
  BY <1>1, QueueFacts DEF FromChild, Answers
<1>2. ToClient(p, q2, Append(a, x))
  <2>1. CASE p = "opening" /\ q # "none" /\ a # Nothing /\ Head(a) = "SYN|ACK" /\ FromChild("open", q, Tail(a))
    <3>1. Head(Append(a, x)) = "SYN|ACK" /\ Tail(Append(a, x)) = Append(Tail(a), x) /\ Append(a, x) # Nothing
      BY <1>0, <2>1, FinFacts
    <3> QED
      BY <1>1, <2>1, <3>1 DEF ToClient, Answers
  <2>2. CASE p \notin {"idle", "opening"} /\ FromChild(p, q, a)
    BY <1>1, <2>2 DEF ToClient
  <2> QED
    BY <2>1, <2>2 DEF Ordered, ToClient, Answers
<1>3. p # "idle" /\ (p = "opening" => b = Nothing)
  BY DEF Ordered, ToClient, ToChild, Answers
<1>4. ToChild(p, q2, c)
  BY <1>3 DEF Ordered, ToChild, Answers
<1> QED
  BY <1>2, <1>4 DEF Ordered

LEMMA ChildTurns ==
  ASSUME NEW p, NEW q, NEW a \in Seq(Flags), NEW b \in Seq(Flags), NEW q2, NEW c,
         Ordered(p, q, a, b), Turns(q, q2),
         \/ c = b
         \/ /\ b # Nothing /\ c = Tail(b) /\ q2 # "answering"
            /\ q2 \in {"open", "first", "half"} => Head(b) # "FIN|ACK"
  PROVE  Ordered(p, q2, a, c)
<1>1. ASSUME NEW r, NEW d, FromChild(r, q, d) PROVE FromChild(r, q2, d)
  BY <1>1 DEF FromChild, Turns
<1>2. ToClient(p, q2, a)
  BY <1>1 DEF Ordered, ToClient, Turns
<1>3. q # q2 => p # "idle" /\ (p = "opening" => b = Nothing)
  BY DEF Ordered, ToClient, ToChild, Turns
<1>4. HasFin(b) /\ q2 \in {"open", "first", "half"} => HasFin(c)
  BY FinFacts DEF Flags
<1>5. ToChild(p, q2, c)
  <2>1. p = "idle" => c = Nothing
    BY <1>3 DEF Ordered, ToChild
  <2>2. p = "opening" => c = Nothing \/ (q2 = "none" /\ c = JustSyn)
    BY <1>3, QueueFacts DEF Ordered, ToChild
  <2>3. p # "opening" /\ q2 = "answering" => c # Nothing /\ Head(c) = "ACK"
    BY DEF Ordered, ToChild, Turns
  <2>4. p \in {"first", "wait"} /\ q2 \in {"answering", "open", "first", "half"} => HasFin(c)
    <3>1. q2 = "answering" => c = b /\ q = "answering"
      BY DEF Turns
    <3>2. q2 \in {"open", "first", "half"} => q \in {"answering", "open", "first", "half"}
      BY DEF Turns
    <3> QED
      BY <1>4, <3>1, <3>2 DEF Ordered, ToChild
  <2> QED
    BY <2>1, <2>2, <2>3, <2>4 DEF ToChild
<1> QED
  BY <1>2, <1>5 DEF Ordered

(* A child that is allocated for the SYN of its client. *)
LEMMA ChildSpawns ==
  ASSUME NEW p, NEW a, NEW b, Ordered(p, "none", a, b), b # Nothing, Head(b) = "SYN"
  PROVE  Ordered(p, "answering", Append(a, "SYN|ACK"), Tail(b))
<1>1. p = "opening" /\ a = Nothing /\ b = JustSyn
  BY DEF Ordered, ToClient, ToChild, FromChild
<1>2. Append(a, "SYN|ACK") = JustSynAck /\ Tail(b) = Nothing
  BY <1>1, QueueFacts
<1>3. JustSynAck # Nothing
  BY DEF JustSynAck, Nothing
<1> QED
  BY <1>1, <1>2, <1>3, QueueFacts DEF Ordered, ToClient, ToChild, FromChild

(* What a client sends, and what it receives. *)
LEMMA ClientSends ==
  ASSUME NEW p, NEW q, NEW a \in Seq(Flags), NEW b \in Seq(Flags), Ordered(p, q, a, b)
  PROVE  /\ p = "idle" => Ordered("opening", q, a, Append(b, "SYN"))
         /\ p = "open" => Ordered("first", q, a, Append(b, "FIN|ACK"))
         /\ p = "asked" => Ordered("last", q, a, Append(b, "FIN|ACK"))
<1>1. ASSUME p = "idle" PROVE Ordered("opening", q, a, Append(b, "SYN"))
  BY <1>1, QueueFacts DEF Ordered, ToClient, ToChild
<1>2. Append(b, "FIN|ACK") # Nothing /\ HasFin(Append(b, "FIN|ACK"))
      /\ (b # Nothing => Head(Append(b, "FIN|ACK")) = Head(b))
  BY FinFacts DEF Flags
<1>3. ASSUME p = "open" PROVE Ordered("first", q, a, Append(b, "FIN|ACK"))
  BY <1>2, <1>3 DEF Ordered, ToClient, ToChild, FromChild
<1>4. ASSUME p = "asked" PROVE Ordered("last", q, a, Append(b, "FIN|ACK"))
  BY <1>2, <1>4 DEF Ordered, ToClient, ToChild, FromChild
<1> QED
  BY <1>1, <1>3, <1>4

LEMMA ClientReceives ==
  ASSUME NEW p, NEW q, NEW a \in Seq(Flags), NEW b \in Seq(Flags), Ordered(p, q, a, b), a # Nothing
  PROVE  /\ p \notin {"idle", "gone"}
         /\ p = "opening" => Head(a) = "SYN|ACK" /\ Ordered("open", q, Tail(a), Append(b, "ACK"))
         /\ p = "open" => \/ Head(a) = "ACK" /\ Ordered("open", q, Tail(a), b)
                          \/ Head(a) = "FIN|ACK" /\ Ordered("asked", q, Tail(a), Append(b, "ACK"))
         /\ p = "first" => \/ Head(a) = "ACK" /\ Ordered("half", q, Tail(a), b)
                           \/ Head(a) = "FIN|ACK" /\ Ordered("wait", q, Tail(a), Append(b, "ACK"))
         /\ p = "half" => Head(a) = "FIN|ACK" /\ Ordered("wait", q, Tail(a), Append(b, "ACK"))
         /\ p \in {"asked", "wait"} => Head(a) = "ACK" /\ Ordered(p, q, Tail(a), b)
         /\ p = "last" => Head(a) = "ACK" /\ Ordered("gone", q, Tail(a), b)
<1>1. p \notin {"idle", "gone"}
  BY DEF Ordered, ToClient, FromChild
<1>2. /\ Append(b, "ACK") # Nothing
      /\ HasFin(b) => HasFin(Append(b, "ACK"))
      /\ b # Nothing => Head(Append(b, "ACK")) = Head(b)
  BY FinFacts DEF Flags
<1>3. ASSUME p = "opening"
      PROVE  Head(a) = "SYN|ACK" /\ Ordered("open", q, Tail(a), Append(b, "ACK"))
  <2>1. q # "none" /\ Head(a) = "SYN|ACK" /\ FromChild("open", q, Tail(a)) /\ b = Nothing
    BY <1>3 DEF Ordered, ToClient, ToChild
  <2>2. Head(Append(b, "ACK")) = "ACK"
    BY <2>1, QueueFacts
  <2> QED
    BY <1>2, <2>1, <2>2 DEF Ordered, ToClient, ToChild
<1>4. ASSUME p # "opening" PROVE FromChild(p, q, a)
  BY <1>1, <1>4 DEF Ordered, ToClient
<1>5. ASSUME p = "open"
      PROVE  \/ Head(a) = "ACK" /\ FromChild("open", q, Tail(a))
             \/ Head(a) = "FIN|ACK" /\ FromChild("asked", q, Tail(a))
  BY <1>4, <1>5, QueueFacts DEF FromChild
<1>6. ASSUME p = "first"
      PROVE  \/ Head(a) = "ACK" /\ FromChild("half", q, Tail(a))
             \/ Head(a) = "FIN|ACK" /\ FromChild("wait", q, Tail(a))
  BY <1>4, <1>6, QueueFacts DEF FromChild
<1>7. ASSUME p = "half"
      PROVE  /\ Head(a) = "FIN|ACK" /\ FromChild("wait", q, Tail(a))
             /\ q \notin {"answering", "open", "first", "half"}
  BY <1>4, <1>7, QueueFacts DEF FromChild
<1>8. ASSUME p \in {"asked", "wait"} PROVE Head(a) = "ACK" /\ FromChild(p, q, Tail(a))
  BY <1>4, <1>8, QueueFacts DEF FromChild
<1>9. ASSUME p = "last" PROVE Head(a) = "ACK" /\ FromChild("gone", q, Tail(a))
  BY <1>4, <1>9, QueueFacts DEF FromChild
<1> QED
  BY <1>1, <1>2, <1>3, <1>5, <1>6, <1>7, <1>8, <1>9 DEF Ordered, ToClient, ToChild

LEMMA ClientForgets ==
  ASSUME NEW q, Ordered("wait", q, Nothing, Nothing)
  PROVE  Ordered("gone", q, Nothing, Nothing)
<1>1. ~HasFin(Nothing)
  BY DEF HasFin, Nothing
<1> QED
  BY <1>1 DEF Ordered, ToClient, ToChild, FromChild
-------------------------------------------------------------------------------
(* What a step has to leave alone of a client, and of a child.             *)
ClientKept(k) ==
  /\ state'[k] = state[k] /\ app'[Host(k)] = app[Host(k)] /\ net'[Host(k)] = net[Host(k)]
  /\ k \in established_table' <=> k \in established_table
  /\ k \in notified' => k \in notified
  /\ Host(k) \in crashed' => Host(k) \in crashed

ChildKept(f) ==
  /\ state'[f] = state[f]
  /\ net'[Server] = <<"accept", f>> <=> net[Server] = <<"accept", f>>
  /\ net'[Server] = <<"fin", f>> <=> net[Server] = <<"fin", f>>
  /\ Calls(f, "last")' <=> Calls(f, "last")
  /\ Calls(f, "wait1")' <=> Calls(f, "wait1")
  /\ ~OffWork(f) /\ listen_table = <<f, Listener>> => listen_table' = <<f, Listener>>

LEMMA ClientKeptFacts ==
  ASSUME NEW k \in Sock \ Child, ClientKept(k)
  PROVE  Phase(k)' = Phase(k) /\ (ClientOK(k) => ClientOK(k)')
<1>1. Phase(k)' = Phase(k)
  BY PhaseKept DEF ClientKept
<1>2. ClientOK(k) => ClientOK(k)'
  BY DEF ClientKept, ClientOK, InTable, NotInTable
<1> QED
  BY <1>1, <1>2

LEMMA ChildKeptFacts ==
  ASSUME NEW f \in Child, ChildKept(f)
  PROVE  Phase(f)' = Phase(f) /\ (ChildOK(f) => ChildOK(f)')
<1>1. Host(f) = Server
  BY SockFacts, ChildFacts
<1>2. Phase(f)' = Phase(f)
  BY <1>1 DEF ChildKept, Phase
<1>3. ChildOK(f) => ChildOK(f)'
  BY DEF ChildKept, ChildOK, OffWork
<1> QED
  BY <1>2, <1>3

(* A step of the client host of t. *)
ClientOnly(t) ==
  /\ \A s \in Sock : s # t => state'[s] = state[s]
  /\ \A h \in Hosts : h # Host(t) => app'[h] = app[h] /\ net'[h] = net[h]
  /\ accepted' = accepted /\ listen_table' = listen_table
  /\ \A s \in Sock \ Child : s # t => /\ s \in established_table' <=> s \in established_table
                                      /\ s \in notified' => s \in notified
  /\ \A h \in Hosts : h # Host(t) /\ h \in crashed' => h \in crashed
  /\ \A s \in Sock : s # t /\ s # Peer(t) => to'[s] = to[s]

LEMMA ClientOnlyKeeps ==
  ASSUME NEW t \in Sock \ Child, ClientOnly(t), NEW k \in Sock \ Child
  PROVE  ChildKept(Peer(k)) /\ (k # t => ClientKept(k))
<1> USE SockFacts, ChildFacts
<1>1. Peer(k) \in Child /\ Peer(k) # t /\ Host(Peer(k)) = Server /\ Host(t) # Server
  OBVIOUS
<1>2. ChildKept(Peer(k))
  BY <1>1 DEF ClientOnly, ChildKept, Calls
<1>3. k # t => Host(k) # Host(t) /\ Host(k) \in Hosts
  BY OneClientPerHost
<1> QED
  BY <1>2, <1>3 DEF ClientOnly, ClientKept

LEMMA OtherClient ==
  ASSUME NEW t \in Sock \ Child, ClientOnly(t), NEW k \in Sock \ Child, k # t, InOrder(k)
  PROVE  InOrder(k)'
<1> USE SockFacts, ChildFacts
<1>1. Peer(k) \in Child /\ Peer(k) # t /\ Peer(k) # Peer(t) /\ k # Peer(t)
  OBVIOUS
<1>2. ChildKept(Peer(k)) /\ ClientKept(k)
  BY ClientOnlyKeeps
<1>3. to'[k] = to[k] /\ to'[Peer(k)] = to[Peer(k)]
  BY <1>1 DEF ClientOnly
<1>4. Phase(k)' = Phase(k) /\ Phase(Peer(k))' = Phase(Peer(k)) /\ ClientOK(k)' /\ ChildOK(Peer(k))'
  BY <1>1, <1>2, ClientKeptFacts, ChildKeptFacts DEF InOrder
<1> QED
  BY <1>2, <1>3, <1>4 DEF InOrder, ClientKept

LEMMA OwnClient ==
  ASSUME NEW k \in Sock \ Child, ClientOnly(k), InOrder(k), Host(k) \notin crashed', ClientOK(k)',
         Ordered(Phase(k)', Phase(Peer(k)), to'[k], to'[Peer(k)])
  PROVE  InOrder(k)'
<1>1. Peer(k) \in Child /\ ChildKept(Peer(k))
  BY ClientOnlyKeeps, SockFacts
<1>2. Phase(Peer(k))' = Phase(Peer(k)) /\ ChildOK(Peer(k))'
  BY <1>1, ChildKeptFacts DEF InOrder
<1> QED
  BY <1>2 DEF InOrder

LEMMA OtherChild ==
  ASSUME NEW k \in Sock \ Child, InOrder(k), ClientKept(k), ChildKept(Peer(k)),
         to'[k] = to[k], to'[Peer(k)] = to[Peer(k)]
  PROVE  InOrder(k)'
<1>1. Peer(k) \in Child
  BY SockFacts
<1>2. Phase(k)' = Phase(k) /\ Phase(Peer(k))' = Phase(Peer(k)) /\ ClientOK(k)' /\ ChildOK(Peer(k))'
  BY <1>1, ClientKeptFacts, ChildKeptFacts DEF InOrder
<1> QED
  BY <1>2 DEF InOrder, ClientKept

LEMMA OwnChild ==
  ASSUME NEW k \in Sock \ Child, InOrder(k), ClientKept(k), ChildOK(Peer(k))',
         Ordered(Phase(k), Phase(Peer(k))', to'[k], to'[Peer(k)])
  PROVE  InOrder(k)'
<1>1. Phase(k)' = Phase(k) /\ ClientOK(k)'
  BY ClientKeptFacts DEF InOrder
<1> QED
  BY <1>1 DEF InOrder, ClientKept

LEMMA ClientOnlyStep ==
  ASSUME TypeOK, NEW t \in Sock \ Child, Step(t)
  PROVE  ClientOnly(t)
<1> USE SockFacts, ChildFacts DEF TypeOK
<1>1. Unlinked(listen_table, t) = listen_table
  BY UnlinkedOther
<1>2. CASE Connect(t)
  BY <1>2 DEF Connect, SendSyn, EnterSynSent, Hash, ConnectReturns, Goes, Enters, Sends, tables, ClientOnly
<1>3. CASE Close(t)
  BY <1>1, <1>3 DEF Close, SendLastFin, EnterLastAck, SendFirstFin, EnterFinWait1, CloseAtOnce,
     Goes, Enters, Sends, Unhashed, tables, ClientOnly
<1>4. CASE EstablishChild(t) \/ EnterCloseWait(t)
  BY <1>4 DEF EstablishChild, EnterCloseWait, Enters, tables, ClientOnly
<1>5. CASE Expire(t)
  BY <1>1, <1>5 DEF Expire, Enters, Unhashed, ClientOnly
<1>6. CASE Handle(t)
  <2>1. PICK flags \in Flags :
          /\ Receives(t, flags)
          /\ \/ Crash(t, flags)
             \/ SpawnChild(t, flags) \/ IgnoreListening(t, flags)
             \/ \E f \in Sock : Found(t, f) /\ Process(t, f, flags)
    BY <1>6 DEF Handle, Flags
  <2>2. ~SpawnChild(t, flags) /\ ~IgnoreListening(t, flags)
    BY DEF SpawnChild, IgnoreListening, Found
  <2>3. CASE Crash(t, flags)
    BY <2>3 DEF Crash, Taken, tables, ClientOnly
  <2>4. CASE Process(t, t, flags)
    <3>1. \A s \in Sock : s # t /\ s # Peer(t) => to'[s] = to[s]
      BY <2>4 DEF Process, FinishConnect, EnqueueChild, AckFin, FinAcked, EnterTimeWait, LastAcked, Ignore,
                  Taken, Answered
    <3>2. /\ \A s \in Sock : s # t => state'[s] = state[s]
          /\ \A h \in Hosts : h # Host(t) => app'[h] = app[h] /\ net'[h] = net[h]
          /\ accepted' = accepted /\ crashed' = crashed
      BY <2>4 DEF Process, FinishConnect, EnqueueChild, AckFin, FinAcked, EnterTimeWait, LastAcked, Ignore,
                  Enters
    <3>3. /\ listen_table' = listen_table
          /\ \A s \in Sock \ Child : s # t => /\ s \in established_table' <=> s \in established_table
                                              /\ s \in notified' => s \in notified
      BY <1>1, <2>4 DEF Process, FinishConnect, EnqueueChild, AckFin, FinAcked, EnterTimeWait, LastAcked,
                  Ignore, Unhashed, tables
    <3> QED
      BY <3>1, <3>2, <3>3 DEF ClientOnly
  <2> QED
    BY <2>1, <2>2, <2>3, <2>4, FoundFacts
<1> QED
  BY <1>2, <1>3, <1>4, <1>5, <1>6 DEF Step
-------------------------------------------------------------------------------
(* The steps of the client's host.                                         *)
LEMMA InOrderFacts ==
  ASSUME TypeOK, NEW k \in Sock \ Child, InOrder(k)
  PROVE  /\ k \in Sock /\ Peer(k) \in Sock
         /\ Peer(k) \in Child /\ Peer(Peer(k)) = k /\ Host(Peer(k)) = Server /\ Peer(k) # k
         /\ Host(k) \in Hosts /\ Host(k) # Server
         /\ Host(k) \notin crashed /\ ClientOK(k) /\ ChildOK(Peer(k))
         /\ Ordered(Phase(k), Phase(Peer(k)), to[k], to[Peer(k)])
         /\ to[k] \in Seq(Flags) /\ to[Peer(k)] \in Seq(Flags)
  BY SockFacts, ChildFacts DEF InOrder, TypeOK, Flags

LEMMA Connect_InOrder ==
  ASSUME TypeOK, NEW k \in Sock \ Child, InOrder(k), Connect(k)
  PROVE  InOrder(k)'
<1> USE InOrderFacts
<1>1. ClientOnly(k)
  BY ClientOnlyStep DEF Step
<1>2. Host(k) \notin crashed' /\ to'[k] = to[k]
  BY DEF Connect, SendSyn, EnterSynSent, Hash, ConnectReturns, Sends, TypeOK
<1>3. CASE SendSyn(k)
  <2>1. NotInTable(k, "connect", "CLOSED") /\ k \notin notified
    BY <1>3 DEF ClientOK, InTable, NotInTable, SendSyn, Goes
  <2>2. Phase(k) = "idle"
    BY <2>1, PhaseFacts DEF NotInTable
  <2>3. Phase(k)' = "opening" /\ to'[Peer(k)] = Append(to[Peer(k)], "SYN")
    BY <1>3, <2>1 DEF Phase, NotInTable, SendSyn, Goes, Sends, TypeOK
  <2>4. ClientOK(k)'
    BY <1>3, <2>1 DEF ClientOK, NotInTable, SendSyn, Goes, TypeOK
  <2>5. Ordered("opening", Phase(Peer(k)), to[k], Append(to[Peer(k)], "SYN"))
    BY <2>2, ClientSends
  <2> QED
    BY <1>1, <1>2, <2>3, <2>4, <2>5, OwnClient
<1>4. CASE EnterSynSent(k)
  <2>1. NotInTable(k, "syn", "CLOSED") /\ k \notin notified
    BY <1>4 DEF ClientOK, InTable, NotInTable, EnterSynSent, Goes
  <2>2. Phase(k) = "opening"
    BY <2>1, PhaseFacts DEF NotInTable
  <2>3. Phase(k)' = "opening" /\ to'[Peer(k)] = to[Peer(k)]
    BY <1>4, <2>1 DEF Phase, NotInTable, EnterSynSent, Goes, Enters, TypeOK
  <2>4. ClientOK(k)'
    BY <1>4, <2>1 DEF ClientOK, NotInTable, EnterSynSent, Goes, Enters, tables, TypeOK
  <2> QED
    BY <1>1, <1>2, <2>2, <2>3, <2>4, OwnClient
<1>5. CASE Hash(k)
  <2>1. NotInTable(k, "hash", "SYN_SENT") /\ k \notin notified
    BY <1>5 DEF ClientOK, InTable, NotInTable, Hash, Goes
  <2>2. Phase(k) = "opening"
    BY <2>1, PhaseFacts DEF NotInTable
  <2>3. Phase(k)' = "opening" /\ to'[Peer(k)] = to[Peer(k)]
    BY <1>5, <2>1 DEF Phase, NotInTable, Hash, TypeOK
  <2>4. ClientOK(k)'
    BY <1>5, <2>1 DEF ClientOK, NotInTable, InTable, Hash, Goes, TypeOK
  <2> QED
    BY <1>1, <1>2, <2>2, <2>3, <2>4, OwnClient
<1>6. CASE ConnectReturns(k)
  <2>1. /\ state[k] \in {"ESTABLISHED", "CLOSE_WAIT"} /\ k \in established_table
        /\ net[Host(k)] # << >> => net[Host(k)] = <<"fin", k>> /\ state[k] = "ESTABLISHED"
        /\ app[Host(k)] = "sleep"
    BY <1>6 DEF ClientOK, InTable, NotInTable, ConnectReturns, Goes
  <2>2. Phase(k)' = Phase(k) /\ to'[Peer(k)] = to[Peer(k)]
    BY <1>6, <2>1 DEF Phase, Calls, ConnectReturns, Goes, TypeOK
  <2>3. ClientOK(k)'
    BY <1>6, <2>1 DEF ClientOK, InTable, ConnectReturns, Goes, tables, TypeOK
  <2> QED
    BY <1>1, <1>2, <2>2, <2>3, OwnClient
<1> QED
  BY <1>3, <1>4, <1>5, <1>6 DEF Connect

LEMMA Close_InOrder ==
  ASSUME TypeOK, NEW k \in Sock \ Child, InOrder(k), Unmet(k)', Close(k)
  PROVE  InOrder(k)'
<1> USE InOrderFacts
<1>1. ClientOnly(k)
  BY ClientOnlyStep DEF Step
<1>2. Host(k) \notin crashed' /\ to'[k] = to[k]
  BY DEF Close, SendLastFin, EnterLastAck, SendFirstFin, EnterFinWait1, CloseAtOnce, Sends, TypeOK
<1>3. CASE SendLastFin(k)
  <2>1. InTable(k, {"open"}, {"CLOSE_WAIT"})
    BY <1>3 DEF ClientOK, InTable, NotInTable, SendLastFin, Goes
  <2>2. Phase(k) = "asked"
    BY <2>1, PhaseFacts DEF InTable, Calls
  <2>3. Phase(k)' = "last" /\ to'[Peer(k)] = Append(to[Peer(k)], "FIN|ACK")
    BY <1>3, <2>1 DEF Phase, Calls, InTable, SendLastFin, Goes, Sends, TypeOK
  <2>4. ClientOK(k)'
    BY <1>3, <2>1 DEF ClientOK, InTable, SendLastFin, Goes, tables, TypeOK
  <2>5. Ordered("last", Phase(Peer(k)), to[k], Append(to[Peer(k)], "FIN|ACK"))
    BY <2>2, ClientSends
  <2> QED
    BY <1>1, <1>2, <2>3, <2>4, <2>5, OwnClient
<1>4. CASE EnterLastAck(k)
  <2>1. InTable(k, {"last"}, {"CLOSE_WAIT"})
    BY <1>4 DEF ClientOK, InTable, NotInTable, EnterLastAck, Goes
  <2>2. Phase(k) = "last"
    BY <2>1, PhaseFacts DEF InTable, Calls
  <2>3. Phase(k)' = "last" /\ to'[Peer(k)] = to[Peer(k)]
    BY <1>4, <2>1 DEF Phase, EnterLastAck, Enters, TypeOK
  <2>4. ClientOK(k)'
    BY <1>4, <2>1 DEF ClientOK, InTable, EnterLastAck, Goes, Returns, Enters, tables, TypeOK
  <2> QED
    BY <1>1, <1>2, <2>2, <2>3, <2>4, OwnClient
<1>5. CASE SendFirstFin(k)
  <2>1. InTable(k, {"open"}, {"ESTABLISHED"})
    BY <1>5 DEF ClientOK, InTable, NotInTable, SendFirstFin, Goes, Meets, Unmet
  <2>2. Phase(k) = "open"
    BY <2>1, PhaseFacts, IdleFacts DEF InTable, Calls
  <2>3. Phase(k)' = "first" /\ to'[Peer(k)] = Append(to[Peer(k)], "FIN|ACK")
    BY <1>5, <2>1, IdleFacts DEF Phase, Calls, InTable, SendFirstFin, Goes, Sends, TypeOK
  <2>4. ClientOK(k)'
    BY <1>5, <2>1 DEF ClientOK, InTable, SendFirstFin, Goes, tables, TypeOK
  <2>5. Ordered("first", Phase(Peer(k)), to[k], Append(to[Peer(k)], "FIN|ACK"))
    BY <2>2, ClientSends
  <2> QED
    BY <1>1, <1>2, <2>3, <2>4, <2>5, OwnClient
<1>6. CASE EnterFinWait1(k)
  <2>1. InTable(k, {"wait1"}, {"ESTABLISHED"})
    BY <1>6 DEF ClientOK, InTable, NotInTable, EnterFinWait1, Goes
  <2>2. Phase(k) = "first"
    BY <2>1, PhaseFacts, IdleFacts DEF InTable, Calls
  <2>3. Phase(k)' = "first" /\ to'[Peer(k)] = to[Peer(k)]
    BY <1>6, <2>1 DEF Phase, EnterFinWait1, Enters, TypeOK
  <2>4. ClientOK(k)'
    BY <1>6, <2>1 DEF ClientOK, InTable, EnterFinWait1, Goes, Returns, Enters, tables, TypeOK
  <2> QED
    BY <1>1, <1>2, <2>2, <2>3, <2>4, OwnClient
<1>7. ~CloseAtOnce(k)
  BY DEF ClientOK, InTable, NotInTable, CloseAtOnce, Goes
<1> QED
  BY <1>3, <1>4, <1>5, <1>6, <1>7 DEF Close

LEMMA Process_InOrder ==
  ASSUME TypeOK, NEW k \in Sock \ Child, InOrder(k), Unmet(k)', NEW flags \in Flags,
         Receives(k, flags), k \in established_table, Process(k, k, flags), ClientOnly(k)
  PROVE  InOrder(k)'
<1> USE InOrderFacts
<1>1. /\ to[k] # Nothing /\ Head(to[k]) = flags /\ net[Host(k)] = << >>
      /\ Host(k) \notin crashed'
  BY DEF Receives, Nothing, Process, FinishConnect, EnqueueChild, AckFin, FinAcked, EnterTimeWait,
         LastAcked, Ignore
<1>2. app[Host(k)] \notin InCall
  BY DEF Process, MeetsCall, Unmet
<1>3. \/ InTable(k, {"sleep"}, {"SYN_SENT"}) /\ Phase(k) = "opening"
      \/ InTable(k, {"sleep", "open"}, {"ESTABLISHED"}) /\ Phase(k) = "open"
      \/ InTable(k, {"sleep", "open"}, {"CLOSE_WAIT"}) /\ Phase(k) = "asked"
      \/ InTable(k, {"done"}, {"LAST_ACK"}) /\ Phase(k) = "last"
      \/ InTable(k, {"done"}, {"FIN_WAIT_1"}) /\ Phase(k) = "first"
      \/ InTable(k, {"done"}, {"FIN_WAIT_2"}) /\ Phase(k) = "half"
      \/ InTable(k, {"done"}, {"TIME_WAIT"}) /\ Phase(k) = "wait"
  BY <1>1, <1>2, PhaseFacts, IdleFacts DEF ClientOK, InTable, NotInTable, Calls, InCall
<1>4. /\ to' = Taken(k) => to'[k] = Tail(to[k]) /\ to'[Peer(k)] = to[Peer(k)]
      /\ to' = Answered(k, k, "ACK") =>
           to'[k] = Tail(to[k]) /\ to'[Peer(k)] = Append(to[Peer(k)], "ACK")
  BY DEF Taken, Answered, TypeOK
<1>5. CASE FinishConnect(k, k, flags)
  <2>1. Phase(k) = "opening" /\ Phase(k)' = "open"
    BY <1>1, <1>3, <1>5, IdleFacts DEF FinishConnect, InTable, Phase, Calls, Enters, TypeOK
  <2>2. ClientOK(k)'
    BY <1>3, <1>5 DEF FinishConnect, ClientOK, InTable, Enters, tables, TypeOK
  <2>3. to' = Answered(k, k, "ACK")
    BY <1>5 DEF FinishConnect
  <2>4. Ordered("open", Phase(Peer(k)), Tail(to[k]), Append(to[Peer(k)], "ACK"))
    BY <1>1, <2>1, ClientReceives
  <2> QED
    BY <1>1, <1>4, <2>1, <2>2, <2>3, <2>4, OwnClient
<1>6. ~EnqueueChild(k, k, flags)
  BY <1>3 DEF EnqueueChild, InTable
<1>7. CASE AckFin(k, k, flags)
  <2>1. Phase(k) = "open" /\ Phase(k)' = "asked" /\ flags = "FIN|ACK"
    BY <1>1, <1>3, <1>7 DEF AckFin, InTable, Phase, TypeOK
  <2>2. ClientOK(k)'
    BY <1>3, <1>7 DEF AckFin, ClientOK, InTable, tables, TypeOK
  <2>3. to' = Answered(k, k, "ACK")
    BY <1>7 DEF AckFin
  <2>4. Ordered("asked", Phase(Peer(k)), Tail(to[k]), Append(to[Peer(k)], "ACK"))
    BY <1>1, <2>1, ClientReceives
  <2> QED
    BY <1>1, <1>4, <2>1, <2>2, <2>3, <2>4, OwnClient
<1>8. CASE FinAcked(k, k, flags)
  <2>1. Phase(k) = "first" /\ Phase(k)' = "half" /\ flags = "ACK"
    BY <1>1, <1>3, <1>8 DEF FinAcked, InTable, Phase, Enters, TypeOK
  <2>2. ClientOK(k)'
    BY <1>3, <1>8 DEF FinAcked, ClientOK, InTable, Enters, tables, TypeOK
  <2>3. to' = Taken(k)
    BY <1>8 DEF FinAcked
  <2>4. Ordered("half", Phase(Peer(k)), Tail(to[k]), to[Peer(k)])
    BY <1>1, <2>1, ClientReceives
  <2> QED
    BY <1>1, <1>4, <2>1, <2>2, <2>3, <2>4, OwnClient
<1>9. CASE EnterTimeWait(k, k, flags)
  <2>1. Phase(k) \in {"first", "half"} /\ Phase(k)' = "wait" /\ flags = "FIN|ACK"
    BY <1>1, <1>3, <1>9 DEF EnterTimeWait, InTable, Phase, Enters, TypeOK
  <2>2. ClientOK(k)'
    BY <1>3, <1>9 DEF EnterTimeWait, ClientOK, InTable, Enters, tables, TypeOK
  <2>3. to' = Answered(k, k, "ACK")
    BY <1>9 DEF EnterTimeWait
  <2>4. Ordered("wait", Phase(Peer(k)), Tail(to[k]), Append(to[Peer(k)], "ACK"))
    BY <1>1, <2>1, ClientReceives
  <2> QED
    BY <1>1, <1>4, <2>1, <2>2, <2>3, <2>4, OwnClient
<1>10. CASE LastAcked(k, k, flags)
  <2>1. Phase(k) = "last" /\ Phase(k)' = "gone"
    BY <1>1, <1>3, <1>10 DEF LastAcked, InTable, Phase, Enters, TypeOK
  <2>2. ClientOK(k)'
    BY <1>3, <1>10 DEF LastAcked, ClientOK, InTable, NotInTable, Unhashed, Enters, TypeOK
  <2>3. to' = Taken(k)
    BY <1>10 DEF LastAcked
  <2>4. Ordered("gone", Phase(Peer(k)), Tail(to[k]), to[Peer(k)])
    BY <1>1, <2>1, ClientReceives
  <2> QED
    BY <1>1, <1>4, <2>1, <2>2, <2>3, <2>4, OwnClient
<1>11. CASE ~Expected(k, flags) /\ Ignore(k)
  <2>1. Phase(k) \in {"open", "asked", "wait"} /\ flags = "ACK"
    BY <1>1, <1>3, <1>11, ClientReceives DEF Expected, InTable
  <2>2. ClientKept(k) /\ to' = Taken(k)
    BY <1>11 DEF Ignore, ClientKept, tables
  <2>3. Phase(k)' = Phase(k) /\ ClientOK(k)'
    BY <2>2, ClientKeptFacts
  <2>4. Ordered(Phase(k), Phase(Peer(k)), Tail(to[k]), to[Peer(k)])
    BY <1>1, <2>1, ClientReceives
  <2> QED
    BY <1>1, <1>4, <2>2, <2>3, <2>4, OwnClient
<1> QED
  BY <1>5, <1>6, <1>7, <1>8, <1>9, <1>10, <1>11 DEF Process

LEMMA Handle_InOrder ==
  ASSUME TypeOK, NEW k \in Sock \ Child, InOrder(k), Unmet(k)', Handle(k)
  PROVE  InOrder(k)'
<1> USE InOrderFacts
<1>1. PICK flags \in Flags :
        /\ Receives(k, flags)
        /\ \/ Crash(k, flags)
           \/ SpawnChild(k, flags) \/ IgnoreListening(k, flags)
           \/ \E f \in Sock : Found(k, f) /\ Process(k, f, flags)
  BY DEF Handle, Flags
<1>2. ~SpawnChild(k, flags) /\ ~IgnoreListening(k, flags)
  BY SockFacts DEF SpawnChild, IgnoreListening, Found
<1>3. ~Crash(k, flags)
  <2> SUFFICES ASSUME Crash(k, flags) PROVE FALSE
    OBVIOUS
  <2>1. k \notin established_table /\ app[Host(k)] \notin InCall
    BY DEF Crash, Found, Unmet
  <2>2. NotInTable(k, "connect", "CLOSED") \/ NotInTable(k, "done", "CLOSED")
    BY <2>1 DEF ClientOK, InTable, NotInTable, InCall
  <2>3. Phase(k) \in {"idle", "gone"}
    BY <2>2, PhaseFacts DEF NotInTable
  <2> QED
    BY <1>1, <2>3, ClientReceives DEF Receives, Nothing
<1>4. PICK f \in Sock : Found(k, f) /\ Process(k, f, flags)
  BY <1>1, <1>2, <1>3
<1>5. ClientOnly(k)
  BY ClientOnlyStep DEF Step
<1> QED
  BY <1>1, <1>4, <1>5, FoundFacts, Process_InOrder

LEMMA OnlyChildrenAccept ==
  ASSUME NEW k \in Sock \ Child, ClientOK(k) PROVE ~EstablishChild(k)
  BY IdleFacts DEF EstablishChild, ClientOK, InTable, NotInTable

LEMMA Client_InOrder ==
  ASSUME TypeOK, NEW k \in Sock \ Child, InOrder(k), Unmet(k)', Step(k)
  PROVE  InOrder(k)'
<1> USE InOrderFacts
<1>1. ClientOnly(k)
  BY ClientOnlyStep
<1>2. CASE EnterCloseWait(k)
  <2>1. /\ app[Host(k)] \in {"sleep", "open"} /\ state[k] = "ESTABLISHED"
        /\ k \in established_table /\ net[Host(k)] = <<"fin", k>>
    BY <1>2, IdleFacts DEF EnterCloseWait, ClientOK, InTable, NotInTable
  <2>2. Phase(k) = "asked"
    BY <2>1, PhaseFacts
  <2>3. Phase(k)' = "asked" /\ to' = to /\ Host(k) \notin crashed'
    BY <1>2, <2>1 DEF EnterCloseWait, Enters, Phase, Calls, TypeOK
  <2>4. ClientOK(k)'
    BY <1>2, <2>1 DEF EnterCloseWait, Enters, tables, ClientOK, InTable, TypeOK
  <2> QED
    BY <1>1, <2>2, <2>3, <2>4, OwnClient
<1>3. ~EstablishChild(k)
  BY OnlyChildrenAccept
<1>4. CASE Expire(k)
  <2>1. InTable(k, {"done"}, {"TIME_WAIT"}) /\ to[k] = Nothing /\ to[Peer(k)] = Nothing
    BY <1>4 DEF Expire, Due, ClientOK, InTable, NotInTable, Nothing
  <2>2. Phase(k) = "wait"
    BY <2>1, PhaseFacts DEF InTable
  <2>3. Phase(k)' = "gone" /\ to' = to /\ Host(k) \notin crashed'
    BY <1>4, <2>1 DEF InTable, Expire, Enters, Phase, TypeOK
  <2>4. ClientOK(k)'
    BY <1>4, <2>1 DEF Expire, Enters, Unhashed, ClientOK, InTable, NotInTable, TypeOK
  <2> QED
    BY <1>1, <2>1, <2>2, <2>3, <2>4, ClientForgets, OwnClient
<1> QED
  BY <1>2, <1>3, <1>4, Connect_InOrder, Close_InOrder, Handle_InOrder DEF Step
-------------------------------------------------------------------------------
(* The bucket of the listening port. *)
LEMMA UnlinkedBucket ==
  ASSUME Bucket, NEW s \in Sock
  PROVE  \/ listen_table = <<s, Listener>> /\ Unlinked(listen_table, s) = <<Listener>>
         \/ listen_table # <<s, Listener>> /\ Unlinked(listen_table, s) = listen_table
<1> USE SockFacts, ChildFacts
<1>1. CASE listen_table = <<s, Listener>>
  <2>1. s \in Child
    <3>1. PICK k \in Child : listen_table = <<k, Listener>>
      BY <1>1 DEF Bucket
    <3> QED
      BY <1>1, <3>1
  <2> QED
    BY <1>1, <2>1, UnlinkedFirst
<1>2. CASE listen_table # <<s, Listener>>
  <2>1. \A i \in DOMAIN listen_table : listen_table[i] # s
    <3>1. CASE listen_table = << >>
      BY <3>1
    <3>2. CASE listen_table = <<Listener>>
      BY <3>2
    <3>3. ASSUME NEW k \in Child, listen_table = <<k, Listener>>
          PROVE  \A i \in DOMAIN listen_table : listen_table[i] # s
      BY <1>2, <3>3
    <3> QED
      BY <3>1, <3>2, <3>3 DEF Bucket
  <2> QED
    BY <1>2, <2>1 DEF Unlinked
<1> QED
  BY <1>1, <1>2

LEMMA BucketHead ==
  ASSUME Bucket, listen_table # << >>
  PROVE  \/ listen_table = <<Listener>> /\ Head(listen_table) = Listener
         \/ \E k \in Child : listen_table = <<k, Listener>> /\ Head(listen_table) = k
  BY DEF Bucket

LEMMA UnhashedBucket ==
  ASSUME Bucket, NEW s \in Sock, Unhashed(s),
         app'[Server] \in {"bind", "listen"} => app[Server] \in {"bind", "listen"}
  PROVE  Bucket'
<1>1. listen_table' = Unlinked(listen_table, s)
  BY DEF Unhashed
<1>2. << >> # <<s, Listener>>
  OBVIOUS
<1>3. listen_table' \in {listen_table, <<Listener>>} /\ (listen_table = << >> => listen_table' = << >>)
  BY <1>1, <1>2, UnlinkedBucket
<1> QED
  BY <1>3 DEF Bucket

LEMMA SpawnedBucket ==
  ASSUME Bucket, NEW s \in Sock, Found(s, Listener)
  PROVE  /\ s \in Child /\ listen_table = <<Listener>>
         /\ <<s>> \o listen_table = <<s, Listener>>
<1>1. s \in Child /\ listen_table # << >> /\ Listener = Head(listen_table)
  BY SockFacts DEF Found
<1>2. listen_table = <<Listener>>
  BY <1>1, BucketHead, ChildFacts
<1> QED
  BY <1>1, <1>2, ConcatTwo

LEMMA BucketStep == ASSUME TypeOK, Bucket, Next PROVE Bucket'
<1> USE SockFacts, ChildFacts
<1>1. CASE Bind \/ Listen \/ Accept
  <2>1. CASE Listen
    <3>1. listen_table' = <<Listener>> /\ app'[Server] = "accept"
      BY <2>1 DEF Listen, Goes, TypeOK, Hosts
    <3> QED
      BY <3>1 DEF Bucket
  <2>2. CASE Bind \/ Accept
    <3>1. /\ listen_table' = listen_table
          /\ app'[Server] \in {"bind", "listen"} => app[Server] = "bind"
      BY <2>2 DEF Bind, Accept, Goes, tables, TypeOK
    <3> QED
      BY <3>1 DEF Bucket
  <2> QED
    BY <1>1, <2>1, <2>2
<1>2. ASSUME NEW s \in Sock, s \notin Child /\ Connect(s)
      PROVE  Bucket'
  BY <1>2 DEF Connect, SendSyn, EnterSynSent, Hash, ConnectReturns, Goes, tables, Bucket, TypeOK
<1>3. ASSUME NEW s \in Sock, Close(s) PROVE Bucket'
  <2>1. app'[Server] \in {"bind", "listen"} => app[Server] \in {"bind", "listen"}
    BY <1>3 DEF Close, SendLastFin, EnterLastAck, SendFirstFin, EnterFinWait1, CloseAtOnce, Goes,
                Returns, TypeOK
  <2>2. CASE CloseAtOnce(s)
    BY <2>1, <2>2, UnhashedBucket DEF CloseAtOnce
  <2>3. CASE ~CloseAtOnce(s)
    BY <1>3, <2>1, <2>3 DEF Close, SendLastFin, EnterLastAck, SendFirstFin, EnterFinWait1, tables, Bucket
  <2> QED
    BY <2>2, <2>3
<1>4. ASSUME NEW s \in Sock, EstablishChild(s) \/ EnterCloseWait(s) PROVE Bucket'
  BY <1>4 DEF EstablishChild, EnterCloseWait, tables, Bucket
<1>5. ASSUME NEW s \in Sock, Expire(s) PROVE Bucket'
  BY <1>5, UnhashedBucket DEF Expire
<1>6. ASSUME NEW s \in Sock, Handle(s) PROVE Bucket'
  <2>1. PICK flags \in Flags :
          \/ Crash(s, flags)
          \/ SpawnChild(s, flags) \/ IgnoreListening(s, flags)
          \/ \E f \in Sock : Found(s, f) /\ Process(s, f, flags)
    BY <1>6 DEF Handle, Flags
  <2>2. CASE Crash(s, flags) \/ IgnoreListening(s, flags)
    BY <2>2 DEF Crash, IgnoreListening, Ignore, tables, Bucket
  <2>3. CASE SpawnChild(s, flags)
    <3>1. s \in Child /\ listen_table = <<Listener>> /\ listen_table' = <<s, Listener>> /\ app' = app
      BY <2>3, SpawnedBucket DEF SpawnChild, Spawn
    <3> QED
      BY <3>1 DEF Bucket
  <2>4. ASSUME NEW f \in Sock, Process(s, f, flags) PROVE Bucket'
    <3>1. CASE LastAcked(s, f, flags)
      BY <3>1, UnhashedBucket DEF LastAcked
    <3>2. CASE ~LastAcked(s, f, flags)
      BY <2>4, <3>2 DEF Process, FinishConnect, EnqueueChild, AckFin, FinAcked, EnterTimeWait, Ignore,
                        tables, Bucket
    <3> QED
      BY <3>1, <3>2
  <2> QED
    BY <2>1, <2>2, <2>3, <2>4
<1> QED
  BY <1>1, <1>2, <1>3, <1>4, <1>5, <1>6 DEF Next, Step

(* The steps of the server's threads leave every client alone. *)
LEMMA ServerKeepsClients ==
  ASSUME TypeOK, NEW k \in Sock \ Child,
         Bind \/ Listen \/ Accept \/ \E g \in Child : Step(g)
  PROVE  ClientKept(k)
<1> USE SockFacts, ChildFacts DEF TypeOK
<1>1. Host(k) \in Hosts /\ Host(k) # Server
  OBVIOUS
<1>2. CASE Bind \/ Listen \/ Accept
  BY <1>1, <1>2 DEF Bind, Listen, Accept, Goes, tables, ClientKept
<1>3. ASSUME NEW g \in Child, Step(g) PROVE ClientKept(k)
  <2>1. Host(g) = Server /\ g # k
    OBVIOUS
  <2>2. CASE Close(g)
    BY <1>1, <2>1, <2>2 DEF Close, SendLastFin, EnterLastAck, SendFirstFin, EnterFinWait1, CloseAtOnce,
       Goes, Enters, Unhashed, tables, ClientKept
  <2>3. CASE EstablishChild(g) \/ EnterCloseWait(g) \/ Expire(g)
    BY <1>1, <2>1, <2>3 DEF EstablishChild, EnterCloseWait, Expire, Enters, Unhashed, tables, ClientKept
  <2>4. CASE Handle(g)
    <3>1. PICK flags \in Flags :
            \/ Crash(g, flags)
            \/ SpawnChild(g, flags) \/ IgnoreListening(g, flags)
            \/ \E f \in Sock : Found(g, f) /\ Process(g, f, flags)
      BY <2>4 DEF Handle, Flags
    <3>2. CASE Crash(g, flags) \/ SpawnChild(g, flags) \/ IgnoreListening(g, flags)
      BY <1>1, <2>1, <3>2 DEF Crash, SpawnChild, Spawn, IgnoreListening, Ignore, Enters, tables, ClientKept
    <3>3. ASSUME NEW f \in Sock, Found(g, f), Process(g, f, flags) PROVE ClientKept(k)
      <4>1. f \in Child /\ Host(f) = Server /\ f # k
        BY <3>3, FoundFacts
      <4> QED
        BY <1>1, <3>3, <4>1 DEF Process, FinishConnect, EnqueueChild, AckFin, FinAcked, EnterTimeWait,
             LastAcked, Ignore, Enters, Unhashed, tables, ClientKept
    <3> QED
      BY <3>1, <3>2, <3>3
  <2> QED
    BY <1>3, <2>2, <2>3, <2>4 DEF Step
<1> QED
  BY <1>2, <1>3
-------------------------------------------------------------------------------
(* The steps of the server's threads, for the connection of k.             *)
LEMMA ServerCalls_InOrder ==
  ASSUME TypeOK, Bucket, NEW k \in Sock \ Child, InOrder(k), Bind \/ Listen \/ Accept
  PROVE  InOrder(k)'
<1> DEFINE f == Peer(k)
<1>1. f \in Child /\ Host(f) = Server /\ Server \in Hosts /\ ChildOK(f)
  BY InOrderFacts, SockFacts
<1>2. ClientKept(k)
  BY ServerKeepsClients
<1> HIDE DEF f
<1>3. to' = to /\ state' = state /\ net' = net
  BY DEF Bind, Listen, Accept, tables
<1>4. app[Server] \in {"bind", "listen", "accept"} /\ app'[Server] \in {"listen", "accept", "open"}
  BY <1>1 DEF Bind, Listen, Accept, Goes, TypeOK
<1>5. ~OffWork(f) => listen_table' = listen_table
  <2>1. CASE Listen
    <3>1. listen_table = << >>
      BY <2>1 DEF Listen, Goes, Bucket
    <3>2. << >> # <<f, Listener>>
      OBVIOUS
    <3> QED
      BY <1>1, <3>1, <3>2 DEF ChildOK
  <2>2. CASE Bind \/ Accept
    BY <2>2 DEF Bind, Accept, tables
  <2> QED
    BY <2>1, <2>2
<1>6. ChildKept(f)
  BY <1>1, <1>3, <1>4, <1>5 DEF ChildKept, Calls
<1> QED
  BY <1>2, <1>3, <1>6, OtherChild DEF f

(* A step for another child than that of k.                                *)
LEMMA OtherChild_InOrder ==
  ASSUME TypeOK, Bucket, NEW k \in Sock \ Child, InOrder(k), NEW g \in Child, g # Peer(k),
         Close(g) \/ EstablishChild(g) \/ EnterCloseWait(g) \/ Expire(g)
  PROVE  InOrder(k)'
<1> DEFINE f == Peer(k)
<1>1. f \in Sock /\ f \in Child /\ Host(f) = Server /\ Server \in Hosts /\ ChildOK(f)
  BY InOrderFacts, SockFacts
<1>2. ClientKept(k)
  BY ServerKeepsClients DEF Step
<1>3. g \in Sock /\ Host(g) = Server /\ Peer(g) # k /\ g # k /\ Peer(g) # f
  BY SockFacts, ChildFacts
<1>4. k \in Sock /\ g # f
  OBVIOUS
<1> HIDE DEF f
<1>5. state'[f] = state[f]
  BY <1>1, <1>4 DEF Close, SendLastFin, EnterLastAck, SendFirstFin, EnterFinWait1, CloseAtOnce, EstablishChild,
         EnterCloseWait, Expire, Enters, TypeOK
<1>6. to'[k] = to[k] /\ to'[f] = to[f]
  BY <1>1, <1>3, <1>4 DEF Close, SendLastFin, EnterLastAck, SendFirstFin, EnterFinWait1, CloseAtOnce, EstablishChild,
         EnterCloseWait, Expire, Sends, TypeOK
<1>7. /\ net'[Server] = <<"accept", f>> <=> net[Server] = <<"accept", f>>
      /\ net'[Server] = <<"fin", f>> <=> net[Server] = <<"fin", f>>
  <2>1. CASE Close(g) \/ Expire(g)
    BY <2>1 DEF Close, SendLastFin, EnterLastAck, SendFirstFin, EnterFinWait1, CloseAtOnce, Expire
  <2>2. CASE EstablishChild(g) \/ EnterCloseWait(g)
    <3>1. net[Server] \in {<<"accept", g>>, <<"fin", g>>} /\ net'[Server] = << >>
      BY <1>1, <1>3, <2>2 DEF EstablishChild, EnterCloseWait, TypeOK
    <3> QED
      BY <1>4, <3>1, IdleFacts
  <2> QED
    BY <2>1, <2>2
<1>8. \A p \in {"last", "wait1"} : Calls(f, p)' <=> Calls(f, p)
  <2>1. CASE Close(g)
    <3>1. accepted = g /\ accepted' = g
      BY <2>1 DEF Close, SendLastFin, EnterLastAck, SendFirstFin, EnterFinWait1, CloseAtOnce
    <3> QED
      BY <1>1, <1>4, <3>1 DEF Calls
  <2>2. CASE EstablishChild(g) \/ EnterCloseWait(g) \/ Expire(g)
    BY <2>2 DEF EstablishChild, EnterCloseWait, Expire, Calls
  <2> QED
    BY <2>1, <2>2
<1>9. listen_table = <<f, Listener>> => listen_table' = listen_table
  <2>1. <<f, Listener>> # <<g, Listener>>
    BY <1>4
  <2>2. listen_table = <<f, Listener>> => Unlinked(listen_table, g) = listen_table
    BY <1>3, <2>1, UnlinkedBucket
  <2> QED
    BY <2>2 DEF Close, SendLastFin, EnterLastAck, SendFirstFin, EnterFinWait1, CloseAtOnce, EstablishChild,
                EnterCloseWait, Expire, Unhashed, tables
<1>10. ChildKept(f)
  BY <1>5, <1>7, <1>8, <1>9 DEF ChildKept
<1> QED
  BY <1>2, <1>6, <1>10, OtherChild DEF f

(* The socket calls on the child of k. *)
LEMMA ChildClose_InOrder ==
  ASSUME TypeOK, Bucket, NotYetQueued, NEW k \in Sock \ Child, InOrder(k), Unmet(k)', Close(Peer(k))
  PROVE  InOrder(k)'
<1> DEFINE f == Peer(k)
<1>1. /\ f \in Sock /\ f \in Child /\ Peer(f) = k /\ Host(f) = Server /\ Server \in Hosts /\ ChildOK(f)
      /\ Ordered(Phase(k), Phase(f), to[k], to[f]) /\ k \in Sock /\ f # k
      /\ to[k] \in Seq(Flags) /\ to[f] \in Seq(Flags)
  BY InOrderFacts, SockFacts
<1>2. ClientKept(k)
  BY <1>1, ServerKeepsClients DEF Step
<1>3. f \notin overtaken' /\ Close(f)
  BY DEF Unmet
<1>4. ASSUME ChildOK(f)', Ordered(Phase(k), Phase(f)', to'[k], to'[f]) PROVE InOrder(k)'
  BY <1>2, <1>4, OwnChild
<1> HIDE DEF f
<1>5. accepted = f /\ accepted' = f /\ net' = net
  BY <1>1, <1>3 DEF Close, SendLastFin, EnterLastAck, SendFirstFin, EnterFinWait1, CloseAtOnce
<1>6. Host(f)' = Server
  BY <1>1 DEF Host
<1>7. CASE SendLastFin(f)
  <2>1. /\ state[f] = "CLOSE_WAIT" /\ app[Server] = "open" /\ app'[Server] = "last" /\ state' = state
        /\ net[Server] \notin {<<"accept", f>>, <<"fin", f>>}
        /\ listen_table' = listen_table
        /\ to'[k] = Append(to[k], "FIN|ACK") /\ to'[f] = to[f]
    BY <1>1, <1>3, <1>7 DEF SendLastFin, Goes, Meets, Sends, tables, TypeOK
  <2>2. Phase(f) = "asked" /\ Phase(f)' = "last"
    BY <1>1, <1>5, <2>1 DEF Phase, Calls
  <2>3. ChildOK(f)'
    BY <1>1, <1>5, <2>1 DEF ChildOK, Calls, OffWork
  <2>4. Ordered(Phase(k), "last", Append(to[k], "FIN|ACK"), to[f])
    BY <1>1, <2>2, ChildAnswers DEF Answers
  <2> QED
    BY <1>4, <2>1, <2>2, <2>3, <2>4
<1>8. CASE EnterLastAck(f)
  <2>1. /\ app[Server] = "last" /\ app'[Server] = "accept" /\ state'[f] = "LAST_ACK"
        /\ listen_table' = listen_table /\ to' = to
    BY <1>1, <1>8 DEF EnterLastAck, Goes, Returns, Enters, tables, TypeOK
  <2>2. state[f] = "CLOSE_WAIT"
    BY <1>1, <1>5, <2>1 DEF ChildOK, Calls
  <2>3. Phase(f) = "last" /\ Phase(f)' = "last"
    BY <1>1, <1>5, <2>1, <2>2 DEF Phase, Calls
  <2>4. ChildOK(f)'
    BY <1>1, <1>5, <2>1, <2>2 DEF ChildOK, Calls, OffWork
  <2> QED
    BY <1>1, <1>4, <2>1, <2>3, <2>4
<1>9. CASE SendFirstFin(f)
  <2>1. /\ state[f] = "ESTABLISHED" /\ app[Server] = "open" /\ app'[Server] = "wait1" /\ state' = state
        /\ net[Server] \notin {<<"accept", f>>, <<"fin", f>>}
        /\ listen_table' = listen_table
        /\ to'[k] = Append(to[k], "FIN|ACK") /\ to'[f] = to[f]
    BY <1>1, <1>3, <1>9 DEF SendFirstFin, Goes, Meets, Sends, tables, TypeOK
  <2>2. Phase(f) = "open" /\ Phase(f)' = "first"
    BY <1>1, <1>5, <2>1 DEF Phase, Calls
  <2>3. ChildOK(f)'
    BY <1>1, <1>5, <2>1 DEF ChildOK, Calls, OffWork
  <2>4. Ordered(Phase(k), "first", Append(to[k], "FIN|ACK"), to[f])
    BY <1>1, <2>2, ChildAnswers DEF Answers
  <2> QED
    BY <1>4, <2>1, <2>2, <2>3, <2>4
<1>10. CASE EnterFinWait1(f)
  <2>1. /\ app[Server] = "wait1" /\ app'[Server] = "accept" /\ state'[f] = "FIN_WAIT_1"
        /\ listen_table' = listen_table /\ to' = to
    BY <1>1, <1>10 DEF EnterFinWait1, Goes, Returns, Enters, tables, TypeOK
  <2>2. state[f] = "ESTABLISHED" /\ net[Server] \notin {<<"accept", f>>, <<"fin", f>>}
    BY <1>1, <1>5, <2>1 DEF ChildOK, Calls
  <2>3. Phase(f) = "first" /\ Phase(f)' = "first"
    BY <1>1, <1>5, <2>1, <2>2 DEF Phase, Calls
  <2>4. ChildOK(f)'
    BY <1>1, <1>5, <2>1, <2>2 DEF ChildOK, Calls, OffWork
  <2> QED
    BY <1>1, <1>4, <2>1, <2>3, <2>4
<1>11. CASE CloseAtOnce(f)
  <2>1. /\ state[f] \notin {"CLOSE_WAIT", "ESTABLISHED"} /\ app'[Server] = "accept" /\ state'[f] = "CLOSED"
        /\ net[Server] \notin {<<"accept", f>>, <<"fin", f>>} /\ to' = to
    BY <1>1, <1>3, <1>11 DEF CloseAtOnce, Goes, Returns, Enters, Meets, TypeOK
  <2>2. state[f] \notin {"NONE", "SYN_RECV"}
    BY <1>1, <1>5, <2>1 DEF NotYetQueued
  <2>3. Phase(f) # "opening"
    BY <1>1 DEF Ordered, ToClient, FromChild
  <2>4. Phase(f) \in {"last", "first", "half", "wait", "gone"}
    BY <1>1, <2>1, <2>2, <2>3, PhaseFacts DEF TypeOK, States
  <2>5. Phase(f)' = "gone"
    BY <1>1, <2>1 DEF Phase
  <2>6. ChildOK(f)'
    BY <1>1, <1>5, <2>1 DEF ChildOK, Calls, OffWork
  <2>7. Ordered(Phase(k), "gone", to[k], to[f])
    BY <1>1, <2>4, ChildTurns DEF Turns
  <2> QED
    BY <1>4, <2>1, <2>5, <2>6, <2>7
<1> QED
  BY <1>3, <1>7, <1>8, <1>9, <1>10, <1>11 DEF Close

(* The second halves of the handlers, and the timer thread. *)
LEMMA ChildHandled_InOrder ==
  ASSUME TypeOK, Bucket, NEW k \in Sock \ Child, InOrder(k),
         EstablishChild(Peer(k)) \/ EnterCloseWait(Peer(k)) \/ Expire(Peer(k))
  PROVE  InOrder(k)'
<1> DEFINE f == Peer(k)
<1>1. /\ f \in Sock /\ f \in Child /\ Peer(f) = k /\ Host(f) = Server /\ Server \in Hosts /\ ChildOK(f)
      /\ Ordered(Phase(k), Phase(f), to[k], to[f]) /\ k \in Sock /\ f # k
      /\ to[k] \in Seq(Flags) /\ to[f] \in Seq(Flags)
  BY InOrderFacts, SockFacts
<1>2. ClientKept(k)
  BY <1>1, ServerKeepsClients DEF Step
<1>3. EstablishChild(f) \/ EnterCloseWait(f) \/ Expire(f)
  OBVIOUS
<1>4. ASSUME ChildOK(f)', Ordered(Phase(k), Phase(f)', to'[k], to'[f]) PROVE InOrder(k)'
  BY <1>2, <1>4, OwnChild
<1> HIDE DEF f
<1>5. to' = to /\ app' = app /\ accepted' = accepted
  BY <1>3 DEF EstablishChild, EnterCloseWait, Expire
<1>6. Calls(f, "last")' <=> Calls(f, "last")
  BY <1>5 DEF Calls
<1>7. Calls(f, "wait1")' <=> Calls(f, "wait1")
  BY <1>5 DEF Calls
<1>8. CASE EstablishChild(f)
  <2>1. /\ net[Server] = <<"accept", f>> /\ net'[Server] = << >> /\ state'[f] = "ESTABLISHED"
        /\ listen_table' = listen_table
    BY <1>1, <1>8 DEF EstablishChild, Enters, tables, TypeOK
  <2>2. state[f] = "SYN_RECV" /\ ~Calls(f, "wait1") /\ ~Calls(f, "last")
    BY <1>1, <2>1 DEF ChildOK
  <2>3. Phase(f) = "open" /\ Phase(f)' = "open"
    BY <1>1, <1>7, <2>1, <2>2, IdleFacts DEF Phase
  <2>4. ChildOK(f)'
    BY <1>1, <1>6, <1>7, <2>1, <2>2, IdleFacts DEF ChildOK, OffWork
  <2> QED
    BY <1>1, <1>4, <1>5, <2>3, <2>4
<1>9. CASE EnterCloseWait(f)
  <2>1. /\ net[Server] = <<"fin", f>> /\ net'[Server] = << >> /\ state'[f] = "CLOSE_WAIT"
        /\ listen_table' = listen_table
    BY <1>1, <1>9 DEF EnterCloseWait, Enters, tables, TypeOK
  <2>2. state[f] = "ESTABLISHED" /\ ~Calls(f, "wait1") /\ ~Calls(f, "last")
    BY <1>1, <2>1 DEF ChildOK
  <2>3. Phase(f) = "asked" /\ Phase(f)' = "asked"
    BY <1>1, <1>6, <2>1, <2>2 DEF Phase
  <2>4. ChildOK(f)'
    BY <1>1, <1>6, <1>7, <2>1, <2>2, IdleFacts DEF ChildOK, OffWork
  <2> QED
    BY <1>1, <1>4, <1>5, <2>3, <2>4
<1>10. CASE Expire(f)
  <2>1. state[f] = "TIME_WAIT" /\ state'[f] = "CLOSED" /\ net' = net
    BY <1>1, <1>10 DEF Expire, Due, Enters, TypeOK
  <2>2. Phase(f) = "wait" /\ Phase(f)' = "gone"
    BY <1>1, <2>1 DEF Phase
  <2>3. ChildOK(f)'
    BY <1>1, <1>6, <1>7, <2>1 DEF ChildOK, OffWork
  <2>4. Ordered(Phase(k), "gone", to[k], to[f])
    BY <1>1, <2>2, ChildTurns DEF Turns
  <2> QED
    BY <1>1, <1>4, <1>5, <2>2, <2>3, <2>4
<1> QED
  BY <1>3, <1>8, <1>9, <1>10

(* A packet that finds nothing but another child, or no child, is lost.    *)
LEMMA PacketLost ==
  ASSUME TypeOK, NEW k \in Sock \ Child, InOrder(k), ClientKept(k), ChildKept(Peer(k)),
         OffWork(Peer(k)), to'[k] = to[k],
         \/ to'[Peer(k)] = to[Peer(k)]
         \/ to[Peer(k)] # Nothing /\ to'[Peer(k)] = Tail(to[Peer(k)])
  PROVE  InOrder(k)'
<1> DEFINE f == Peer(k)
<1>1. /\ f \in Sock /\ f \in Child /\ ChildOK(f) /\ Ordered(Phase(k), Phase(f), to[k], to[f])
      /\ to[k] \in Seq(Flags) /\ to[f] \in Seq(Flags)
  BY InOrderFacts
<1>2. Phase(f)' = Phase(f) /\ ChildOK(f)'
  BY <1>1, ChildKeptFacts
<1>3. Phase(f) \in {"none", "gone"}
  BY <1>1, PhaseFacts DEF OffWork
<1>4. Ordered(Phase(k), Phase(f), to[k], to'[f])
  BY <1>1, <1>3, ChildTurns DEF Turns
<1> QED
  BY <1>2, <1>4, OwnChild

LEMMA ChildProcess_InOrder ==
  ASSUME TypeOK, NEW k \in Sock \ Child, InOrder(k), Unmet(k)', NEW g \in Child, NEW flags \in Flags,
         Receives(g, flags), Process(g, Peer(k), flags), ClientKept(k), Found(g, Peer(k))
  PROVE  InOrder(k)'
<1> DEFINE f == Peer(k)
           c == IF g = f THEN Tail(to[f]) ELSE to[f]
<1>1. /\ f \in Sock /\ f \in Child /\ Peer(f) = k /\ Host(f) = Server /\ Server \in Hosts /\ ChildOK(f)
      /\ Ordered(Phase(k), Phase(f), to[k], to[f]) /\ k \in Sock /\ f # k
      /\ to[k] \in Seq(Flags) /\ to[f] \in Seq(Flags)
  BY InOrderFacts, SockFacts
<1>2. g \in Sock /\ Host(g) = Server /\ g # k
  BY SockFacts, ChildFacts
<1>3. ASSUME ChildOK(f)', Ordered(Phase(k), Phase(f)', to'[k], to'[f]) PROVE InOrder(k)'
  BY <1>3, OwnChild
<1>4. f \notin overtaken' /\ Process(g, f, flags)
  BY DEF Unmet
<1> HIDE DEF f
<1>5. net[Server] = << >> /\ (g = f => to[f] # Nothing /\ Head(to[f]) = flags)
  BY <1>2 DEF Receives, Nothing
<1>6. ~Calls(f, "last") /\ ~Calls(f, "wait1")
  BY <1>1, <1>4 DEF Process, MeetsCall, InCall, Calls
<1>7. app' = app /\ accepted' = accepted
  BY <1>4 DEF Process, FinishConnect, EnqueueChild, AckFin, FinAcked, EnterTimeWait, LastAcked, Ignore
<1>8. ~Calls(f, "last")' /\ ~Calls(f, "wait1")'
  BY <1>6, <1>7 DEF Calls
<1>9. /\ to' = Taken(g) => to'[k] = to[k] /\ to'[f] = c
      /\ to' = Answered(g, f, "ACK") => to'[k] = Append(to[k], "ACK") /\ to'[f] = c
  BY <1>1, <1>2 DEF Taken, Answered, TypeOK
<1>10. c = to[f] \/ (to[f] # Nothing /\ c = Tail(to[f]) /\ Head(to[f]) = flags)
  BY <1>5
<1> HIDE DEF c
<1>11. net'[Server] = << >> \/ EnqueueChild(g, f, flags) \/ AckFin(g, f, flags)
  BY <1>4, <1>5 DEF Process, FinishConnect, EnqueueChild, AckFin, FinAcked, EnterTimeWait, LastAcked, Ignore
<1>12. ~OffWork(f) /\ ~LastAcked(g, f, flags) => listen_table' = <<f, Listener>>
  BY <1>1, <1>4 DEF ChildOK, Process, FinishConnect, EnqueueChild, AckFin, FinAcked, EnterTimeWait, Ignore, tables
<1>13. CASE FinishConnect(g, f, flags)
  <2>1. Phase(f) = "opening"
    BY <1>1, <1>13, PhaseFacts DEF FinishConnect
  <2> QED
    BY <1>1, <2>1 DEF Ordered, ToClient, FromChild
<1>14. CASE EnqueueChild(g, f, flags)
  <2>1. /\ state[f] = "SYN_RECV" /\ flags = "ACK" /\ state'[f] = "SYN_RECV"
        /\ net'[Server] = <<"accept", f>> /\ to' = Taken(g)
    BY <1>1, <1>14 DEF EnqueueChild, TypeOK
  <2>2. Phase(f) = "answering" /\ Phase(f)' = "open"
    BY <1>1, <1>5, <2>1, IdleFacts DEF Phase
  <2>3. ChildOK(f)'
    BY <1>8, <1>12, <2>1, <1>14 DEF ChildOK, OffWork, EnqueueChild, LastAcked
  <2>4. Ordered(Phase(k), "open", to[k], c)
    BY <1>1, <1>10, <2>1, <2>2, ChildTurns DEF Turns
  <2> QED
    BY <1>3, <1>9, <2>1, <2>2, <2>3, <2>4
<1>15. CASE AckFin(g, f, flags)
  <2>1. /\ state[f] = "ESTABLISHED" /\ flags = "FIN|ACK" /\ state'[f] = "ESTABLISHED"
        /\ net'[Server] = <<"fin", f>> /\ to' = Answered(g, f, "ACK")
    BY <1>1, <1>15 DEF AckFin, TypeOK
  <2>2. Phase(f) = "open" /\ Phase(f)' = "asked"
    BY <1>1, <1>5, <1>6, <2>1, IdleFacts DEF Phase
  <2>3. ChildOK(f)'
    BY <1>8, <1>12, <2>1, <1>15 DEF ChildOK, OffWork, AckFin, LastAcked
  <2>4. Ordered(Phase(k), "asked", Append(to[k], "ACK"), c)
    BY <1>1, <1>10, <2>2, ChildAnswers DEF Answers
  <2> QED
    BY <1>3, <1>9, <2>1, <2>2, <2>3, <2>4
<1>16. CASE FinAcked(g, f, flags)
  <2>1. /\ state[f] = "FIN_WAIT_1" /\ flags = "ACK" /\ state'[f] = "FIN_WAIT_2"
        /\ net' = net /\ to' = Taken(g)
    BY <1>1, <1>16 DEF FinAcked, Enters, TypeOK
  <2>2. Phase(f) = "first" /\ Phase(f)' = "half"
    BY <1>1, <2>1 DEF Phase
  <2>3. ChildOK(f)'
    BY <1>5, <1>8, <1>12, <2>1, <1>16, IdleFacts DEF ChildOK, OffWork, FinAcked, LastAcked
  <2>4. Ordered(Phase(k), "half", to[k], c)
    BY <1>1, <1>10, <2>1, <2>2, ChildTurns DEF Turns
  <2> QED
    BY <1>3, <1>9, <2>1, <2>2, <2>3, <2>4
<1>17. CASE EnterTimeWait(g, f, flags)
  <2>1. /\ state[f] \in {"FIN_WAIT_1", "FIN_WAIT_2"} /\ flags = "FIN|ACK" /\ state'[f] = "TIME_WAIT"
        /\ net' = net /\ to' = Answered(g, f, "ACK")
    BY <1>1, <1>17 DEF EnterTimeWait, Enters, TypeOK
  <2>2. Phase(f) \in {"first", "half"} /\ Phase(f)' = "wait"
    BY <1>1, <2>1 DEF Phase
  <2>3. ChildOK(f)'
    BY <1>5, <1>8, <1>12, <2>1, <1>17, IdleFacts DEF ChildOK, OffWork, EnterTimeWait, LastAcked
  <2>4. Ordered(Phase(k), "wait", Append(to[k], "ACK"), c)
    BY <1>1, <1>10, <2>2, ChildAnswers DEF Answers
  <2> QED
    BY <1>3, <1>9, <2>1, <2>2, <2>3, <2>4
<1>18. CASE LastAcked(g, f, flags)
  <2>1. state[f] = "LAST_ACK" /\ state'[f] = "CLOSED" /\ net' = net /\ to' = Taken(g)
    BY <1>1, <1>18 DEF LastAcked, Enters, TypeOK
  <2>2. Phase(f) = "last" /\ Phase(f)' = "gone"
    BY <1>1, <2>1 DEF Phase
  <2>3. ChildOK(f)'
    BY <1>5, <1>8, <2>1, IdleFacts DEF ChildOK, OffWork
  <2>4. Ordered(Phase(k), "gone", to[k], c)
    BY <1>1, <1>10, <2>2, ChildTurns DEF Turns
  <2> QED
    BY <1>3, <1>9, <2>1, <2>2, <2>3, <2>4
<1>19. CASE ~Expected(f, flags) /\ Ignore(g)
  <2>1. state' = state /\ net' = net /\ listen_table' = listen_table /\ to' = Taken(g)
    BY <1>19 DEF Ignore, tables
  <2>2. ChildKept(f)
    BY <1>6, <1>8, <2>1 DEF ChildKept
  <2>3. Phase(f)' = Phase(f) /\ ChildOK(f)'
    BY <1>1, <2>2, ChildKeptFacts
  <2>4. CASE c = to[f]
    BY <1>1, <1>3, <1>9, <2>1, <2>3, <2>4
  <2>5. CASE to[f] # Nothing /\ c = Tail(to[f]) /\ Head(to[f]) = flags
    <3>1. Phase(f) # "answering"
      <4> SUFFICES ASSUME Phase(f) = "answering" PROVE FALSE
        OBVIOUS
      <4>1. state[f] = "SYN_RECV"
        BY <1>1 DEF Phase, TypeOK, States
      <4>2. Phase(k) # "opening"
        BY <1>1, <2>5 DEF Ordered, ToChild
      <4>3. flags = "ACK"
        BY <1>1, <2>5, <4>2 DEF Ordered, ToChild
      <4> QED
        BY <1>19, <4>1, <4>3 DEF Expected
    <3>2. Phase(f) \in {"open", "first", "half"} => flags # "FIN|ACK"
      <4>1. Phase(f) \in {"open", "first", "half"} =>
              state[f] \in {"ESTABLISHED", "FIN_WAIT_1", "FIN_WAIT_2"}
        BY <1>1, <1>5, IdleFacts DEF Phase, TypeOK, States
      <4> QED
        BY <1>19, <4>1 DEF Expected
    <3>3. Ordered(Phase(k), Phase(f), to[k], c)
      BY <1>1, <2>5, <3>1, <3>2, ChildTurns DEF Turns
    <3> QED
      BY <1>3, <1>9, <2>1, <2>3, <3>3
  <2> QED
    BY <1>10, <2>4, <2>5
<1> QED
  BY <1>4, <1>13, <1>14, <1>15, <1>16, <1>17, <1>18, <1>19 DEF Process

LEMMA ChildHandle_InOrder ==
  ASSUME TypeOK, Bucket, OneSyn, NotYetQueued, NEW k \in Sock \ Child, InOrder(k), Unmet(k)',
         NEW g \in Child, Handle(g)
  PROVE  InOrder(k)'
<1> DEFINE f == Peer(k)
<1>1. /\ f \in Sock /\ f \in Child /\ Peer(f) = k /\ Host(f) = Server /\ Server \in Hosts /\ ChildOK(f)
      /\ Ordered(Phase(k), Phase(f), to[k], to[f]) /\ k \in Sock /\ f # k
      /\ to[k] \in Seq(Flags) /\ to[f] \in Seq(Flags)
  BY InOrderFacts, SockFacts
<1>2. g \in Sock /\ Host(g) = Server /\ g # k /\ g \notin established_table
  BY SockFacts, ChildFacts DEF TypeOK
<1>3. ClientKept(k)
  BY ServerKeepsClients DEF Step
<1>4. PICK flags \in Flags :
        /\ Receives(g, flags)
        /\ \/ Crash(g, flags)
           \/ SpawnChild(g, flags) \/ IgnoreListening(g, flags)
           \/ \E h \in Sock : Found(g, h) /\ Process(g, h, flags)
  BY DEF Handle, Flags
<1>5. net[Server] = << >> /\ to[g] # Nothing /\ Head(to[g]) = flags
  BY <1>2, <1>4 DEF Receives, Nothing
<1>6. \A t \in Sock : Taken(g)[t] = IF t = g THEN Tail(to[t]) ELSE to[t]
  BY <1>2 DEF Taken, TypeOK
<1>7. ASSUME ChildKept(f), OffWork(f), to'[k] = to[k], to'[f] = Taken(g)[f] PROVE InOrder(k)'
  BY <1>1, <1>3, <1>5, <1>6, <1>7, PacketLost
<1>8. ~OffWork(f) => Found(g, f) /\ \A h : Found(g, h) => h = f
  <2> SUFFICES ASSUME ~OffWork(f) PROVE Found(g, f) /\ \A h : Found(g, h) => h = f
    OBVIOUS
  <2>1. listen_table = <<f, Listener>>
    BY <1>1 DEF ChildOK
  <2>2. listen_table # << >> /\ Head(listen_table) = f
    BY <2>1
  <2> QED
    BY <1>2, <2>2 DEF Found
<1>9. ASSUME NEW t \in {Listener} \cup Sock, Found(g, t), t # f PROVE OffWork(f)
  BY <1>8, <1>9
<1>10. CASE Crash(g, flags)
  <2>1. OffWork(f)
    BY <1>1, <1>8, <1>10 DEF Crash
  <2>2. ChildKept(f)
    BY <1>10 DEF Crash, tables, ChildKept, Calls
  <2>3. to'[k] = to[k] /\ to'[f] = Taken(g)[f]
    BY <1>1, <1>2, <1>6, <1>10 DEF Crash
  <2> QED
    BY <1>7, <2>1, <2>2, <2>3
<1>11. CASE IgnoreListening(g, flags)
  <2>1. OffWork(f)
    BY <1>1, <1>9, <1>11, ChildFacts DEF IgnoreListening
  <2>2. ChildKept(f)
    BY <1>11 DEF IgnoreListening, Ignore, tables, ChildKept, Calls
  <2>3. to'[k] = to[k] /\ to'[f] = Taken(g)[f]
    BY <1>1, <1>2, <1>6, <1>11 DEF IgnoreListening, Ignore
  <2> QED
    BY <1>7, <2>1, <2>2, <2>3
<1>12. CASE SpawnChild(g, flags)
  <2>1. /\ Found(g, Listener) /\ flags = "SYN" /\ listen_table' = <<g, Listener>>
        /\ net' = net /\ app' = app /\ accepted' = accepted
    BY <1>2, <1>12, SpawnedBucket DEF SpawnChild, Spawn
  <2>2. /\ \A t \in Sock : state'[t] = IF t = g THEN "SYN_RECV" ELSE state[t]
        /\ \A t \in Sock : to'[t] = IF t = Peer(g) THEN Append(Taken(g)[t], "SYN|ACK") ELSE Taken(g)[t]
    <3>1. Taken(g) \in [Sock -> Seq(Flags)]
      BY <1>2, <1>5 DEF Taken, TypeOK, Flags, Nothing
    <3> QED
      BY <1>2, <1>12, <3>1 DEF SpawnChild, Spawn, Enters, Answered, TypeOK
  <2>3. CASE g # f
    <3>1. OffWork(f)
      BY <1>1, <1>9, <2>1, ChildFacts
    <3>2. ChildKept(f)
      BY <1>1, <2>1, <2>2, <2>3, <3>1 DEF ChildKept, Calls
    <3>3. Peer(g) # k /\ Peer(g) # f
      BY <1>1, <1>2, <2>3, SockFacts
    <3> QED
      BY <1>1, <1>2, <1>6, <1>7, <2>2, <3>1, <3>2, <3>3
  <2>4. CASE g = f
    <3>1. state[f] = "NONE"
      <4>1. 1 \in DOMAIN to[f] /\ to[f][1] = "SYN"
        BY <1>1, <1>5, <2>1, <2>4 DEF Nothing
      <4> QED
        BY <1>1, <4>1 DEF OneSyn
    <3>2. Phase(f) = "none" /\ Phase(f)' = "answering"
      BY <1>1, <1>5, <2>1, <2>2, <2>4, <3>1, IdleFacts DEF Phase
    <3>3. to'[k] = Append(to[k], "SYN|ACK") /\ to'[f] = Tail(to[f])
      BY <1>1, <1>6, <2>2, <2>4
    <3>4. ChildOK(f)'
      <4>1. accepted' # f
        BY <1>1, <2>1, <3>1 DEF NotYetQueued
      <4>2. net'[Server] = << >> /\ state'[f] = "SYN_RECV" /\ listen_table' = <<f, Listener>>
        BY <1>1, <1>5, <2>1, <2>2, <2>4
      <4>3. ~Calls(f, "last")' /\ ~Calls(f, "wait1")'
        BY <1>1, <4>1 DEF Calls
      <4> QED
        BY <4>2, <4>3, IdleFacts DEF ChildOK
    <3>5. Ordered(Phase(k), "answering", Append(to[k], "SYN|ACK"), Tail(to[f]))
      BY <1>1, <1>5, <2>1, <2>4, <3>2, ChildSpawns
    <3> QED
      BY <1>3, <3>2, <3>3, <3>4, <3>5, OwnChild
  <2> QED
    BY <2>3, <2>4
<1>13. ASSUME NEW h \in Sock, Found(g, h), Process(g, h, flags) PROVE InOrder(k)'
  <2>1. CASE h = f
    BY <1>3, <1>4, <1>13, <2>1, ChildProcess_InOrder
  <2>2. CASE h # f
    <3>1. OffWork(f)
      BY <1>9, <1>13, <2>2
    <3>2. h \in Child /\ Host(h) = Server /\ Peer(h) # k /\ Peer(h) # f
      <4>1. h \in Child
        BY <1>2, <1>13, FoundFacts
      <4> QED
        BY <1>1, <2>2, <4>1, SockFacts, ChildFacts
    <3>3. state'[f] = state[f] /\ app' = app /\ accepted' = accepted
      BY <1>1, <1>13, <2>2 DEF Process, FinishConnect, EnqueueChild, AckFin, FinAcked, EnterTimeWait,
                               LastAcked, Ignore, Enters, TypeOK
    <3>4. net'[Server] \in {<< >>, <<"accept", h>>, <<"fin", h>>}
      BY <1>1, <1>5, <1>13, <3>2 DEF Process, FinishConnect, EnqueueChild, AckFin, FinAcked, EnterTimeWait,
                               LastAcked, Ignore, TypeOK
    <3>5. ChildKept(f)
      <4>1. net'[Server] \notin {<<"accept", f>>, <<"fin", f>>}
        <5>1. \A x \in {"accept", "fin"}, y \in {"accept", "fin"} : <<x, h>> # <<y, f>>
          BY <2>2
        <5> QED
          BY <3>4, <5>1, IdleFacts
      <4>2. net[Server] \notin {<<"accept", f>>, <<"fin", f>>}
        BY <1>5, IdleFacts
      <4> QED
        BY <3>1, <3>3, <4>1, <4>2 DEF ChildKept, Calls
    <3>6. to'[k] = to[k] /\ to'[f] = Taken(g)[f]
      <4>1. to' = Taken(g) \/ to' = Answered(g, h, "ACK")
        BY <1>13 DEF Process, FinishConnect, EnqueueChild, AckFin, FinAcked, EnterTimeWait, LastAcked, Ignore
      <4>2. to'[k] = Taken(g)[k] /\ to'[f] = Taken(g)[f]
        BY <1>1, <3>2, <4>1 DEF Answered, Taken, TypeOK
      <4> QED
        BY <1>1, <1>2, <1>6, <4>2
    <3> QED
      BY <1>7, <3>1, <3>5, <3>6
  <2> QED
    BY <2>1, <2>2
<1> QED
  BY <1>4, <1>10, <1>11, <1>12, <1>13
-------------------------------------------------------------------------------
LEMMA OrderlyStep ==
  ASSUME TypeOK, Bucket, OneSyn, NotYetQueued, Next, NEW k \in Sock \ Child, Orderly(k)
  PROVE  Orderly(k)'
<1> SUFFICES ASSUME Unmet(k)' PROVE InOrder(k)'
  BY DEF Orderly
<1>1. InOrder(k)
  BY OvertakenGrows DEF Orderly, Unmet
<1>2. CASE Bind \/ Listen \/ Accept
  BY <1>1, <1>2, ServerCalls_InOrder
<1>3. ASSUME NEW t \in Sock \ Child, Step(t) PROVE InOrder(k)'
  BY <1>1, <1>3, Client_InOrder, ClientOnlyStep, OtherClient
<1>4. ASSUME NEW g \in Child, Step(g) PROVE InOrder(k)'
  BY <1>1, <1>4, OtherChild_InOrder, ChildClose_InOrder, ChildHandled_InOrder, ChildHandle_InOrder DEF Step
<1> QED
  BY <1>2, <1>3, <1>4, ChildFacts DEF Next

LEMMA OrderlyInit == Init => OInv
<1> SUFFICES ASSUME Init PROVE OInv
  OBVIOUS
<1> USE SockFacts, ChildFacts
<1>1. Bucket
  BY DEF Init, Bucket
<1>2. ASSUME NEW k \in Sock \ Child PROVE InOrder(k)
  <2>1. Phase(k) = "idle" /\ Phase(Peer(k)) = "none"
    BY TypeInit, PhaseFacts DEF Init, TInv
  <2>2. to[k] = Nothing /\ to[Peer(k)] = Nothing
    BY DEF Init, Nothing
  <2>3. Ordered(Phase(k), Phase(Peer(k)), to[k], to[Peer(k)])
    BY <2>1, <2>2 DEF Ordered, ToClient, ToChild
  <2>4. ClientOK(k)
    BY DEF Init, ClientOK, NotInTable
  <2>5. ChildOK(Peer(k))
    BY IdleFacts DEF Init, ChildOK, Calls, OffWork, Hosts
  <2> QED
    BY <2>3, <2>4, <2>5 DEF Init, InOrder
<1> QED
  BY <1>1, <1>2 DEF OInv, Orderly

LEMMA OrderlyInductive == Spec => [](PortInv /\ OInv)
<1>1. PortInv /\ OInv /\ [Next]_vars => OInv'
  <2>1. OInv /\ UNCHANGED vars => OInv'
    BY DEF OInv, Bucket, Orderly, Unmet, InOrder, ClientOK, InTable, NotInTable, ChildOK, OffWork,
           Phase, Calls, vars, tables
  <2>2. PortInv /\ OInv /\ Next => OInv'
    BY BucketStep, OrderlyStep DEF OInv, PortInv, TInv
  <2> QED
    BY <2>1, <2>2
<1> QED
  BY <1>1, OrderlyInit, PortInductive, PTL DEF Spec

(* With any number of clients, whichever threads meet: a host looks up a   *)
(* socket in vain only when two threads have met on a socket of one of its *)
(* own connections.  A client host is not harmed by what the threads do to *)
(* the connections of other clients, although these share the children's   *)
(* bucket.                                                                 *)
THEOREM CrashesAreOvertaken == Spec => []CrashOnlyOvertaken
<1>1. ConnInv /\ PortInv /\ OInv => CrashOnlyOvertaken
  <2> SUFFICES ASSUME ConnInv, OInv, NEW h \in crashed
               PROVE  \E s \in overtaken : h \in {Host(s), Host(Peer(s))}
    BY DEF CrashOnlyOvertaken
  <2> USE SockFacts, ChildFacts
  <2>1. h \in Hosts /\ overtaken \subseteq Sock
    BY DEF ConnInv, TInv, TypeOK
  <2>2. CASE h = Server
    <3>1. PICK s \in overtaken : TRUE
      BY DEF ConnInv, CInv, Undisturbed
    <3>2. Server \in {Host(s), Host(Peer(s))}
      BY <2>1, <3>1
    <3> QED
      BY <2>2, <3>1, <3>2
  <2>3. CASE h \in Client
    <3> DEFINE k == <<h, "client">>
    <3>1. k \in Sock \ Child /\ Host(k) = h /\ Host(Peer(Peer(k))) = h
      BY <2>3 DEF Sock, Child, Host, Peer
    <3>2. ~Unmet(k)
      BY <3>1 DEF OInv, Orderly, InOrder
    <3> QED
      BY <3>1, <3>2 DEF Unmet
  <2> QED
    BY <2>1, <2>2, <2>3 DEF Hosts
<1> QED
  BY <1>1, ConnInductive, OrderlyInductive, PTL
===============================================================================
