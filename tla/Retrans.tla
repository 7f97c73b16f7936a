------------------------------ MODULE Retrans ------------------------------
(***************************************************************************)
(* The client of lab 12 (12-tcp_stack_2): one connection that tcp_client   *)
(* opens, writes a file to and closes, over a link that loses packets.     *)
(* Three threads share the socket: the application (app), the network      *)
(* thread (net) and the timer thread.  The peer is the kernel TCP that     *)
(* tcp_stack_trans.py uses (Peer..., external); scripts/disable_tcp_rst.sh *)
(* keeps RST packets off the link.                                         *)
(*                                                                         *)
(* A data segment takes Seg sequence numbers, SYN and FIN take one.        *)
(* Packets travel in order, and at most MaxLoss of them are lost.          *)
(* Timeouts are not measured: an enabled timer may expire at any moment.   *)
(* No lock is held over send_buf: the application adds to the list while   *)
(* the network thread walks it and frees what is acknowledged.             *)
(***************************************************************************)
EXTENDS LinkedList, Sequences

CONSTANTS Mod,        \* size of the sequence space, 2^32 in the code
          Files,      \* lengths of the file that are tried, in segments
          Window,     \* what the peer advertises
          Seg,        \* numbers that a data segment takes
          MaxLoss

\* A window has 16 bits, a sequence number 32: they can be compared by the sign
\* of their difference.
ASSUME RetransAssumption ==
    /\ Mod \in Nat /\ Window \in Nat /\ MaxLoss \in Nat /\ Files \subseteq Nat
    /\ Seg \in Nat \ {0}
    /\ Window + 2 <= Mod \div 2

VARIABLES tsk,        \* struct tcp_sock, with the flags of its waits
          send_buf,   \* tsk->send_buf: the packets that are not acknowledged
          adding,     \* the application's list_add_tail to send_buf
          timer_list, \* the list of timers: its head, and those of the socket
          app,        \* client thread: where it is, and segments left to write
          ready,      \* the packet it has built and not yet emitted
          net,        \* network thread: the packet it is processing
          out, in,    \* the link, to the peer and from it
          peer, lost,
          crashed,    \* the process has died on a wild pointer
          torn        \* (history) an entry was freed while another was added behind it

vars == <<tsk, send_buf, adding, timer_list, app, ready, net, out, in, peer, lost, crashed,
          torn>>
lists == <<send_buf, adding, torn>>

States == {"CLOSED", "SYN_SENT", "ESTABLISHED", "CLOSE_WAIT", "LAST_ACK",
           "FIN_WAIT_1", "FIN_WAIT_2", "TIME_WAIT"}
Seqs == 0 .. Mod - 1
ISS == 5              \* the peer's initial sequence number

\* less_than_32b: the sign of a difference of the width of a sequence number.
less_than(a, b) == (a - b) % Mod >= Mod \div 2
Plus(a, n) == (a + n) % Mod

\* Numbers that a packet takes.
Size(kind) == IF kind = "data" THEN Seg ELSE 1

\* The nodes of send_buf: its head, and an entry for every packet, named by the
\* packet's number.  Memory that was zeroed, or freed, has Null in it.
Head0 == Mod
Null == Mod + 1
Entries == Seqs \cup {Head0}
Empty == LET fresh == [n \in Entries |-> IF n = Head0 THEN Head0 ELSE Null]
         IN  [next |-> fresh, prev |-> fresh]

NoAdd == [step |-> "no", behind |-> Head0]
Idle == [pc |-> "idle"]

\* A client numbers its packets from 0: only a child socket gets a number from
\* tcp_new_iss.
Init == /\ tsk = [state |-> "CLOSED", hashed |-> FALSE, una |-> 0, nxt |-> 0,
                  rcv_nxt |-> 0, snd_wnd |-> 0, retrans |-> FALSE,
                  connected |-> FALSE, notified |-> FALSE]
        /\ peer = [state |-> "listen", rnxt |-> 0, nxt |-> ISS, got |-> {}]
        /\ send_buf = Empty /\ adding = NoAdd /\ ready = <<>>
        /\ timer_list = init_list_head("head", {"retrans", "timewait"})
        /\ \E left \in Files : app = [pc |-> "connect", left |-> left, goal |-> "CLOSED"]
        /\ net = Idle /\ out = <<>> /\ in = <<>>
        /\ lost = 0 /\ crashed = FALSE /\ torn = FALSE

-----------------------------------------------------------------------------
(* Timers *)

\* The timers that tcp_scan_timer_list comes to.
Timers == list_for_each_entry(timer_list, "head")

\* tcp_delete_retrans_timer: the timer is unlinked, whether it is linked or not.
Unlinked(list) == list_delete_entry(list, "retrans")

\* Mutant: the timer is enabled and not linked.
Armed_Loose(list, enabled) == list

\* tcp_set_retrans_timer, where the senders call it: only when it is disabled.
Armed(list, enabled) == IF enabled THEN list ELSE list_add_tail(list, "retrans", "head")

\* tcp_set_timewait_timer.
TimeWaitSet(list) == list_add_tail(list, "timewait", "head")

\* tcp_scan_timer_list for an expired retransmission timer: the timer is taken
\* for the member `timewait`, the socket that is computed from it lies 32 bytes
\* too high, and send_buffer_retrans follows a pointer of the zeroed mutex
\* that it finds in the place of send_buf.
RetransExpires == /\ ~crashed
                  /\ tsk.retrans
                  /\ "retrans" \in Timers
                  /\ crashed' = TRUE
                  /\ UNCHANGED <<tsk, lists, timer_list, app, ready, net, out, in,
                                 peer, lost>>

\* tcp_unhash.
Unhashed(t) == [t EXCEPT !.hashed = FALSE]

\* tcp_scan_timer_list for an expired time-wait timer.
TimeWaitExpires == /\ ~crashed
                   /\ "timewait" \in Timers
                   /\ timer_list' = list_delete_entry(timer_list, "timewait")
                   /\ tsk' = [Unhashed(tsk) EXCEPT !.state = "CLOSED"]
                   /\ UNCHANGED <<lists, app, ready, net, out, in, peer, lost, crashed>>

-----------------------------------------------------------------------------
(* Sending *)

Packet(kind) == [kind |-> kind, seq |-> tsk.nxt, ack |-> tsk.rcv_nxt]

\* tcp_send_packet, and tcp_send_control_packet for SYN and FIN: the packet takes
\* its place in the sequence space, the timer is set unless it is enabled, and
\* send_buffer_add reads where the list ends.
Build(kind, wnd) ==
    /\ ready' = <<Packet(kind)>>
    /\ adding' = [step |-> "forward", behind |-> send_buf.prev[Head0]]
    /\ timer_list' = Armed(timer_list, tsk.retrans)
    /\ tsk' = [tsk EXCEPT !.nxt = Plus(@, Size(kind)), !.snd_wnd = wnd, !.retrans = TRUE]
    /\ UNCHANGED <<send_buf, torn>>

\* list_insert, the half that leads to the new entry, ...
LinkForward ==
    /\ ~crashed /\ adding.step = "forward"
    /\ send_buf' = [next |-> [send_buf.next EXCEPT ![adding.behind] = Head(ready).seq],
                    prev |-> [send_buf.prev EXCEPT ![Head0] = Head(ready).seq]]
    /\ adding' = [adding EXCEPT !.step = "back"]
    /\ UNCHANGED <<tsk, timer_list, app, ready, net, out, in, peer, lost, crashed, torn>>

\* ... and the half that leads on from it.
LinkBack ==
    /\ ~crashed /\ adding.step = "back"
    /\ send_buf' = [next |-> [send_buf.next EXCEPT ![Head(ready).seq] = Head0],
                    prev |-> [send_buf.prev EXCEPT ![Head(ready).seq] = adding.behind]]
    /\ adding' = NoAdd
    /\ UNCHANGED <<tsk, timer_list, app, ready, net, out, in, peer, lost, crashed, torn>>

\* ip_send_packet in the application thread.
Emit == /\ ~crashed /\ ready # <<>> /\ adding = NoAdd
        /\ out' = out \o ready
        /\ ready' = <<>>
        /\ UNCHANGED <<tsk, lists, timer_list, app, net, in, peer, lost, crashed>>

\* A step of the application thread that is between two packets.
AppAt(pc) == ~crashed /\ ready = <<>> /\ app.pc = pc
Goto(pc) == app' = [app EXCEPT !.pc = pc]

\* tcp_sock_connect: the SYN goes out first, ...
Connect == /\ AppAt("connect")
           /\ Build("syn", tsk.snd_wnd)
           /\ Goto("hash")
           /\ UNCHANGED <<net, out, in, peer, lost, crashed>>

\* ... then the state is set and the socket can be found, ...
Hash == /\ AppAt("hash")
        /\ tsk' = [tsk EXCEPT !.state = "SYN_SENT", !.hashed = TRUE]
        /\ Goto("sleep")
        /\ UNCHANGED <<lists, timer_list, ready, net, out, in, peer, lost, crashed>>

\* ... and sleep_on(wait_connect) returns when it has been notified, ...
Connected == /\ AppAt("sleep") /\ tsk.connected
             /\ tsk' = [tsk EXCEPT !.connected = FALSE]
             /\ Goto("write")
             /\ UNCHANGED <<lists, timer_list, ready, net, out, in, peer, lost, crashed>>

\* ... or, as pthread_cond_wait may, without; so may sleep_on(wait_send), which
\* is called in a loop.
Spurious == /\ AppAt("sleep") \/ AppAt("full")
            /\ Goto("write")
            /\ UNCHANGED <<tsk, lists, timer_list, ready, net, out, in, peer, lost, crashed>>

\* tcp_sock_write calls tcp_send_data until nothing is left.
Writing == AppAt("write") /\ app.left > 0

\* tcp_send_data with room in the window.
SendData == /\ Writing /\ tsk.snd_wnd >= Seg
            /\ Build("data", tsk.snd_wnd - Seg)
            /\ app' = [app EXCEPT !.left = @ - 1]
            /\ UNCHANGED <<net, out, in, peer, lost, crashed>>

\* tcp_send_data without: the window is zeroed before the thread sleeps.
WindowFull == /\ Writing /\ tsk.snd_wnd < Seg
              /\ tsk' = [tsk EXCEPT !.snd_wnd = 0]
              /\ Goto("full")
              /\ UNCHANGED <<lists, timer_list, ready, net, out, in, peer, lost, crashed>>

WindowMoved == /\ AppAt("full") /\ tsk.notified
               /\ tsk' = [tsk EXCEPT !.notified = FALSE]
               /\ Goto("write")
               /\ UNCHANGED <<lists, timer_list, ready, net, out, in, peer, lost, crashed>>

\* tcp_sock_close: FIN goes out before the new state is entered.
Close == /\ AppAt("write") /\ app.left = 0
         /\ tsk.state \in {"ESTABLISHED", "CLOSE_WAIT"}
         /\ Build("fin", tsk.snd_wnd)
         /\ app' = [app EXCEPT !.pc = "closing",
                               !.goal = IF tsk.state = "CLOSE_WAIT" THEN "LAST_ACK"
                                                                    ELSE "FIN_WAIT_1"]
         /\ UNCHANGED <<net, out, in, peer, lost, crashed>>

Closing == /\ AppAt("closing")
           /\ tsk' = [tsk EXCEPT !.state = app.goal]
           /\ Goto("done")
           /\ UNCHANGED <<lists, timer_list, ready, net, out, in, peer, lost, crashed>>

\* tcp_sock_close of a connection that is not open, which a spurious return
\* from connect leaves.
CloseUnopened == /\ AppAt("write") /\ app.left = 0
                 /\ tsk.state \notin {"ESTABLISHED", "CLOSE_WAIT"}
                 /\ tsk' = [Unhashed(tsk) EXCEPT !.state = "CLOSED"]
                 /\ Goto("done")
                 /\ UNCHANGED <<lists, timer_list, ready, net, out, in, peer, lost, crashed>>

App == Connect \/ Hash \/ Connected \/ SendData \/ WindowFull \/ WindowMoved
       \/ Close \/ CloseUnopened \/ Closing \/ LinkForward \/ LinkBack \/ Emit

-----------------------------------------------------------------------------
(* Receiving: tcp_process *)

\* Mutant: only the packet that ends where the ACK points.
Acked_Last(seq, ack) == Plus(seq, 1) = ack

\* Mutant: the packet that begins where the ACK points, too.
Acked_OrEqual(seq, ack) == seq = ack \/ less_than(seq, ack)

\* The test of send_buffer_clear_ack: its comment has seq_end <= ack.
Acked(seq, ack) == less_than(seq, ack)

\* list_delete_entry and free.
Freed(list, n) == LET cut == list_delete_entry(list, n)
                  IN  [next |-> [cut.next EXCEPT ![n] = Null],
                       prev |-> [cut.prev EXCEPT ![n] = Null]]

\* list_for_each_entry_safe comes to `pos`, and reads what follows it there; at
\* the head the walk is over, and the state machine begins.
Walk(p, pos) ==
    net' = [p EXCEPT !.pc = IF pos = Head0 THEN "act" ELSE "clear",
                     !.pos = pos, !.rest = send_buf'.next[pos], !.state = tsk.state]

\* handle_tcp_packet and the head of tcp_process; every packet of the peer has
\* ACK.  A socket that is not hashed is not found, and NULL is dereferenced.
Receive ==
    /\ ~crashed /\ net = Idle /\ in # <<>>
    /\ in' = Tail(in)
    /\ UNCHANGED <<lists, timer_list, app, ready, out, peer, lost>>
    /\ LET p == Head(in)
       IN IF tsk.hashed
          THEN /\ tsk' = [tsk EXCEPT !.una = p.ack, !.rcv_nxt = p.seq_end]
               /\ Walk([pc |-> "clear", kind |-> p.kind, ack |-> p.ack, rwnd |-> p.rwnd,
                        pos |-> Head0, rest |-> Head0, state |-> tsk.state],
                       send_buf.next[Head0])
               /\ UNCHANGED crashed
          ELSE crashed' = TRUE /\ UNCHANGED <<tsk, net>>

\* send_buffer_clear_ack, one entry: it is freed if it is acknowledged, and the
\* walk goes on to the one that was read before it.  An entry that is only
\* half linked has no next one.
ClearEntry ==
    /\ ~crashed /\ net.pc = "clear"
    /\ LET gone == Acked(net.pos, net.ack)
           wild == net.rest = Null
                   \/ (gone /\ Null \in {send_buf.next[net.pos], send_buf.prev[net.pos]})
       IN  IF wild
           THEN crashed' = TRUE /\ UNCHANGED <<send_buf, net, torn>>
           ELSE /\ send_buf' = IF gone THEN Freed(send_buf, net.pos) ELSE send_buf
                /\ torn' = (torn \/ (gone /\ adding.step # "no" /\ adding.behind = net.pos))
                /\ Walk(net, net.rest)
                /\ UNCHANGED crashed
    /\ UNCHANGED <<tsk, adding, timer_list, app, ready, out, in, peer, lost>>

\* The ACKs that a branch of the state machine sends.
Acks(n) == [i \in 1 .. n |-> Packet("ack")]
In(st) == ~crashed /\ net.pc = "act" /\ net.state = st
ToState(st) == tsk' = [tsk EXCEPT !.state = st]

\* tcp_update_window_safe: the window is taken from an ACK between una and nxt,
\* and a writer that has found it closed is notified.
WindowUpdated(t, ack, rwnd) ==
    IF ~ less_than(ack, t.una) /\ ~ less_than(t.nxt, ack)
    THEN [t EXCEPT !.snd_wnd = rwnd, !.notified = @ \/ t.snd_wnd = 0]
    ELSE t

\* TCP_SYN_SENT: tcp_update_window_safe, ACK, ESTABLISHED, wake_up; the timer is
\* deleted only after the application has been woken (DeleteTimer).
InSynSent ==
    /\ In("SYN_SENT")
    /\ IF net.kind = "synack"
       THEN /\ tsk' = [WindowUpdated(tsk, net.ack, net.rwnd) EXCEPT
                         !.state = "ESTABLISHED", !.connected = TRUE]
            /\ out' = out \o Acks(1)
            /\ net' = [pc |-> "delete"]
       ELSE net' = Idle /\ UNCHANGED <<tsk, out>>
    /\ UNCHANGED <<lists, timer_list, app, ready, in, peer, lost, crashed>>

DeleteTimer ==
    /\ ~crashed /\ net.pc = "delete"
    /\ timer_list' = Unlinked(timer_list)
    /\ tsk' = [tsk EXCEPT !.retrans = FALSE]
    /\ net' = Idle
    /\ UNCHANGED <<lists, app, ready, out, in, peer, lost, crashed>>

\* TCP_ESTABLISHED: rcv_nxt has just been set to seq_end, so every packet is a
\* "duplicate packet" and the branch ends with an ACK.
InEstablished ==
    /\ In("ESTABLISHED")
    /\ IF net.kind = "finack"
       THEN out' = out \o Acks(2) /\ ToState("CLOSE_WAIT")
       ELSE out' = out \o Acks(1) /\ UNCHANGED tsk
    /\ net' = Idle
    /\ UNCHANGED <<lists, timer_list, app, ready, in, peer, lost, crashed>>

\* TCP_CLOSE_WAIT and TCP_TIME_WAIT: FIN is acknowledged again.
InWait ==
    /\ In("CLOSE_WAIT") \/ In("TIME_WAIT")
    /\ out' = IF net.kind = "finack" THEN out \o Acks(1) ELSE out
    /\ net' = Idle
    /\ UNCHANGED <<tsk, lists, timer_list, app, ready, in, peer, lost, crashed>>

\* TCP_FIN_WAIT_1: any bare ACK moves it on; FIN with ACK ends it, and the
\* time-wait timer is linked before the other one is deleted.
InFinWait1 ==
    /\ In("FIN_WAIT_1")
    /\ \/ /\ net.kind = "ack"
          /\ timer_list' = Unlinked(timer_list)
          /\ tsk' = [tsk EXCEPT !.state = "FIN_WAIT_2", !.retrans = FALSE]
          /\ UNCHANGED out
       \/ /\ net.kind = "finack"
          /\ timer_list' = Unlinked(TimeWaitSet(timer_list))
          /\ tsk' = [tsk EXCEPT !.state = "TIME_WAIT", !.retrans = FALSE]
          /\ out' = out \o Acks(1)
       \/ /\ net.kind = "synack"
          /\ UNCHANGED <<timer_list, tsk, out>>
    /\ net' = Idle
    /\ UNCHANGED <<lists, app, ready, in, peer, lost, crashed>>

InFinWait2 ==
    /\ In("FIN_WAIT_2")
    /\ IF net.kind = "finack"
       THEN /\ timer_list' = TimeWaitSet(timer_list)
            /\ ToState("TIME_WAIT")
            /\ out' = out \o Acks(1)
       ELSE UNCHANGED <<timer_list, tsk, out>>
    /\ net' = Idle
    /\ UNCHANGED <<lists, app, ready, in, peer, lost, crashed>>

\* TCP_LAST_ACK: any ACK closes.
InLastAck ==
    /\ In("LAST_ACK")
    /\ timer_list' = Unlinked(timer_list)
    /\ tsk' = [Unhashed(tsk) EXCEPT !.state = "CLOSED", !.retrans = FALSE]
    /\ net' = Idle
    /\ UNCHANGED <<lists, app, ready, out, in, peer, lost, crashed>>

\* A socket that was closed during the walk: nothing is done.
InClosed ==
    /\ In("CLOSED")
    /\ net' = Idle
    /\ UNCHANGED <<tsk, lists, timer_list, app, ready, out, in, peer, lost, crashed>>

Net == Receive \/ ClearEntry \/ InSynSent \/ DeleteTimer \/ InEstablished \/ InWait
       \/ InFinWait1 \/ InFinWait2 \/ InLastAck \/ InClosed

-----------------------------------------------------------------------------
(* The peer and the link (external) *)

Reply(p, kind) == [kind |-> kind, ack |-> p.rnxt, rwnd |-> Window, seq_end |-> p.nxt]

\* The next number expected after n once the packets `got` are counted.
Advanced(n, got) ==
    Plus(n, CHOOSE k \in Seqs : /\ Plus(n, k) \notin got
                                /\ \A j \in 0 .. k - 1 : Plus(n, j) \in got)

\* The peer takes a packet, or the first part of a segment: it queues what is out
\* of order, acknowledges every packet that has data or FIN, and is done when its
\* own FIN is acknowledged.
PeerReceive ==
    /\ out # <<>>
    /\ out' = Tail(out)
    /\ \E n \in 1 .. Size(Head(out).kind) :
       LET p == Head(out)
           got == IF p.kind = "ack" THEN peer.got
                  ELSE peer.got \cup {Plus(p.seq, i) : i \in 0 .. n - 1}
           opens == peer.state = "listen"
       IN IF peer.state = "closed" \/ (opens /\ p.kind # "syn")
          THEN UNCHANGED <<peer, in>>
          ELSE /\ peer' = [peer EXCEPT
                             !.rnxt = Advanced(@, got), !.got = got,
                             !.nxt = IF opens THEN Plus(@, 1) ELSE @,
                             !.state = IF opens THEN "synrecv"
                                       ELSE IF @ = "synrecv" THEN "open"
                                       ELSE IF @ = "lastack" /\ p.ack = peer.nxt THEN "closed"
                                       ELSE @]
               /\ in' = CASE p.kind = "syn" -> Append(in, Reply(peer', "synack"))
                          [] p.kind \in {"data", "fin"} -> Append(in, Reply(peer', "ack"))
                          [] OTHER -> in
    /\ UNCHANGED <<tsk, lists, timer_list, app, ready, net, lost, crashed>>

\* The server closes, at the end of the file or earlier (it may be killed).
PeerClose == /\ peer.state = "open"
             /\ peer' = [peer EXCEPT !.state = "lastack", !.nxt = Plus(@, 1)]
             /\ in' = Append(in, Reply(peer', "finack"))
             /\ UNCHANGED <<tsk, lists, timer_list, app, ready, net, out, lost, crashed>>

\* The kernel repeats its SYN and its FIN until they are acknowledged.
PeerRepeat == /\ peer.state \in {"synrecv", "lastack"} /\ in = <<>> /\ out = <<>>
              /\ in' = <<Reply(peer, IF peer.state = "synrecv" THEN "synack" ELSE "finack")>>
              /\ UNCHANGED <<tsk, lists, timer_list, app, ready, net, out, peer, lost, crashed>>

Lose == /\ lost < MaxLoss
        /\ lost' = lost + 1
        /\ \/ out # <<>> /\ out' = Tail(out) /\ UNCHANGED in
           \/ in # <<>> /\ in' = Tail(in) /\ UNCHANGED out
        /\ UNCHANGED <<tsk, lists, timer_list, app, ready, net, peer, crashed>>

Next == \/ App \/ Spurious \/ Net \/ RetransExpires \/ TimeWaitExpires
        \/ PeerReceive \/ PeerClose \/ PeerRepeat \/ Lose

Spec == Init /\ [][Next]_vars

\* The threads of the process run, timers expire, and the link moves on.
FairSpec == Spec /\ WF_vars(App) /\ WF_vars(Net) /\ WF_vars(PeerReceive)
                 /\ WF_vars(RetransExpires) /\ WF_vars(TimeWaitExpires)

-----------------------------------------------------------------------------
(* Properties *)

\* The record fields hold values of their types, and the window never falls
\* below zero although it is an unsigned field that is only decreased.
TypeOK == /\ tsk.state \in States
          /\ {tsk.una, tsk.nxt, tsk.rcv_nxt} \subseteq Seqs
          /\ tsk.snd_wnd \in 0 .. Window
          /\ send_buf \in [next : [Entries -> Entries \cup {Null}],
                           prev : [Entries -> Entries \cup {Null}]]
          /\ Ring(timer_list, Timers \cup {"head"})

\* The list from its head: the numbers a, a + 1, ... in order, n of them, and
\* back again.
InOrder(list, a, n) ==
    LET at(i) == IF i \in 1 .. n THEN Plus(a, i - 1) ELSE Head0
    IN  \A i \in 0 .. n : list.next[at(i)] = at(i + 1) /\ list.prev[at(i + 1)] = at(i)

\* Between two operations on the send buffer its list is what the client has
\* sent and has not heard acknowledged, in order, without a gap and in both
\* directions, although additions and deletions interleave, ACKs are lost and one
\* ACK may cover several packets: the first entry is the oldest packet that may
\* be missing.  Excepted is a list in which an entry was freed while another was
\* added behind it.
SendBufferIsUnacked ==
    (~torn /\ adding = NoAdd /\ net.pc # "clear") =>
        InOrder(send_buf, tsk.una, (tsk.nxt - tsk.una) % Mod)

\* The number after those of the packets that have been linked.
Linked == IF adding.step = "forward" THEN Head(ready).seq ELSE tsk.nxt

\* A number that the peer still lacks is in a packet that the head of the send
\* buffer leads to, at every moment of a walk or an addition.
NothingMissing ==
    LET kept == list_for_each_entry(send_buf, Head0)
    IN  \A k \in 0 .. ((Linked - peer.rnxt) % Mod) - 1 :
            \E e \in kept, j \in 0 .. Seg - 1 : Plus(e, j) = Plus(peer.rnxt, k)

\* Nothing is missing, whatever is lost, for a peer that acknowledges whole
\* segments, unless an entry was freed while another was added behind it.
NothingForgotten == ~torn => NothingMissing

\* A connect does not wait for ever: it returns, or the timer that SYN has set
\* expires (which ends the process).
ConnectSettles == (app.pc = "sleep") ~> (app.pc # "sleep" \/ crashed)

\* While a packet of an open connection is unacknowledged, its timer is set.
ArmedWhileUnacked ==
    (tsk.state = "ESTABLISHED" /\ tsk.una # tsk.nxt) => tsk.retrans

\* A client in TIME_WAIT comes to an end.
TimeWaitEnds == (tsk.state = "TIME_WAIT") ~> (tsk.state = "CLOSED" \/ crashed)
=============================================================================
