-------------------------------- MODULE TcpFlow --------------------------------
(***************************************************************************)
(* An established connection of 11-tcp_stack that carries data one way:    *)
(* the client application writes StreamLen bytes with tcp_sock_write and   *)
(* closes; the server application calls tcp_sock_read until it returns 0.  *)
(*                                                                         *)
(* Four threads take part: on each host the application thread and the     *)
(* thread of ustack_run, which handles one packet at a time.  A step is    *)
(* one access to state that another thread shares; a critical section      *)
(* whose state nobody reads without its lock is one step.                  *)
(*                                                                         *)
(* The byte at position p of the stream is the number p.  A packet carries *)
(* the positions from + 1 .. to; the FIN occupies position StreamLen + 1.  *)
(* Links lose and reorder nothing, as in the topologies of this lab.       *)
(***************************************************************************)
EXTENDS RingBuffer, SynchWait

CONSTANTS StreamLen,   \* bytes the client sends
          WriteSize,   \* bytes of each tcp_sock_write
          MSS,         \* bytes a packet can carry
          Capacity,    \* TCP_DEFAULT_WINDOW, the size of the receive buffer
          ReadSize     \* bytes the server asks for

ASSUME FlowAssumption ==
  /\ StreamLen \in Nat
  /\ {WriteSize, MSS, Capacity, ReadSize} \subseteq Nat \ {0}

VARIABLES
  app,        \* client: what its application thread does next
  sent,       \* client: stream bytes given to the network, snd_nxt - iss - 1
  snd_wnd,    \* client: the window it believes it has
  snet,       \* client: what its network thread does next
  old_wnd,    \* client: old_snd_wnd of tcp_update_window
  wait_send,  \* client: where the writer sleeps
  to_server,  \* packets under way; the head is the one being handled
  to_client,  \* ACKs under way; the head is the one being handled
  rnet,       \* server: what its network thread does next
  state,      \* server: tsk->state
  rcv_nxt,    \* server: the next position it expects
  rcv_buf,    \* server: the receive buffer
  rcv_wnd,    \* server: the window it advertises
  buf_lock,   \* server: the holder of rcv_buf_lock
  reader,     \* server: what its application thread does next
  delivered,  \* server: the bytes tcp_sock_read has returned
  wait_empty, \* server: where the reader sleeps
  wait_full   \* server: where the network thread sleeps

client == <<app, sent, snd_wnd, snet, old_wnd, wait_send>>
buffer == <<rcv_buf, rcv_wnd>>
server == <<rnet, state, rcv_nxt, buffer, buf_lock, reader, delivered,
            wait_empty, wait_full>>
vars   == <<client, to_server, to_client, server>>

Positions(from, n) == [i \in 1 .. n |-> from + i]
Payload(pkt) == Positions(pkt.from, pkt.to - pkt.from)
IsFin(pkt) == pkt.to = StreamLen + 1
Lowest(S) == CHOOSE n \in S : \A m \in S : n <= m

(* What alloc_tcp_sock and the handshake leave behind.  The SYN|ACK set    *)
(* snd_wnd from 0 to the whole buffer, so wait_send holds a notification.  *)
Init ==
  /\ app = "write" /\ sent = 0 /\ snd_wnd = Capacity
  /\ snet = "idle" /\ old_wnd = 0
  /\ wait_send = [FreshWait EXCEPT !.notified = TRUE]
  /\ to_server = << >> /\ to_client = << >>
  /\ rnet = "idle" /\ state = "ESTABLISHED" /\ rcv_nxt = 1
  /\ rcv_buf = Alloc(Capacity) /\ rcv_wnd = Capacity /\ buf_lock = Nobody
  /\ reader = "read" /\ delivered = << >>
  /\ wait_empty = FreshWait /\ wait_full = FreshWait
-------------------------------------------------------------------------------
(* The writer: tcp_sock_write, tcp_send_data, and in the end tcp_sock_close. *)

SegmentLen == Lowest({MSS, WriteSize - (sent % WriteSize), StreamLen - sent})

(* tcp_send_packet: the packet gets the number snd_nxt, which goes on by    *)
(* the bytes in it.  snd_wnd is not reduced.                               *)
SendPacket(len) ==
  /\ to_server' = Append(to_server, [from |-> sent, to |-> sent + len])
  /\ sent' = sent + len

SendSegment ==
  /\ app = "write" /\ sent < StreamLen /\ snd_wnd >= SegmentLen
  /\ SendPacket(SegmentLen)
  /\ UNCHANGED <<app, snd_wnd, snet, old_wnd, wait_send, to_client, server>>

WindowTooSmall ==
  /\ app = "write" /\ sent < StreamLen /\ snd_wnd < SegmentLen
  /\ app' = "zero"
  /\ UNCHANGED <<sent, snd_wnd, snet, old_wnd, wait_send, to_server, to_client, server>>

ZeroWindow ==
  /\ app = "zero"
  /\ snd_wnd' = 0
  /\ app' = "sleep"
  /\ UNCHANGED <<sent, snet, old_wnd, wait_send, to_server, to_client, server>>

WriterSleeps ==
  /\ app = "sleep" /\ CanSleep(wait_send)
  /\ wait_send' = Slept(wait_send, "app")
  /\ app' = "asleep"
  /\ UNCHANGED <<sent, snd_wnd, snet, old_wnd, to_server, to_client, server>>

WriterReturns ==
  /\ app = "asleep" /\ CanReturn(wait_send, "app")
  /\ wait_send' = Returned(wait_send, "app")
  /\ app' = "write"
  /\ UNCHANGED <<sent, snd_wnd, snet, old_wnd, to_server, to_client, server>>

SendFin ==
  /\ app = "write" /\ sent = StreamLen
  /\ to_server' = Append(to_server, [from |-> StreamLen, to |-> StreamLen + 1])
  /\ app' = "fin"
  /\ UNCHANGED <<sent, snd_wnd, snet, old_wnd, wait_send, to_client, server>>

EnterFinWait ==
  /\ app = "fin"
  /\ app' = "FIN_WAIT_1"
  /\ UNCHANGED <<sent, snd_wnd, snet, old_wnd, wait_send, to_server, to_client, server>>

(* The client's network thread: tcp_process of an ACK and                  *)
(* tcp_update_window, whose load and store of snd_wnd are two steps.  No   *)
(* ACK is ever ahead of snd_nxt (AckOnlyStored), so the test of            *)
(* tcp_update_window_safe is left out.                                     *)

ReceiveAck ==
  /\ snet = "idle" /\ to_client # << >> /\ app # "FIN_WAIT_1"
  /\ old_wnd' = snd_wnd
  /\ snet' = "store"
  /\ UNCHANGED <<app, sent, snd_wnd, wait_send, to_server, to_client, server>>

(* From FIN_WAIT_1 on, the window of an ACK is not looked at.              *)
IgnoreAck ==
  /\ snet = "idle" /\ to_client # << >> /\ app = "FIN_WAIT_1"
  /\ to_client' = Tail(to_client)
  /\ UNCHANGED <<client, to_server, server>>

StoreWindow ==
  /\ snet = "store"
  /\ snd_wnd' = Head(to_client).rwnd
  /\ to_client' = Tail(to_client)
  /\ snet' = IF old_wnd = 0 THEN "wake" ELSE "idle"
  /\ UNCHANGED <<app, sent, old_wnd, wait_send, to_server, server>>

WakeWriter ==
  /\ snet = "wake" /\ CanWake(wait_send)
  /\ wait_send' \in Woken(wait_send)
  /\ snet' = "idle"
  /\ UNCHANGED <<app, sent, snd_wnd, old_wnd, to_server, to_client, server>>
-------------------------------------------------------------------------------
(* The server's network thread: tcp_process in state ESTABLISHED.          *)

ack == [ack |-> rcv_nxt, rwnd |-> rcv_wnd]

Receive ==
  /\ rnet = "idle" /\ to_server # << >>
  /\ LET pkt == Head(to_server)
     IN  /\ rcv_nxt' = pkt.to + 1
         /\ rnet' = IF IsFin(pkt) THEN "fin" ELSE "store"
  /\ UNCHANGED <<client, to_server, to_client, state, buffer, buf_lock,
                 reader, delivered, wait_empty, wait_full>>

AckFin ==
  /\ rnet = "fin"
  /\ to_client' = Append(to_client, ack)
  /\ rnet' = "closewait"
  /\ UNCHANGED <<client, to_server, state, rcv_nxt, buffer, buf_lock, reader,
                 delivered, wait_empty, wait_full>>

EnterCloseWait ==
  /\ rnet = "closewait"
  /\ state' = "CLOSE_WAIT"
  /\ to_server' = Tail(to_server)
  /\ rnet' = "notify_eof"
  /\ UNCHANGED <<client, to_client, rcv_nxt, buffer, buf_lock, reader,
                 delivered, wait_empty, wait_full>>

Fits_AnyRoom(pkt) == Free(rcv_buf) > 0
Fits(pkt) == Free(rcv_buf) >= pkt.to - pkt.from

StoreData ==
  /\ rnet = "store" /\ buf_lock = Nobody /\ Fits(Head(to_server))
  /\ rcv_buf' = AfterWrite(rcv_buf, Payload(Head(to_server)))
  /\ rcv_wnd' = Free(rcv_buf')
  /\ to_server' = Tail(to_server)
  /\ rnet' = "notify_data"
  /\ UNCHANGED <<client, to_client, state, rcv_nxt, buf_lock, reader, delivered,
                 wait_empty, wait_full>>

(* Three ways to get the next step wrong: to acknowledge the packet before *)
(* it is stored, to drop it, to sleep without releasing the lock.          *)
BufferTooFull_AcksFirst ==
  /\ rnet = "store" /\ buf_lock = Nobody /\ ~Fits(Head(to_server))
  /\ rnet' = "sleep" /\ to_client' = Append(to_client, ack)
  /\ UNCHANGED <<client, to_server, state, rcv_nxt, buffer, buf_lock,
                 reader, delivered, wait_empty, wait_full>>
BufferTooFull_Drops ==
  /\ rnet = "store" /\ buf_lock = Nobody /\ ~Fits(Head(to_server))
  /\ rnet' = "idle" /\ to_server' = Tail(to_server)
  /\ UNCHANGED <<client, to_client, state, rcv_nxt, buffer, buf_lock,
                 reader, delivered, wait_empty, wait_full>>
BufferTooFull ==
  /\ rnet = "store" /\ buf_lock = Nobody /\ ~Fits(Head(to_server))
  /\ rnet' = "sleep"
  /\ UNCHANGED <<client, to_server, to_client, state, rcv_nxt, buffer, buf_lock,
                 reader, delivered, wait_empty, wait_full>>

NetSleeps ==
  /\ rnet = "sleep" /\ CanSleep(wait_full)
  /\ wait_full' = Slept(wait_full, "net")
  /\ rnet' = "asleep"
  /\ UNCHANGED <<client, to_server, to_client, state, rcv_nxt, buffer, buf_lock,
                 reader, delivered, wait_empty>>

NetReturns ==
  /\ rnet = "asleep" /\ CanReturn(wait_full, "net")
  /\ wait_full' = Returned(wait_full, "net")
  /\ rnet' = "store"
  /\ UNCHANGED <<client, to_server, to_client, state, rcv_nxt, buffer, buf_lock,
                 reader, delivered, wait_empty>>

(* `if (tsk->wait_empty->sleep)' reads the flag without the mutex.         *)
CheckReader ==
  /\ rnet \in {"notify_data", "notify_eof"}
  /\ rnet' = CASE wait_empty.sleep /\ rnet = "notify_data" -> "wake_data"
               [] wait_empty.sleep /\ rnet = "notify_eof"  -> "wake_eof"
               [] ~wait_empty.sleep /\ rnet = "notify_data" -> "ack"
               [] OTHER -> "idle"
  /\ UNCHANGED <<client, to_server, to_client, state, rcv_nxt, buffer, buf_lock,
                 reader, delivered, wait_empty, wait_full>>

WakeReader ==
  /\ rnet \in {"wake_data", "wake_eof"} /\ CanWake(wait_empty)
  /\ wait_empty' \in Woken(wait_empty)
  /\ rnet' = IF rnet = "wake_data" THEN "ack" ELSE "idle"
  /\ UNCHANGED <<client, to_server, to_client, state, rcv_nxt, buffer, buf_lock,
                 reader, delivered, wait_full>>

AckData ==
  /\ rnet = "ack"
  /\ to_client' = Append(to_client, ack)
  /\ rnet' = "idle"
  /\ UNCHANGED <<client, to_server, state, rcv_nxt, buffer, buf_lock, reader,
                 delivered, wait_empty, wait_full>>
-------------------------------------------------------------------------------
(* The reader: tcp_sock_read, called again until it returns 0.             *)

ReadData ==
  /\ reader = "read" /\ buf_lock = Nobody /\ ~IsEmpty(rcv_buf)
  /\ delivered' = delivered \o ReadBytes(rcv_buf, ReadSize)
  /\ rcv_buf' = AfterRead(rcv_buf, ReadSize)
  /\ rcv_wnd' = Free(rcv_buf')
  /\ buf_lock' = "reader"
  /\ reader' = "check_full"
  /\ UNCHANGED <<client, to_server, to_client, rnet, state, rcv_nxt, wait_empty,
                 wait_full>>

NothingToRead_KeepsLock ==
  /\ reader = "read" /\ buf_lock = Nobody /\ IsEmpty(rcv_buf)
  /\ reader' = "check_eof" /\ buf_lock' = "reader"
  /\ UNCHANGED <<client, to_server, to_client, rnet, state, rcv_nxt, buffer,
                 delivered, wait_empty, wait_full>>
NothingToRead ==
  /\ reader = "read" /\ buf_lock = Nobody /\ IsEmpty(rcv_buf)
  /\ reader' = "check_eof"
  /\ UNCHANGED <<client, to_server, to_client, rnet, state, rcv_nxt, buffer,
                 buf_lock, delivered, wait_empty, wait_full>>

CheckEof ==
  /\ reader = "check_eof"
  /\ reader' = IF state = "CLOSE_WAIT" THEN "eof" ELSE "sleep"
  /\ UNCHANGED <<client, to_server, to_client, rnet, state, rcv_nxt, buffer,
                 buf_lock, delivered, wait_empty, wait_full>>

ReaderSleeps ==
  /\ reader = "sleep" /\ CanSleep(wait_empty)
  /\ wait_empty' = Slept(wait_empty, "reader")
  /\ reader' = "asleep"
  /\ UNCHANGED <<client, to_server, to_client, rnet, state, rcv_nxt, buffer,
                 buf_lock, delivered, wait_full>>

ReaderReturns ==
  /\ reader = "asleep" /\ CanReturn(wait_empty, "reader")
  /\ wait_empty' = Returned(wait_empty, "reader")
  /\ reader' = "recheck"
  /\ UNCHANGED <<client, to_server, to_client, rnet, state, rcv_nxt, buffer,
                 buf_lock, delivered, wait_full>>

(* After the nap the buffer is looked at without its lock.                 *)
Recheck ==
  /\ reader = "recheck"
  /\ reader' = IF state = "CLOSE_WAIT" /\ IsEmpty(rcv_buf) THEN "eof" ELSE "read"
  /\ UNCHANGED <<client, to_server, to_client, rnet, state, rcv_nxt, buffer,
                 buf_lock, delivered, wait_empty, wait_full>>

(* The reader keeps rcv_buf_lock while it looks for the network thread.    *)
CheckNet ==
  /\ reader = "check_full"
  /\ IF Free(rcv_buf) > 0 /\ wait_full.sleep
     THEN reader' = "wake_full" /\ UNCHANGED buf_lock
     ELSE reader' = "read" /\ buf_lock' = Nobody
  /\ UNCHANGED <<client, to_server, to_client, rnet, state, rcv_nxt, buffer,
                 delivered, wait_empty, wait_full>>

WakeNet ==
  /\ reader = "wake_full" /\ CanWake(wait_full)
  /\ wait_full' \in Woken(wait_full)
  /\ reader' = "read" /\ buf_lock' = Nobody
  /\ UNCHANGED <<client, to_server, to_client, rnet, state, rcv_nxt, buffer,
                 delivered, wait_empty>>
-------------------------------------------------------------------------------
(* pthread_cond_wait may return early in any of the three waits.           *)
SpuriousWakeUp ==
  \/ /\ \E t \in wait_send.waiting : wait_send' = Spurious(wait_send, t)
     /\ UNCHANGED <<app, sent, snd_wnd, snet, old_wnd, to_server, to_client, server>>
  \/ /\ \E t \in wait_empty.waiting : wait_empty' = Spurious(wait_empty, t)
     /\ UNCHANGED <<client, to_server, to_client, rnet, state, rcv_nxt, buffer,
                    buf_lock, reader, delivered, wait_full>>
  \/ /\ \E t \in wait_full.waiting : wait_full' = Spurious(wait_full, t)
     /\ UNCHANGED <<client, to_server, to_client, rnet, state, rcv_nxt, buffer,
                    buf_lock, reader, delivered, wait_empty>>

Writer == SendSegment \/ WindowTooSmall \/ ZeroWindow \/ WriterSleeps
            \/ WriterReturns \/ SendFin \/ EnterFinWait
ClientNet == ReceiveAck \/ IgnoreAck \/ StoreWindow \/ WakeWriter
ServerNet == Receive \/ AckFin \/ EnterCloseWait \/ StoreData \/ BufferTooFull
               \/ NetSleeps \/ NetReturns \/ CheckReader \/ WakeReader \/ AckData
Reader == ReadData \/ NothingToRead \/ CheckEof \/ ReaderSleeps \/ ReaderReturns
            \/ Recheck \/ CheckNet \/ WakeNet

Next == Writer \/ ClientNet \/ ServerNet \/ Reader \/ SpuriousWakeUp

Spec == Init /\ [][Next]_vars

(* Every thread that can run gets to run: they are kernel threads.         *)
FairSpec == /\ Spec
            /\ WF_vars(Writer) /\ WF_vars(ClientNet)
            /\ WF_vars(ServerNet) /\ WF_vars(Reader)
-------------------------------------------------------------------------------
Got    == Len(delivered)
Stored == Got + Used(rcv_buf)
Packets == [from : 0 .. StreamLen, to : 1 .. StreamLen + 1]
Acks == [ack : 1 .. StreamLen + 2, rwnd : 0 .. Capacity]

(* Type correctness of both sockets and of the packets between them; the   *)
(* lock of tcp_sock.c:357-390 is held exactly while the reader looks for a *)
(* sleeping network thread.                                                *)
TypeOK ==
  /\ app \in {"write", "zero", "sleep", "asleep", "fin", "FIN_WAIT_1"}
  /\ sent \in 0 .. StreamLen
  /\ snd_wnd \in 0 .. Capacity /\ old_wnd \in 0 .. Capacity
  /\ snet \in {"idle", "store", "wake"}
  /\ to_server \in Seq(Packets)
  /\ to_client \in Seq(Acks)
  /\ rnet \in {"idle", "fin", "closewait", "store", "sleep", "asleep", "ack",
               "notify_data", "notify_eof", "wake_data", "wake_eof"}
  /\ state \in {"ESTABLISHED", "CLOSE_WAIT"}
  /\ rcv_nxt \in 1 .. StreamLen + 2
  /\ rcv_buf \in RingBuffers(Capacity, 0 .. StreamLen)
  /\ rcv_wnd \in 0 .. Capacity
  /\ reader \in {"read", "check_eof", "sleep", "asleep", "recheck", "check_full",
                 "wake_full", "eof"}
  /\ buf_lock = IF reader \in {"check_full", "wake_full"} THEN "reader" ELSE Nobody
  /\ delivered \in Seq(0 .. StreamLen)
  /\ wait_send \in Waits({"app"})
  /\ wait_empty \in Waits({"reader"})
  /\ wait_full \in Waits({"net"})

(* What tcp_sock_read has returned and what the buffer holds are together  *)
(* the first bytes of the stream: however the network thread, which writes *)
(* the buffer (tcp_in.c:93-107), and the reader (tcp_sock.c:357-390)       *)
(* interleave and sleep, no byte is lost, repeated, reordered or made up.  *)
StreamIntegrity ==
  /\ delivered = Positions(0, Got)
  /\ Contents(rcv_buf) = Positions(Got, Used(rcv_buf))
  /\ Stored <= sent

(* An ACK under way covers only bytes that are in the receive buffer or    *)
(* were read, although rcv_nxt moves before the bytes are stored           *)
(* (tcp_in.c:56, 104, 112) and the network thread may sleep in between.    *)
AckOnlyStored ==
  \A i \in 1 .. Len(to_client) :
    Lowest({to_client[i].ack - 1, StreamLen}) <= Stored

(* CLOSE_WAIT (tcp_in.c:84) is entered only when the whole stream has been *)
(* stored: the reader may take an empty buffer for the end of the stream.  *)
CloseWaitMeansStored ==
  state = "CLOSE_WAIT" => Stored = StreamLen

Pipe == INSTANCE StreamPipe WITH
  closed <- app \in {"fin", "FIN_WAIT_1"}, stored <- Stored, ended <- state = "CLOSE_WAIT"

(* The four threads are a pipe: tcp_send_data puts bytes in, tcp_in.c:104  *)
(* moves them to the buffer as far as it has room, tcp_sock.c:384 takes    *)
(* them out, and CLOSE_WAIT (tcp_in.c:84) comes after the last of them.    *)
ImplementsPipe == Pipe!Spec

(* A thread blocked in pthread_cond_wait (synch_wait.h:46-47) has its      *)
(* sleep flag up and no notification pending, so that the next wake_up     *)
(* (synch_wait.h:63-66) signals it.                                        *)
BlockedCanBeWoken ==
  \A w \in {wait_send, wait_empty, wait_full} :
    w.waiting # {} => w.sleep /\ ~w.notified

(* A sleeper that has been notified gets out of sleep_on                   *)
(* (synch_wait.h:40-54): no notification is swallowed by another wake_up.  *)
NotifiedReturns ==
  /\ (InSleepOn(wait_send, "app") /\ wait_send.notified)
       ~> ~InSleepOn(wait_send, "app")
  /\ (InSleepOn(wait_empty, "reader") /\ wait_empty.notified)
       ~> ~InSleepOn(wait_empty, "reader")
  /\ (InSleepOn(wait_full, "net") /\ wait_full.notified)
       ~> ~InSleepOn(wait_full, "net")

(* Unless somebody once found too little room, the writer in the window    *)
(* (tcp_sock.c:413) or the network thread in the buffer (tcp_in.c:96),     *)
(* every byte and the FIN get to the server, however the readers, wakers   *)
(* and holders of rcv_buf_lock interleave.                                 *)
StreamArrives ==
  <>(\/ state = "CLOSE_WAIT" /\ Stored = StreamLen
     \/ app = "zero" \/ rnet = "sleep")
-------------------------------------------------------------------------------
(* What the comments of the repository say, and the code does not do.      *)

(* tcp_sock.c:353, "return 0: end of stream": when tcp_sock_read returns   *)
(* 0, the application has been given the whole stream.                     *)
EofMeansAllRead == reader = "eof" => Got = StreamLen

(* tcp_sock.c:395, "return positive: sent length": the writes return.      *)
WritesReturn == <>(app = "FIN_WAIT_1")
===============================================================================
