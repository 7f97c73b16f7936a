----------------------------- MODULE HttpServer -----------------------------
(***************************************************************************)
(* The web server of lab 02 (02-socket): one thread listens on port 80 and *)
(* redirects, one on port 443 and serves files, whole or a range of them;  *)
(* each handles one connection at a time.  Any error of a system call ends *)
(* the process, with both threads.                                         *)
(*                                                                         *)
(* A client goes where it was told to: to port 443 after a redirection.    *)
(* Its manner says what a peer may do: "polite" clients send their request *)
(* and wait, "silent" ones connect and send nothing, "quits" ones close    *)
(* before they have sent anything.  A request arrives in one piece and is  *)
(* shorter than LEN_CONTENT_BUF, a response shorter than LEN_RESPONSE_BUF. *)
(***************************************************************************)
EXTENDS Integers, Sequences

CONSTANTS Clients,
          Requests,   \* [url, headers], headers a sequence of [name, value]
          Files,      \* the directory: a function from urls to their bytes
          Open,       \* the upper end of a range that gives none
          Junk        \* a byte of response_buf that nothing was written to

Bytes == UNION {{Files[u][i] : i \in DOMAIN Files[u]} : u \in DOMAIN Files}
Headers == [name : STRING, value : [first : Int, last : Int \cup {Open}]]

ASSUME HttpAssumption ==
    /\ Open \notin Int
    /\ \A u \in DOMAIN Files : Files[u] \in Seq(Bytes)
    /\ \A q \in Requests : q = [url |-> q.url, headers |-> q.headers] /\ q.headers \in Seq(Headers)

Ports == {80, 443}
Manners == {"polite", "silent", "quits"}

VARIABLES client,     \* manner, request, where it is, the port and the response
          backlog,    \* connections that listen() holds for accept()
          server,     \* what each listening thread does, and for whom
          dead        \* the process has called exit

httpVars == <<client, backlog, server, dead>>

Nobody == "nobody"
NoResponse == [code |-> 0]
Unreadable == [code |-> -1]   \* the header without its end, or nothing

HttpInit ==
    /\ client \in [Clients -> [manner : Manners, req : Requests, port : Ports,
                               pc : {"start"}, resp : {NoResponse}]]
    /\ backlog = [p \in Ports |-> <<>>]
    /\ server = [p \in Ports |-> [pc |-> "accept", of |-> Nobody]]
    /\ dead = FALSE

-----------------------------------------------------------------------------
(* get_response *)

\* parse_request: each header is put before the ones that were read earlier.
parsed_headers(req) ==
    LET h == req.headers IN [i \in DOMAIN h |-> h[Len(h) + 1 - i]]

\* Mutant: the upper end of the range is taken for the first byte behind it.
Parsed_Exclusive(value, file_len) ==
    [start |-> value.first,
     end |-> IF value.last = Open THEN file_len ELSE value.last]

\* sscanf and the increment of `end` for the first header with the name Range:
\* [start, end), with the end of the file in place of an upper end that is
\* missing.  sscanf takes "bytes=-n" for the lower end -n, without an upper end.
Parsed(value, file_len) ==
    [start |-> value.first,
     end |-> (IF value.last = Open THEN file_len - 1 ELSE value.last) + 1]

\* fseek fails for a negative offset and leaves the file where get_file_len has.
Seek(start) == IF start < 0 THEN 0 ELSE start

\* fread into the response buffer: bytes behind the end of the file stay what
\* they were.
Read(file, start, n) ==
    [i \in 1 .. n |-> IF start + i <= Len(file) THEN file[start + i] ELSE Junk]

get_response(req, port) ==
    LET file == Files[req.url]
        headers == parsed_headers(req)
        ranges == {i \in DOMAIN headers : headers[i].name = "Range"}
        first == CHOOSE i \in ranges : \A k \in ranges : i <= k
        r == Parsed(headers[first].value, Len(file))
    IN IF port = 80
       THEN [code |-> 301, location |-> req.url]
       ELSE IF req.url \notin DOMAIN Files
       THEN [code |-> 404]
       ELSE IF ranges # {} /\ r.end < r.start
       THEN Unreadable   \* a negative read_len shortens response_len
       ELSE IF ranges # {}
       THEN [code |-> 206, length |-> r.end - r.start,
             body |-> Read(file, Seek(r.start), r.end - r.start)]
       ELSE [code |-> 200, length |-> Len(file), body |-> Read(file, 0, Len(file))]

-----------------------------------------------------------------------------
(* Clients (external) *)

\* A client connects: the kernel queues the connection for accept().
Connect(c) ==
    /\ ~dead
    /\ \/ client[c].pc = "start" /\ client' = [client EXCEPT ![c].pc = "connected"]
       \/ /\ client[c].pc = "answered" /\ client[c].resp.code = 301
          /\ client' = [client EXCEPT ![c].pc = "connected", ![c].port = 443,
                                      ![c].req.url = client[c].resp.location,
                                      ![c].resp = NoResponse]
    /\ backlog' = [backlog EXCEPT ![client'[c].port] = Append(@, c)]
    /\ UNCHANGED <<server, dead>>

\* It sends its request, which may be before the server accepts, or closes.
Send(c) == /\ ~dead /\ client[c].pc = "connected" /\ client[c].manner = "polite"
           /\ client' = [client EXCEPT ![c].pc = "sent"]
           /\ UNCHANGED <<backlog, server, dead>>

Quit(c) == /\ ~dead /\ client[c].pc = "connected" /\ client[c].manner = "quits"
           /\ client' = [client EXCEPT ![c].pc = "gone"]
           /\ UNCHANGED <<backlog, server, dead>>

-----------------------------------------------------------------------------
(* listen_port *)

Accept(p) == /\ ~dead /\ server[p].pc = "accept" /\ backlog[p] # <<>>
             /\ server' = [server EXCEPT ![p] = [pc |-> "receive", of |-> Head(backlog[p])]]
             /\ backlog' = [backlog EXCEPT ![p] = Tail(@)]
             /\ UNCHANGED <<client, dead>>

\* Mutant: the connection stays open and is read from again.
Answer_KeepAlive(p) ==
    LET c == server[p].of
    IN /\ ~dead /\ server[p].pc = "receive" /\ client[c].pc = "sent"
       /\ client' = [client EXCEPT ![c].pc = "answered",
                                   ![c].resp = get_response(client[c].req, p)]
       /\ UNCHANGED <<server, backlog, dead>>

\* handle_http_request and handle_https_request: read, answer, close.
Answer(p) ==
    LET c == server[p].of
    IN /\ ~dead /\ server[p].pc = "receive" /\ client[c].pc = "sent"
       /\ client' = [client EXCEPT ![c].pc = "answered",
                                   ![c].resp = get_response(client[c].req, p)]
       /\ server' = [server EXCEPT ![p] = [pc |-> "accept", of |-> Nobody]]
       /\ UNCHANGED <<backlog, dead>>

\* The client has gone: recv returns 0 and the process exits.  With TLS,
\* SSL_accept or SSL_read fails and the process exits too, unless the client
\* left after the handshake: then SSL_read returns 0, and an answer to whatever
\* the buffer holds is written to nobody.
Deserted(p) ==
    /\ ~dead /\ server[p].pc = "receive" /\ client[server[p].of].pc = "gone"
    /\ \/ dead' = TRUE /\ UNCHANGED server
       \/ /\ p = 443
          /\ server' = [server EXCEPT ![p] = [pc |-> "accept", of |-> Nobody]]
          /\ UNCHANGED dead
    /\ UNCHANGED <<client, backlog>>

Listen(p) == Accept(p) \/ Answer(p) \/ Deserted(p)

HttpNext == \/ \E c \in Clients : Connect(c) \/ Send(c) \/ Quit(c)
            \/ \E p \in Ports : Listen(p)

HttpSpec == HttpInit /\ [][HttpNext]_httpVars

\* Both threads run, and clients go on: polite ones send, redirected ones
\* follow, and those that leave do so.
HttpFairSpec == /\ HttpSpec
                /\ \A p \in Ports : WF_httpVars(Listen(p))
                /\ \A c \in Clients : WF_httpVars(Connect(c) \/ Send(c) \/ Quit(c))

-----------------------------------------------------------------------------
(* Properties *)

Stages == {"start", "connected", "sent", "gone", "answered"}
Responses == {NoResponse} \cup {get_response(q, p) : q \in Requests, p \in Ports}
ClientStates == [manner : Manners, req : Requests, port : Ports, pc : Stages, resp : Responses]
ServerStates == [pc : {"accept"}, of : {Nobody}] \cup [pc : {"receive"}, of : Clients]

\* The types of the clients, of the queues of listen() and of the two threads.
HttpTypeOK == /\ client \in [Clients -> ClientStates]
              /\ backlog \in [Ports -> Seq(Clients)]
              /\ server \in [Ports -> ServerStates]
              /\ dead \in BOOLEAN

Served(c) == client[c].pc = "answered" /\ client[c].resp.code # 301

\* A request is answered with the file or its absence, and if it asks for a range
\* that lies in the file and does not end before it begins, with exactly the bytes
\* from the first to the last.  Of several ranges the last one counts.  Nothing is
\* said of other ranges: suffixes ("bytes=-n"), ranges that leave the file, and
\* inverted ones, whose answer the client cannot read.
IsRight(q, resp) ==
    LET file == Files[q.url]
        asked == {i \in DOMAIN q.headers : q.headers[i].name = "Range"}
    IN IF q.url \notin DOMAIN Files
       THEN resp.code = 404
       ELSE IF asked = {}
       THEN resp.code = 200 /\ resp.body = file
       ELSE \A i \in asked : (\A k \in asked : k <= i) =>
              LET v == q.headers[i].value
                  last == IF v.last = Open THEN Len(file) - 1 ELSE v.last
              IN 0 <= v.first /\ v.first <= last /\ last < Len(file) =>
                   resp.code = 206 /\ resp.body = SubSeq(file, v.first + 1, last + 1)

\* A client that is served has got what its own request asks for.
AnswerIsRight == \A c \in Clients : Served(c) => IsRight(client[c].req, client[c].resp)

\* A polite client is served in the end, over the redirection if need be, unless
\* a client that left early has ended the process, or a silent one holds the
\* port that it waits for.  To be served is to get an answer and a closed
\* connection; for an inverted range the answer is Unreadable.
PoliteIsServed ==
    \A c \in Clients :
        client[c].manner = "polite" ~>
            \/ Served(c)
            \/ dead /\ \E d \in Clients : client[d].pc = "gone"
            \/ LET s == server[client[c].port].of
               IN s # Nobody /\ client[s].manner = "silent"
=============================================================================
