------------------------------ MODULE SpeedTest ------------------------------
(***************************************************************************)
(* The TCP speed test: c_run, which the probe button calls, against the    *)
(* server loop s_run.  A client asks for a download, counts what arrives,  *)
(* asks for an upload, sends it and waits for the server's count.  All     *)
(* calls block, each recv with a timeout and each send without one; the    *)
(* server has one connection at a time and the others wait in listen's     *)
(* backlog.                                                                *)
(*                                                                         *)
(* A packet is RX_BUFSIZE bytes and travels as two parts, its header and   *)
(* the rest, because recv may return a part of one.  The clock is not      *)
(* modelled: a timeout that fires although the other side may still answer *)
(* is the trouble "slow".                                                  *)
(***************************************************************************)
EXTENDS Naturals, Sequences, FiniteSetsExt

CONSTANTS
    Client,         \* the programs that probe, each with a connection
    None,           \* no client
    Env,            \* what may happen, a subset of Trouble
    MaxPkts,        \* MAXPKTS, the packets of a test
    Retries,        \* the retries of send_ctrl_msg
    Capacity,       \* the packets a connection holds in one direction
    MaxTroubles     \* bound: times something of Env happens

\* "slow"  a recv times out although an answer may still come: the network
\*         is slow, or the server has another connection to serve
\* "split" a recv returns a part of what has arrived
\* "kill"  a client's program is killed while it probes
\* "crash" the server's program is killed
Trouble == {"slow", "split", "kill", "crash"}

ASSUME ClientAssumption == None \notin Client
ASSUME EnvAssumption == Env \subseteq Trouble
ASSUME SizeAssumption ==
    /\ MaxPkts \in Nat \ {0} /\ Retries \in Nat \ {0} /\ Capacity \in Nat \ {0}
    /\ 2 * Retries <= Capacity     \* a connection holds all requests of a client
    /\ MaxTroubles \in Nat

VARIABLES
    client,     \* per client, where c_run is and what its buffers hold
    server,     \* where s_run is and what process_ctr_msg holds
    toServer,   \* per client, the parts on their way to the server ...
    toClient,   \* ... and to the client
    ends,       \* per client, the ends of its connection that are open
    backlog,    \* the connections listen has queued
    heard,      \* history: per client, the tests the server has read requests for
    troubles,   \* history: times something of Env happened
    happened    \* history: which of it

wires == <<toServer, toClient, ends>>
history == <<heard, troubles, happened>>
vars == <<client, server, wires, backlog, history>>

Packet == {"download", "upload", "ack", "data", "end", "stats"}
Part == Packet \union {"rest"}
\* The header in a buffer of malloc's that was never filled.
Unset == "rest"

ClientPlace == {"idle", "send_download", "wait_download", "rx", "send_upload",
                "wait_upload", "tx", "stats", "done", "exited"}

ServerPlace == {"accept", "command", "ack_upload", "ack_download", "rx", "tx",
                "stats", "dead"}

ClientState == [
    at : ClientPlace,
    retries : 0..Retries,
    cum : 0..1,             \* cum_len, in parts
    head : Part,            \* the header the buffer holds if cum = 1
    count : Nat,            \* parts received, or packets sent
    result : {"none", "end", "cut"},  \* how the download ended
    got : Nat]              \* the parts it counted

ServerState == [
    at : ServerPlace,
    conn : Client \union {None},
    cum : 0..1,
    head : Part,
    count : Nat,
    s : {"null", "live", "freed", "misused"}]   \* the text of the last upload

TypeOK ==
    /\ client \in [Client -> ClientState]
    /\ server \in ServerState
    /\ toServer \in [Client -> Seq(Part)] /\ toClient \in [Client -> Seq(Part)]
    /\ \A c \in Client :
        Len(toServer[c]) <= 2 * Capacity /\ Len(toClient[c]) <= 2 * Capacity
    /\ ends \in [Client -> SUBSET {"client", "server"}]
    /\ backlog \in Seq(Client)
    /\ heard \in [Client -> SUBSET {"upload", "download"}]
    /\ troubles \in 0..MaxTroubles
    /\ happened \subseteq Env

Init ==
    /\ client = [c \in Client |->
            [at |-> "idle", retries |-> 0, cum |-> 0, head |-> Unset,
             count |-> 0, result |-> "none", got |-> 0]]
    /\ server = [at |-> "accept", conn |-> None, cum |-> 0, head |-> Unset,
                 count |-> 0, s |-> "null"]
    /\ toServer = [c \in Client |-> <<>>]
    /\ toClient = [c \in Client |-> <<>>]
    /\ ends = [c \in Client |-> {}]
    /\ backlog = <<>>
    /\ heard = [c \in Client |-> {}]
    /\ troubles = 0 /\ happened = {}

-----------------------------------------------------------------------------
Room(wire) == Len(wire) + 2 <= 2 * Capacity
With(wire, packet) == wire \o <<packet, "rest">>

\* The server sends to client c, which has not yet read what came before.
ServerFull(c) ==
    /\ server.conn = c /\ server.at \in {"ack_upload", "ack_download", "tx", "stats"}
    /\ ends[c] = {"client", "server"} /\ ~Room(toClient[c])

\* Client and server send to each other, and neither reads.
Locked(c) ==
    /\ ServerFull(c)
    /\ client[c].at \in {"send_download", "send_upload", "tx"} /\ ~Room(toServer[c])

\* The server sends to a client that does not read any more.
Stuck == \E c \in Client : ServerFull(c) /\ (client[c].at = "done" \/ Locked(c))

\* The surroundings make trouble.  Timeouts of those who wait for a server
\* that is stuck are not counted, for there is no end to them.
Suffers(trouble) ==
    /\ trouble \in Env
    /\ \/ troubles < MaxTroubles /\ troubles' = troubles + 1
       \/ trouble = "slow" /\ Stuck /\ UNCHANGED troubles
    /\ happened' = happened \union {trouble}

Calm == UNCHANGED <<troubles, happened>>

\* A recv of n parts, as many as there are and the buffer takes, or fewer.
Reads(n, wire, cum) ==
    /\ n \in 1..Min({2 - cum, Len(wire)})
    /\ IF n = Min({2 - cum, Len(wire)}) THEN Calm ELSE Suffers("split")

After(n, wire) == SubSeq(wire, n + 1, Len(wire))

\* The types a packet may have in a buffer that n more parts complete, or
\* "part" if they do not: its header's, or whatever bytes are there.
Types(buf, n, wire) ==
    LET head == IF buf.cum = 0 THEN Head(wire) ELSE buf.head
    IN  IF buf.cum + n < 2 THEN {"part"} ELSE IF head = "rest" THEN Packet ELSE {head}

\* The buffer after that.
Filled(buf, n, wire) ==
    IF buf.cum + n < 2 THEN [buf EXCEPT !.cum = 1, !.head = Head(wire)]
    ELSE [buf EXCEPT !.cum = 0, !.head = Unset]

\* A client at "at" with fresh locals.
Enter(c, at) == [client[c] EXCEPT !.at = at, !.retries = Retries, !.cum = 0,
                                  !.head = Unset, !.count = 0]

Receiving(c) == client[c].at \in {"wait_download", "wait_upload", "rx", "stats"}

\* process_ctr_msg reads from a descriptor that run_rx_test has closed: recv
\* fails with EBADF, which is no timeout, and is called again, forever.
Spins == server.at = "command" /\ "server" \notin ends[server.conn]

\* Nothing is on its way to client c and the server has nothing to answer.
ServerRests(c) ==
    /\ toClient[c] = <<>>
    /\ \/ "client" \notin ends[c]
       \/ Spins \/ server.at = "dead"
       \/ /\ server.conn = c /\ server.at \in {"command", "rx"}
          /\ toServer[c] = <<>>

ClientRests(c) ==
    /\ toServer[c] = <<>>
    /\ client[c].at = "done" \/ (Receiving(c) /\ toClient[c] = <<>>)

\* recv fails for a client: it times out, its descriptor is closed, or the
\* connection was reset.
ClientError(c) ==
    /\ toClient[c] = <<>>
    /\ IF ServerRests(c) \/ "server" \notin ends[c] THEN Calm ELSE Suffers("slow")

\* recv returns 0 to a client: the server has closed the connection.
ClientEof(c) == ends[c] = {"client"} /\ toClient[c] = <<>> /\ Calm

\* exit(1), SIGPIPE or SIGKILL: the kernel closes what the program had open.
Exits(c) ==
    /\ client' = [client EXCEPT ![c].at = "exited"]
    /\ ends' = [ends EXCEPT ![c] = @ \ {"client"}]
    /\ toClient' = [toClient EXCEPT ![c] = <<>>]
    /\ UNCHANGED toServer

\* A send by a client, after which it is as "then" says.  It blocks while the
\* connection is full.  What is sent to a closed connection is lost, or
\* kills its sender with SIGPIPE; on a closed descriptor it fails.
ClientSend(c, packet, then) ==
    \/ /\ ends[c] = {"client", "server"} /\ Room(toServer[c])
       /\ toServer' = [toServer EXCEPT ![c] = With(@, packet)]
       /\ client' = [client EXCEPT ![c] = then]
       /\ UNCHANGED <<toClient, ends>>
    \/ /\ ends[c] # {"client", "server"}
       /\ client' = [client EXCEPT ![c] = then]
       /\ UNCHANGED wires
    \/ ends[c] = {"client"} /\ Exits(c)

-----------------------------------------------------------------------------
\* c_run connects; listen's backlog takes the connection before accept does.
Connect(c) ==
    /\ client[c].at = "idle"
    /\ IF server.at = "dead"
       THEN client' = [client EXCEPT ![c].at = "done"] /\ UNCHANGED <<ends, backlog>>
       ELSE /\ client' = [client EXCEPT ![c] = Enter(c, "send_download")]
            /\ ends' = [ends EXCEPT ![c] = {"client", "server"}]
            /\ backlog' = Append(backlog, c)
    /\ UNCHANGED <<server, toServer, toClient, history>>

\* The request a client sends, the state it waits in, and what comes after
\* the answer and after the last retry.
Request(at) == IF at \in {"send_download", "wait_download"} THEN "download" ELSE "upload"
WaitFor(at) == IF Request(at) = "download" THEN "wait_download" ELSE "wait_upload"
SendAgain(at) == IF Request(at) = "download" THEN "send_download" ELSE "send_upload"
Answered(at) == IF Request(at) = "download" THEN "rx" ELSE "tx"
\* Slip: the upload is run although it was refused.
RefusedRunsUpload(at) == IF Request(at) = "download" THEN "send_upload" ELSE "tx"
Refused(at) == IF Request(at) = "download" THEN "send_upload" ELSE "done"

\* send_ctrl_msg sends the request ...
SendCtrlMsg(c) ==
    /\ client[c].at \in {"send_download", "send_upload"}
    /\ ClientSend(c, Request(client[c].at), [client[c] EXCEPT !.at = WaitFor(@)])
    /\ UNCHANGED <<server, backlog, history>>

\* ... and reads.  A part of a packet, or a packet that is no answer, sends
\* the request again without using a retry; each time the buffer is new, so
\* a header that came as a part is forgotten.
CtrlMsgAnswer(c) ==
    /\ client[c].at \in {"wait_download", "wait_upload"}
    /\ \E n \in 1..2 :
        /\ Reads(n, toClient[c], client[c].cum)
        /\ toClient' = [toClient EXCEPT ![c] = After(n, @)]
        /\ \E t \in Types(client[c], n, toClient[c]) :
            client' = [client EXCEPT ![c] =
                IF t = "ack" THEN Enter(c, Answered(client[c].at))
                ELSE [Filled(client[c], n, toClient[c]) EXCEPT
                            !.at = SendAgain(client[c].at), !.head = Unset]]
    /\ UNCHANGED <<server, toServer, ends, backlog, heard>>

\* Slip: the last retry is not counted.
CtrlMsgForever(c) ==
    /\ client[c].at \in {"wait_download", "wait_upload"}
    /\ ClientError(c)
    /\ client' = [client EXCEPT ![c].at = SendAgain(@)]
    /\ UNCHANGED <<server, wires, backlog, heard>>

\* An error uses a retry; after the last one the test is not run.
CtrlMsgError(c) ==
    /\ client[c].at \in {"wait_download", "wait_upload"}
    /\ ClientError(c)
    /\ client' = [client EXCEPT ![c] =
            IF client[c].retries > 1
            THEN [client[c] EXCEPT !.at = SendAgain(client[c].at),
                                   !.retries = client[c].retries - 1]
            ELSE Enter(c, Refused(client[c].at))]
    /\ UNCHANGED <<server, wires, backlog, heard>>

\* send_ctrl_msg and receive_summarystats end the program on a closed connection.
ExitOnClose(c) ==
    /\ client[c].at \in {"wait_download", "wait_upload", "stats"}
    /\ ClientEof(c) /\ Exits(c)
    /\ UNCHANGED <<server, backlog, heard>>

\* The download is over, and the upload is asked for.
Downloaded(c, result, got) ==
    [Enter(c, "send_upload") EXCEPT !.result = result, !.got = got]

\* Slip: cum_len is not reset.
ClientRxNoReset(c) ==
    /\ client[c].at = "rx"
    /\ \E n \in 1..2 :
        /\ Reads(n, toClient[c], client[c].cum)
        /\ toClient' = [toClient EXCEPT ![c] = After(n, @)]
        /\ client' = [client EXCEPT ![c] =
                IF Head(toClient[c]) = "end" THEN Downloaded(c, "end", @.count + n)
                ELSE [@ EXCEPT !.cum = @ + n, !.count = @ + n]]
    /\ UNCHANGED <<server, toServer, ends, backlog, heard>>

\* run_rx_test counts parts until a packet's header says it is the last.
ClientRx(c) ==
    /\ client[c].at = "rx"
    /\ \E n \in 1..2 :
        /\ Reads(n, toClient[c], client[c].cum)
        /\ toClient' = [toClient EXCEPT ![c] = After(n, @)]
        /\ \E t \in Types(client[c], n, toClient[c]) :
            client' = [client EXCEPT ![c] =
                IF t = "end" THEN Downloaded(c, "end", client[c].count + n)
                ELSE [Filled(client[c], n, toClient[c]) EXCEPT
                            !.count = client[c].count + n]]
    /\ UNCHANGED <<server, toServer, ends, backlog, heard>>

\* It gives up at an error, and closes its descriptor at the end of the data.
ClientRxCut(c) ==
    /\ client[c].at = "rx"
    /\ client' = [client EXCEPT ![c] = Downloaded(c, "cut", client[c].count)]
    /\ \/ ClientError(c) /\ UNCHANGED ends
       \/ ClientEof(c) /\ ends' = [ends EXCEPT ![c] = {}]
    /\ UNCHANGED <<server, toServer, toClient, backlog, heard>>

\* Slip: the loop goes round once more.
ClientTxOneMore(c) ==
    /\ client[c].at = "tx"
    /\ LET sent == client[c].count + 1
       IN  ClientSend(c, IF sent = MaxPkts THEN "end" ELSE "data",
                      IF sent > MaxPkts THEN Enter(c, "stats")
                      ELSE [client[c] EXCEPT !.count = sent])
    /\ UNCHANGED <<server, backlog, history>>

\* run_tx_test sends MAXPKTS packets, and the last one says so.
ClientTx(c) ==
    /\ client[c].at = "tx"
    /\ LET sent == client[c].count + 1
       IN  ClientSend(c, IF sent = MaxPkts THEN "end" ELSE "data",
                      IF sent = MaxPkts THEN Enter(c, "stats")
                      ELSE [client[c] EXCEPT !.count = sent])
    /\ UNCHANGED <<server, backlog, history>>

\* receive_summarystats reads one packet, whatever it is, or gives up: at a
\* timeout at once, at another error (a reset, a closed descriptor, SIGALRM)
\* after the last retry.  c_run returns without closing the connection.
ReceiveSummaryStats(c) ==
    /\ client[c].at = "stats"
    /\ \/ \E n \in 1..2 :
            /\ Reads(n, toClient[c], client[c].cum)
            /\ toClient' = [toClient EXCEPT ![c] = After(n, @)]
            /\ client' = [client EXCEPT ![c] =
                    IF client[c].cum + n = 2 THEN Enter(c, "done")
                    ELSE [client[c] EXCEPT !.cum = 1]]
       \/ /\ ClientError(c)
          /\ \/ /\ ends[c] = {"client", "server"}
                /\ client' = [client EXCEPT ![c] = Enter(c, "done")]
             \/ client' = [client EXCEPT ![c] =
                    IF client[c].retries > 1
                    THEN [client[c] EXCEPT !.retries = client[c].retries - 1]
                    ELSE Enter(c, "done")]
          /\ UNCHANGED toClient
    /\ UNCHANGED <<server, toServer, ends, backlog, heard>>

\* The program is closed after its probe, or killed during it.
Quit(c) ==
    /\ client[c].at \notin {"idle", "exited"}
    /\ IF client[c].at = "done" THEN Calm ELSE Suffers("kill")
    /\ Exits(c)
    /\ UNCHANGED <<server, backlog, heard>>

-----------------------------------------------------------------------------
\* s_run accepts the next connection, and process_ctr_msg serves it.
Accept ==
    /\ server.at = "accept" /\ backlog # <<>>
    /\ server' = [at |-> "command", conn |-> Head(backlog), cum |-> 0,
                  head |-> Unset, count |-> 0, s |-> "null"]
    /\ backlog' = Tail(backlog)
    /\ UNCHANGED <<client, wires, history>>

conn == server.conn
ServerAt(at) == [server EXCEPT !.at = at, !.count = 0]

\* The server closes the connection; what the client had sent is discarded.
ServerCloses ==
    /\ ends' = [ends EXCEPT ![conn] = @ \ {"server"}]
    /\ toServer' = [toServer EXCEPT ![conn] = <<>>]
    /\ UNCHANGED toClient

ServerEof == ends[conn] = {"server"} /\ toServer[conn] = <<>> /\ Calm

\* recv fails for the server: it times out, or the connection was reset.
ServerError ==
    /\ "server" \in ends[conn] /\ toServer[conn] = <<>>
    /\ IF ClientRests(conn) \/ "client" \notin ends[conn] THEN Calm ELSE Suffers("slow")

\* SIGPIPE or SIGKILL: all connections are closed, the queued ones too.
ServerDies ==
    /\ server' = [server EXCEPT !.at = "dead", !.conn = None]
    /\ ends' = [c \in Client |-> ends[c] \ {"server"}]
    /\ toServer' = [c \in Client |-> <<>>]
    /\ backlog' = <<>>
    /\ UNCHANGED toClient

\* A send by the server, after which it is as "then" says.
ServerSend(packet, then) ==
    \/ /\ ends[conn] = {"client", "server"} /\ Room(toClient[conn])
       /\ toClient' = [toClient EXCEPT ![conn] = With(@, packet)]
       /\ server' = then
       /\ UNCHANGED <<toServer, ends, backlog>>
    \/ /\ ends[conn] # {"client", "server"}
       /\ server' = then
       /\ UNCHANGED <<wires, backlog>>
    \/ ends[conn] = {"server"} /\ ServerDies

\* process_ctr_msg reads a packet: a request is acknowledged, any other
\* packet is dropped.
Command ==
    /\ server.at = "command" /\ "server" \in ends[conn]
    /\ \E n \in 1..2 :
        /\ Reads(n, toServer[conn], server.cum)
        /\ toServer' = [toServer EXCEPT ![conn] = After(n, @)]
        /\ \E t \in Types(server, n, toServer[conn]) :
            LET at == CASE t = "upload" -> "ack_upload"
                        [] t = "download" -> "ack_download"
                        [] OTHER -> "command"
            IN  /\ server' = [Filled(server, n, toServer[conn]) EXCEPT !.at = at]
                /\ heard' = [heard EXCEPT ![conn] =
                        IF at = "command" THEN @ ELSE @ \union {t}]
    /\ UNCHANGED <<client, toClient, ends, backlog>>

\* Slip: recv waits without a timeout.
CommandWaits ==
    /\ server.at = "command"
    /\ ServerEof
    /\ ServerCloses
    /\ server' = [server EXCEPT !.at = "accept", !.conn = None]
    /\ UNCHANGED <<client, backlog, heard>>

\* At the end of the data, and after 60 seconds (5 once it has measured an
\* upload), the connection is closed and the next one accepted.  Any other
\* error is ignored.
CommandEnds ==
    /\ server.at = "command"
    /\ ServerEof \/ ServerError
    /\ ServerCloses
    /\ server' = [server EXCEPT !.at = "accept", !.conn = None]
    /\ UNCHANGED <<client, backlog, heard>>

\* send_ack, and the test if it could be sent.
SendAck ==
    /\ server.at \in {"ack_upload", "ack_download"}
    /\ LET test == IF server.at = "ack_upload" THEN "rx" ELSE "tx"
       IN  ServerSend("ack", [ServerAt(test) EXCEPT !.cum = 0, !.head = Unset])
    /\ UNCHANGED <<client, history>>

\* Slip: s is not looked at before it is sent.
SendAckUnchecked ==
    /\ server.at = "ack_upload" /\ "client" \notin ends[conn]
    /\ server' = ServerAt("stats")
    /\ UNCHANGED <<client, wires, backlog, history>>

\* If not, the text of an upload is sent, if there was one.
SendAckFails ==
    /\ server.at \in {"ack_upload", "ack_download"} /\ "client" \notin ends[conn]
    /\ server' = ServerAt(IF server.at = "ack_upload" /\ server.s # "null"
                          THEN "stats" ELSE "command")
    /\ UNCHANGED <<client, wires, backlog, history>>

\* An upload is measured, and the buffers of the test are gone.
Measured == [ServerAt("stats") EXCEPT !.s = "live", !.cum = 0, !.head = Unset]

\* The server's run_rx_test, with a buffer and a cum_len of its own.
ServerRx ==
    /\ server.at = "rx"
    /\ \E n \in 1..2 :
        /\ Reads(n, toServer[conn], server.cum)
        /\ toServer' = [toServer EXCEPT ![conn] = After(n, @)]
        /\ \E t \in Types(server, n, toServer[conn]) :
            server' = IF t = "end" THEN Measured ELSE Filled(server, n, toServer[conn])
    /\ UNCHANGED <<client, toClient, ends, backlog, heard>>

ServerRxCut ==
    /\ server.at = "rx"
    /\ server' = Measured
    /\ \/ ServerEof /\ ServerCloses
       \/ ServerError /\ UNCHANGED wires
    /\ UNCHANGED <<client, backlog, heard>>

\* Slip: the last packet is sent one early.
ServerTxOneLess ==
    /\ server.at = "tx"
    /\ LET sent == server.count + 2
       IN  ServerSend(IF sent = MaxPkts THEN "end" ELSE "data",
                      IF sent = MaxPkts THEN ServerAt("command")
                      ELSE [server EXCEPT !.count = sent - 1])
    /\ UNCHANGED <<client, history>>

\* The server's run_tx_test.
ServerTx ==
    /\ server.at = "tx"
    /\ LET sent == server.count + 1
       IN  ServerSend(IF sent = MaxPkts THEN "end" ELSE "data",
                      IF sent = MaxPkts THEN ServerAt("command")
                      ELSE [server EXCEPT !.count = sent])
    /\ UNCHANGED <<client, history>>

\* send_summarystats, and the text is freed.
SendSummaryStats ==
    /\ server.at = "stats"
    /\ ServerSend("stats", [ServerAt("command") EXCEPT
                               !.s = IF @ = "live" THEN "freed" ELSE "misused"])
    /\ UNCHANGED <<client, history>>

\* The server's program is killed.
Crash ==
    /\ server.at # "dead"
    /\ Suffers("crash") /\ ServerDies
    /\ UNCHANGED <<client, heard>>

ClientNext(c) ==
    \/ SendCtrlMsg(c) \/ CtrlMsgAnswer(c) \/ CtrlMsgError(c) \/ ExitOnClose(c)
    \/ ClientRx(c) \/ ClientRxCut(c) \/ ClientTx(c) \/ ReceiveSummaryStats(c)

ServerNext ==
    \/ Accept \/ Command \/ CommandEnds \/ SendAck \/ SendAckFails
    \/ ServerRx \/ ServerRxCut \/ ServerTx \/ SendSummaryStats

Next == ServerNext \/ Crash \/ \E c \in Client : Connect(c) \/ ClientNext(c) \/ Quit(c)

Spec == Init /\ [][Next]_vars

\* Both programs run on; nobody has to probe, or to close the program.
FairSpec == Spec /\ WF_vars(ServerNext) /\ \A c \in Client : WF_vars(ClientNext(c))

-----------------------------------------------------------------------------
InOrder == happened \intersect {"slow", "split"} = {}

\* A download that ends with T_END has counted every packet of the test: what
\* the probe shows as received is what the server sent.
DownloadWhole ==
    "split" \notin happened => \A c \in Client :
        client[c].result = "end" => client[c].got = 2 * MaxPkts

\* A client sends its upload only to a server that has read its request for
\* one, and waits for an answer of a test at a time.
UploadHeard ==
    InOrder => \A c \in Client : client[c].at = "tx" => "upload" \in heard[c]

\* The text of an upload is sent and freed once, even if a client is killed
\* between its request and the acknowledgement.
StatsOnce == InOrder => server.s # "misused"

\* Whoever sends a test has the other side reading it, so that no send waits
\* for room that nobody makes: client and server never send to each other.
SendsAreRead ==
    InOrder => \A c \in Client : ends[c] = {"client", "server"} =>
        /\ client[c].at = "tx" => server.conn = c /\ server.at = "rx"
        /\ server.conn = c /\ server.at = "tx" => client[c].at \in {"wait_download", "rx"}

\* Every probe ends, be its answers late, the server busy with another client
\* or killed, or other clients killed: the button's slot returns, or the
\* program was ended.  Only if a request that was repeated is answered twice,
\* both sides may send to each other for ever.  Packets are read whole.
ProbeEnds ==
    \A c \in Client :
        client[c].at # "idle" ~>
            client[c].at \in {"done", "exited"} \/ Locked(c) \/ "split" \in happened

\* The server listens again after each client that is left alone.
ServesOn == server.at # "accept" ~> server.at = "accept" \/ happened # {}

\* The server listens again after each client, also one that was killed,
\* unless a send to that one ends the server with SIGPIPE.
ListensAgain == server.at # "accept" ~> server.at \in {"accept", "dead"}

=============================================================================
