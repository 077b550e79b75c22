--------------------------- MODULE SpeedTestProofs ---------------------------
(***************************************************************************)
(* What the speed test keeps invariant, for any clients, packets, retries  *)
(* and connections.  The type invariant needs to know whose connection the *)
(* server holds (ConnectionInv).  As long as no recv returns a part of a   *)
(* packet, both buffers are filled packet by packet (WholeInv) and what    *)
(* the server sends to a client that still downloads is one answer: an     *)
(* acknowledgement and MAXPKTS packets (AnswerInv).  As long as no recv    *)
(* times out early either, client and server proceed in lockstep           *)
(* (LockstepInv).                                                          *)
(***************************************************************************)
EXTENDS SpeedTest, TLAPS

\* The server has a connection, and a client that asks for its download has
\* not closed its own end.
ConnectionInv ==
    /\ server.at \in {"accept", "dead"} <=> server.conn = None
    /\ server.at = "dead" => \A c \in Client : "server" \notin ends[c]
    /\ server.at = "tx" => server.count < MaxPkts
    /\ \A i \in DOMAIN backlog : client[backlog[i]].at # "idle"
    /\ \A c \in Client :
        /\ client[c].at = "idle" =>
                /\ server.conn # c /\ ends[c] = {}
                /\ toServer[c] = <<>> /\ toClient[c] = <<>>
        /\ ends[c] = {"server"} => client[c].at = "exited"
        /\ client[c].at \in {"send_download", "wait_download", "rx"} =>
                "client" \in ends[c]

\* A wire that holds whole packets.
Framed(wire) ==
    \E k \in 0..Len(wire) :
        /\ Len(wire) = 2 * k
        /\ \A i \in 1..k : wire[2 * i - 1] \in Packet /\ wire[2 * i] = "rest"

WholeInv ==
    "split" \notin happened =>
        /\ server.cum = 0
        /\ \A c \in Client :
            client[c].cum = 0 /\ Framed(toServer[c]) /\ Framed(toClient[c])

\* The server's place in the conversation with c, once it comes to c.
At(c) == IF server.conn = c THEN server.at ELSE "command"
Text(c) == IF server.conn = c THEN server.s ELSE "null"

Downloads(c) == client[c].at \in {"idle", "send_download", "wait_download", "rx"}

\* The packets of an answer to a download request, from the 0th.
Answer(i) == IF i = 0 THEN "ack" ELSE IF i = MaxPkts THEN "end" ELSE "data"

\* The parts of its first answer that c has read, and that it was sent.
Got(c) == IF client[c].at = "rx" THEN client[c].count + 2 ELSE 0
Sent(c) == Got(c) + Len(toClient[c])

Requested(c) ==
    /\ \A i \in DOMAIN toServer[c] : toServer[c][i] # "upload"
    /\ At(c) \in {"command", "ack_download", "tx"}

\* What comes after the first "got" parts of an answer.
AnswerFrom(got, wire) ==
    /\ got <= 2 * MaxPkts /\ \E j \in 0..MaxPkts : got = 2 * j
    /\ \A i \in 0..MaxPkts : 2 * i + 1 - got \in DOMAIN wire =>
            wire[2 * i + 1 - got] = Answer(i)

AnswerInv(c) ==
    /\ client[c].result = "end" => client[c].got = 2 * MaxPkts
    /\ Downloads(c) =>
        /\ Requested(c)
        /\ AnswerFrom(Got(c), toClient[c])
        /\ "server" \in ends[c] /\ Sent(c) < 2 * MaxPkts + 2 =>
                \/ Sent(c) = 0 /\ At(c) \in {"command", "ack_download"}
                \/ At(c) = "tx" /\ Sent(c) = 2 * server.count + 2

DownloadInv == "split" \notin happened => \A c \in Client : AnswerInv(c)

\* The server may still answer c.
Live(c) == "server" \in ends[c] /\ ~Spins

NoRequest(wire) == \A i \in DOMAIN wire : wire[i] \notin {"upload", "download"}
OnlyData(wire) == \A i \in DOMAIN wire : wire[i] \in {"data", "rest"}

\* A client that downloads has one request on its way, or one answer.
Downloading(c) ==
    /\ Sent(c) <= 2 * MaxPkts + 2
    /\ client[c].at = "send_download" => Sent(c) = 0
    /\ Live(c) =>
        /\ Text(c) = "null"
        /\ At(c) = "tx" => Sent(c) = 2 * server.count + 2
        /\ \/ /\ client[c].at \in {"idle", "send_download"}
              /\ toServer[c] = <<>> /\ At(c) = "command"
           \/ /\ client[c].at = "wait_download" /\ Sent(c) = 0
              /\ \/ toServer[c] = <<"download", "rest">> /\ At(c) = "command"
                 \/ toServer[c] = <<>> /\ At(c) = "ack_download"
           \/ /\ client[c].at \in {"wait_download", "rx"} /\ Sent(c) > 0
              /\ toServer[c] = <<>> /\ At(c) \in {"tx", "command"}

\* A client that asks for its upload has one request on its way, or one
\* acknowledgement.
Uploading(c) ==
    /\ toClient[c] = <<>> \/
            /\ client[c].at = "wait_upload" /\ toClient[c] = <<"ack", "rest">>
            /\ "upload" \in heard[c]
    /\ client[c].at = "tx" => "upload" \in heard[c]
    /\ Live(c) =>
        /\ Text(c) = "null"
        /\ \/ /\ client[c].at = "send_upload"
              /\ toServer[c] = <<>> /\ At(c) = "command"
           \/ /\ client[c].at = "wait_upload" /\ toClient[c] = <<>>
              /\ \/ toServer[c] = <<"upload", "rest">> /\ At(c) = "command"
                 \/ toServer[c] = <<>> /\ At(c) = "ack_upload" /\ "upload" \in heard[c]
           \/ /\ client[c].at = "wait_upload" /\ toClient[c] # <<>>
              /\ toServer[c] = <<>> /\ At(c) = "rx"
           \/ client[c].at = "tx" /\ OnlyData(toServer[c]) /\ At(c) = "rx"

\* A client that is through has at most a request behind that was not read.
Through(c) ==
    Live(c) =>
        \/ NoRequest(toServer[c])
        \/ /\ \E r \in {"upload", "download"} : toServer[c] = <<r, "rest">>
           /\ At(c) = "command" /\ Text(c) = "null"

Conversation(c) ==
    /\ Downloads(c) => Downloading(c)
    /\ client[c].at \in {"send_upload", "wait_upload", "tx"} => Uploading(c)
    /\ client[c].at \in {"stats", "done", "exited"} => Through(c)

\* The text of an upload is measured before it is sent, and sent once.
TextInv ==
    /\ server.at = "ack_upload" => server.s = "null"
    /\ server.at = "stats" => server.s = "live"
    /\ server.s # "misused"

LockstepInv == InOrder => TextInv /\ \A c \in Client : Conversation(c)

-----------------------------------------------------------------------------
(* The pieces the steps are made of.                                       *)

\* The lesser of two numbers is one of them.
LEMMA MinOfTwo ==
    ASSUME NEW a \in Nat, NEW b \in Nat
    PROVE  /\ Min({a, b}) \in Nat
           /\ Min({a, b}) = a \/ Min({a, b}) = b
           /\ Min({a, b}) <= a /\ Min({a, b}) <= b
<1>1. \E x \in {a, b} : \A y \in {a, b} : x <= y
  <2>1. CASE a <= b
    BY <2>1
  <2>2. CASE b <= a
    BY <2>2
  <2> QED
    BY <2>1, <2>2
<1>2. Min({a, b}) \in {a, b} /\ \A y \in {a, b} : Min({a, b}) <= y
  BY <1>1 DEF Min
<1> QED
  BY <1>2

\* The constants that bound a wire and a test.
LEMMA Sizes ==
    /\ 2 * Capacity \in Nat /\ 2 * MaxPkts \in Nat
    /\ MaxPkts \in Nat /\ MaxPkts >= 1 /\ Retries \in Nat /\ Retries >= 1
    /\ MaxTroubles \in Nat
BY SizeAssumption

\* Trouble is counted up to its bound.
LEMMA TroubleTyped ==
    ASSUME TypeOK, NEW trouble, Calm \/ Suffers(trouble)
    PROVE  /\ troubles' \in 0..MaxTroubles /\ happened' \subseteq Env
           /\ happened \subseteq happened'
           /\ trouble \notin happened' => Calm
BY SizeAssumption DEF TypeOK, Calm, Suffers

\* A recv takes parts the wire has and the buffer holds; unless it splits a
\* packet, all of them.
LEMMA ReadsSome ==
    ASSUME TypeOK, NEW n \in 1..2, NEW wire \in Seq(Part), NEW cum \in 0..1,
           Reads(n, wire, cum)
    PROVE  /\ n <= Len(wire) /\ cum + n <= 2 /\ wire # <<>>
           /\ troubles' \in 0..MaxTroubles /\ happened' \subseteq Env
           /\ happened \subseteq happened'
           /\ "split" \notin happened' /\ cum = 0 /\ Len(wire) >= 2 => n = 2
           /\ "slow" \in happened' => "slow" \in happened
<1>1. Len(wire) \in Nat /\ 2 - cum \in Nat
  OBVIOUS
<1>2. n <= 2 - cum /\ n <= Len(wire)
  BY <1>1, MinOfTwo DEF Reads
<1>3. cum = 0 /\ Len(wire) >= 2 => Min({2 - cum, Len(wire)}) = 2
  BY <1>1, MinOfTwo
<1>4. Calm \/ Suffers("split")
  BY DEF Reads
<1>5. "split" \notin happened' => n = Min({2 - cum, Len(wire)})
  BY DEF Reads, Suffers
<1>6. wire # <<>>
  BY <1>2
<1>7. "slow" \in happened' => "slow" \in happened
  BY <1>4 DEF Calm, Suffers
<1> QED
  BY <1>2, <1>3, <1>4, <1>5, <1>6, <1>7, TroubleTyped

\* What is left of a wire.
LEMMA AfterRead ==
    ASSUME NEW wire \in Seq(Part), NEW n \in Nat, n <= Len(wire)
    PROVE  /\ After(n, wire) \in Seq(Part)
           /\ Len(After(n, wire)) = Len(wire) - n
           /\ \A i \in 1..(Len(wire) - n) : After(n, wire)[i] = wire[i + n]
BY DEF After

\* A wire with a packet more.
LEMMA WithPacket ==
    ASSUME NEW wire \in Seq(Part), NEW packet \in Packet
    PROVE  /\ With(wire, packet) \in Seq(Part)
           /\ Len(With(wire, packet)) = Len(wire) + 2
           /\ \A i \in 1..Len(wire) : With(wire, packet)[i] = wire[i]
           /\ With(wire, packet)[Len(wire) + 1] = packet
           /\ With(wire, packet)[Len(wire) + 2] = "rest"
<1>1. packet \in Part /\ "rest" \in Part
  BY DEF Part
<1>2. <<packet, "rest">> \in Seq(Part)
  BY <1>1
<1> QED
  BY <1>2 DEF With

\* A room is for two parts.
LEMMA RoomLeft ==
    ASSUME NEW wire \in Seq(Part), NEW packet \in Packet, Room(wire)
    PROVE  Len(With(wire, packet)) <= 2 * Capacity
BY WithPacket DEF Room

\* The header a recv finds or has found.
LEMMA HeadTyped ==
    ASSUME NEW wire \in Seq(Part), wire # <<>>
    PROVE  Head(wire) \in Part /\ Head(wire) = wire[1]
OBVIOUS

LEMMA TypesTyped ==
    ASSUME NEW wire \in Seq(Part), wire # <<>>, NEW n, NEW buf, buf.head \in Part,
           NEW t \in Types(buf, n, wire)
    PROVE  t \in Packet \union {"part"}
<1>1. Head(wire) \in Part
  BY HeadTyped
<1> QED
  BY <1>1 DEF Types, Part

\* A buffer that a part of a packet is in, and an empty one.
LEMMA StartedClient ==
    ASSUME NEW buf \in ClientState, NEW h \in Part
    PROVE  [buf EXCEPT !.cum = 1, !.head = h] \in ClientState
<1>1. 1 \in 0..1
  OBVIOUS
<1> QED
  BY <1>1, Zenon DEF ClientState

LEMMA EmptiedClient ==
    ASSUME NEW buf \in ClientState, NEW h \in Part
    PROVE  [buf EXCEPT !.cum = 0, !.head = h] \in ClientState
<1>1. 0 \in 0..1
  OBVIOUS
<1> QED
  BY <1>1, Zenon DEF ClientState

LEMMA StartedServer ==
    ASSUME NEW buf \in ServerState, NEW h \in Part
    PROVE  [buf EXCEPT !.cum = 1, !.head = h] \in ServerState
<1>1. 1 \in 0..1
  OBVIOUS
<1> QED
  BY <1>1, Zenon DEF ServerState

LEMMA EmptiedServer ==
    ASSUME NEW buf \in ServerState, NEW h \in Part
    PROVE  [buf EXCEPT !.cum = 0, !.head = h] \in ServerState
<1>1. 0 \in 0..1
  OBVIOUS
<1> QED
  BY <1>1, Zenon DEF ServerState

\* The buffers of a client and of the server stay buffers.
LEMMA FilledClient ==
    ASSUME NEW wire \in Seq(Part), wire # <<>>, NEW n \in Nat, NEW buf \in ClientState
    PROVE  LET r == Filled(buf, n, wire)
           IN  /\ r \in ClientState
               /\ r.at = buf.at /\ r.result = buf.result /\ r.got = buf.got /\ r.count = buf.count
               /\ r.cum = IF buf.cum + n < 2 THEN 1 ELSE 0
<1>1. PICK h \in Part : h = Head(wire)
  BY HeadTyped
<1>2. PICK u \in Part : u = Unset
  BY DEF Unset, Part
<1>3. /\ [buf EXCEPT !.cum = 1, !.head = h] \in ClientState
      /\ [buf EXCEPT !.cum = 0, !.head = u] \in ClientState
  BY StartedClient, EmptiedClient
<1>4. LET r == [buf EXCEPT !.cum = 1, !.head = h] IN r.at = buf.at /\ r.result = buf.result /\ r.got = buf.got /\ r.count = buf.count /\ r.cum = 1
  BY DEF ClientState
<1>5. LET r == [buf EXCEPT !.cum = 0, !.head = u] IN r.at = buf.at /\ r.result = buf.result /\ r.got = buf.got /\ r.count = buf.count /\ r.cum = 0
  BY DEF ClientState
<1>6. Filled(buf, n, wire) = IF buf.cum + n < 2 THEN [buf EXCEPT !.cum = 1, !.head = h]
                             ELSE [buf EXCEPT !.cum = 0, !.head = u]
  BY <1>1, <1>2 DEF Filled
<1> QED
  BY <1>3, <1>4, <1>5, <1>6

LEMMA FilledServer ==
    ASSUME NEW wire \in Seq(Part), wire # <<>>, NEW n \in Nat, NEW buf \in ServerState
    PROVE  LET r == Filled(buf, n, wire)
           IN  /\ r \in ServerState
               /\ r.at = buf.at /\ r.conn = buf.conn /\ r.s = buf.s /\ r.count = buf.count
               /\ r.cum = IF buf.cum + n < 2 THEN 1 ELSE 0
<1>1. PICK h \in Part : h = Head(wire)
  BY HeadTyped
<1>2. PICK u \in Part : u = Unset
  BY DEF Unset, Part
<1>3. /\ [buf EXCEPT !.cum = 1, !.head = h] \in ServerState
      /\ [buf EXCEPT !.cum = 0, !.head = u] \in ServerState
  BY StartedServer, EmptiedServer
<1>4. LET r == [buf EXCEPT !.cum = 1, !.head = h] IN r.at = buf.at /\ r.conn = buf.conn /\ r.s = buf.s /\ r.count = buf.count /\ r.cum = 1
  BY DEF ServerState
<1>5. LET r == [buf EXCEPT !.cum = 0, !.head = u] IN r.at = buf.at /\ r.conn = buf.conn /\ r.s = buf.s /\ r.count = buf.count /\ r.cum = 0
  BY DEF ServerState
<1>6. Filled(buf, n, wire) = IF buf.cum + n < 2 THEN [buf EXCEPT !.cum = 1, !.head = h]
                             ELSE [buf EXCEPT !.cum = 0, !.head = u]
  BY <1>1, <1>2 DEF Filled
<1> QED
  BY <1>3, <1>4, <1>5, <1>6

-----------------------------------------------------------------------------
(* What c_run does to what it holds.                                       *)

LEMMA PlacedClient ==
    ASSUME NEW buf \in ClientState, NEW a \in ClientPlace
    PROVE  LET r == [buf EXCEPT !.at = a]
           IN  /\ r \in ClientState
               /\ r.at = a /\ r.cum = buf.cum /\ r.result = buf.result
               /\ r.got = buf.got /\ r.count = buf.count
<1>1. [buf EXCEPT !.at = a] \in ClientState
  BY Zenon DEF ClientState
<1> QED
  BY <1>1 DEF ClientState

\* It begins a test, or a request for one.
LEMMA EnteredClient ==
    ASSUME TypeOK, NEW c \in Client, NEW a \in ClientPlace
    PROVE  /\ Enter(c, a) \in ClientState
           /\ Enter(c, a).at = a /\ Enter(c, a).cum = 0 /\ Enter(c, a).count = 0
           /\ Enter(c, a).result = client[c].result /\ Enter(c, a).got = client[c].got
<1>1. client[c] \in ClientState
  BY DEF TypeOK
<1>2. Retries \in 0..Retries /\ 0 \in 0..1 /\ 0 \in Nat /\ Unset \in Part
  BY SizeAssumption DEF Unset, Part
<1>3. Enter(c, a) \in ClientState
  BY <1>1, <1>2, Zenon DEF Enter, ClientState
<1> QED
  BY <1>1, <1>3 DEF Enter, ClientState

\* It has its download.
LEMMA DownloadedClient ==
    ASSUME TypeOK, NEW c \in Client, NEW result \in {"end", "cut"}, NEW got \in Nat
    PROVE  LET r == Downloaded(c, result, got)
           IN  /\ r \in ClientState
               /\ r.at = "send_upload" /\ r.cum = 0 /\ r.count = 0
               /\ r.result = result /\ r.got = got
<1>1. "send_upload" \in ClientPlace /\ result \in {"none", "end", "cut"}
  BY DEF ClientPlace
<1>2. PICK e \in ClientState :
        /\ e = Enter(c, "send_upload")
        /\ e.at = "send_upload" /\ e.cum = 0 /\ e.count = 0
  BY <1>1, EnteredClient
<1>3. [e EXCEPT !.result = result, !.got = got] \in ClientState
  BY <1>1, Zenon DEF ClientState
<1> QED
  BY <1>2, <1>3 DEF Downloaded, ClientState

\* It has counted so much.
LEMMA CountedClient ==
    ASSUME NEW buf \in ClientState, NEW k \in Nat
    PROVE  LET r == [buf EXCEPT !.count = k]
           IN  /\ r \in ClientState
               /\ r.at = buf.at /\ r.cum = buf.cum /\ r.result = buf.result
               /\ r.got = buf.got /\ r.count = k
<1>1. [buf EXCEPT !.count = k] \in ClientState
  BY Zenon DEF ClientState
<1> QED
  BY <1>1 DEF ClientState

\* It uses a retry.
LEMMA RetriedClient ==
    ASSUME NEW buf \in ClientState, NEW a \in ClientPlace, buf.retries > 1
    PROVE  LET r == [buf EXCEPT !.at = a, !.retries = buf.retries - 1]
           IN  /\ r \in ClientState
               /\ r.at = a /\ r.cum = buf.cum /\ r.result = buf.result
               /\ r.got = buf.got /\ r.count = buf.count
<1>1. PICK k \in 0..Retries : k = buf.retries - 1
  <2>1. buf.retries \in 0..Retries
    BY DEF ClientState
  <2> QED
    BY <2>1, SizeAssumption
<1>2. [buf EXCEPT !.at = a, !.retries = k] \in ClientState
  BY Zenon DEF ClientState
<1> QED
  BY <1>1, <1>2 DEF ClientState

LEMMA WaitedClient ==
    ASSUME NEW buf \in ClientState, buf.retries > 1
    PROVE  LET r == [buf EXCEPT !.retries = buf.retries - 1]
           IN  /\ r \in ClientState
               /\ r.at = buf.at /\ r.cum = buf.cum /\ r.result = buf.result
               /\ r.got = buf.got /\ r.count = buf.count
<1>1. PICK k \in 0..Retries : k = buf.retries - 1
  <2>1. buf.retries \in 0..Retries
    BY DEF ClientState
  <2> QED
    BY <2>1, SizeAssumption
<1>2. [buf EXCEPT !.retries = k] \in ClientState
  BY Zenon DEF ClientState
<1> QED
  BY <1>1, <1>2 DEF ClientState

\* It asks again, and forgets what its buffer had.
LEMMA AgainClient ==
    ASSUME NEW buf \in ClientState, NEW a \in ClientPlace
    PROVE  LET r == [buf EXCEPT !.at = a, !.head = Unset]
           IN  /\ r \in ClientState
               /\ r.at = a /\ r.cum = buf.cum /\ r.result = buf.result
               /\ r.got = buf.got /\ r.count = buf.count
<1>1. Unset \in Part
  BY DEF Unset, Part
<1>2. [buf EXCEPT !.at = a, !.head = Unset] \in ClientState
  BY <1>1, Zenon DEF ClientState
<1> QED
  BY <1>2 DEF ClientState

LEMMA HalfClient ==
    ASSUME NEW buf \in ClientState
    PROVE  LET r == [buf EXCEPT !.cum = 1]
           IN  /\ r \in ClientState
               /\ r.at = buf.at /\ r.cum = 1 /\ r.result = buf.result
               /\ r.got = buf.got /\ r.count = buf.count
<1>1. 1 \in 0..1
  OBVIOUS
<1>2. [buf EXCEPT !.cum = 1] \in ClientState
  BY <1>1, Zenon DEF ClientState
<1> QED
  BY <1>2 DEF ClientState

-----------------------------------------------------------------------------
(* What a step of one client does, and leaves alone.                       *)

ClientStep(c) ==
    /\ client' = [client EXCEPT ![c] = client'[c]] /\ client'[c] \in ClientState
    /\ toServer' = [toServer EXCEPT ![c] = toServer'[c]]
    /\ toServer'[c] \in Seq(Part) /\ Len(toServer'[c]) <= 2 * Capacity
    /\ toClient' = [toClient EXCEPT ![c] = toClient'[c]]
    /\ toClient'[c] \in Seq(Part) /\ Len(toClient'[c]) <= Len(toClient[c])
    /\ ends' = [ends EXCEPT ![c] = ends'[c]]
    /\ ends'[c] \subseteq ends[c]
    /\ "server" \in ends'[c] <=> "server" \in ends[c]
    /\ UNCHANGED <<server, backlog, heard>>
    /\ troubles' \in 0..MaxTroubles /\ happened' \subseteq Env /\ happened \subseteq happened'

\* The wires and the ends of c's connection stay.
Quiet(c) ==
    toServer'[c] = toServer[c] /\ toClient'[c] = toClient[c] /\ ends'[c] = ends[c]

\* c has sent a packet, or would have, had the connection been open.
SentTo(c, packet) ==
    /\ toClient'[c] = toClient[c] /\ ends'[c] = ends[c]
    /\ IF ends[c] = {"client", "server"}
       THEN toServer'[c] = With(toServer[c], packet)
       ELSE toServer'[c] = toServer[c]

\* c has read n parts.
ReadOff(c, n) ==
    /\ toServer'[c] = toServer[c] /\ ends'[c] = ends[c]
    /\ n \in 1..2 /\ n <= Len(toClient[c]) /\ client[c].cum + n <= 2
    /\ toClient'[c] = After(n, toClient[c])
    /\ "split" \notin happened' /\ client[c].cum = 0 /\ Len(toClient[c]) >= 2 => n = 2

\* c has ended.
Ended(c) ==
    /\ toServer'[c] = toServer[c] /\ toClient'[c] = <<>>
    /\ ends'[c] = ends[c] \ {"client"}
    /\ client'[c] = [client[c] EXCEPT !.at = "exited"]

\* A recv has failed for c although an answer could still have come, or could
\* not.
Failed(c) ==
    /\ toClient[c] = <<>>
    /\ "slow" \notin happened' => ServerRests(c) \/ "server" \notin ends[c]

LEMMA TypedParts ==
    ASSUME TypeOK, NEW c \in Client
    PROVE  /\ client[c] \in ClientState /\ client[c].at \in ClientPlace
           /\ client[c].cum \in 0..1 /\ client[c].count \in Nat /\ client[c].got \in Nat
           /\ client[c].head \in Part
           /\ toServer[c] \in Seq(Part) /\ Len(toServer[c]) <= 2 * Capacity
           /\ toClient[c] \in Seq(Part) /\ Len(toClient[c]) <= 2 * Capacity
           /\ Len(toServer[c]) \in Nat /\ Len(toClient[c]) \in Nat
           /\ ends[c] \subseteq {"client", "server"}
           /\ DOMAIN toServer[c] = 1..Len(toServer[c])
           /\ DOMAIN toClient[c] = 1..Len(toClient[c])
BY DEF TypeOK, ClientState

\* A program ends.
LEMMA ExitsEnds ==
    ASSUME TypeOK, NEW c \in Client, Exits(c), UNCHANGED <<server, backlog, heard>>,
           troubles' \in 0..MaxTroubles, happened' \subseteq Env, happened \subseteq happened'
    PROVE  ClientStep(c) /\ Ended(c) /\ client'[c].at = "exited"
<1>1. client[c] \in ClientState /\ "exited" \in ClientPlace
  BY DEF TypeOK, ClientPlace
<1>2. /\ client'[c] = [client[c] EXCEPT !.at = "exited"]
      /\ client' = [client EXCEPT ![c] = client'[c]]
  BY DEF TypeOK, Exits
<1>3. client'[c] \in ClientState /\ client'[c].at = "exited"
  BY <1>1, <1>2, PlacedClient
<1>4. Ended(c)
  BY <1>2 DEF Exits, Ended, TypeOK
<1>5. toClient'[c] \in Seq(Part) /\ Len(toClient'[c]) = 0
  BY <1>4 DEF Ended
<1>6. Len(toClient[c]) \in Nat
  BY TypedParts
<1> QED
  BY <1>2, <1>3, <1>4, <1>5, <1>6 DEF Exits, ClientStep, TypeOK

\* A client sends.
LEMMA SendDoes ==
    ASSUME TypeOK, NEW c \in Client, NEW packet \in Packet, NEW then \in ClientState,
           ClientSend(c, packet, then), UNCHANGED <<server, backlog, history>>
    PROVE  /\ ClientStep(c) /\ UNCHANGED happened
           /\ \/ SentTo(c, packet) /\ client'[c] = then
              \/ Ended(c) /\ client'[c].at = "exited"
<1>1. troubles' \in 0..MaxTroubles /\ happened' \subseteq Env /\ happened' = happened
  BY DEF history, TypeOK
<1>2. CASE /\ ends[c] = {"client", "server"} /\ Room(toServer[c])
           /\ toServer' = [toServer EXCEPT ![c] = With(@, packet)]
           /\ client' = [client EXCEPT ![c] = then]
           /\ UNCHANGED <<toClient, ends>>
  <2>1. toServer'[c] = With(toServer[c], packet) /\ client'[c] = then
    BY <1>2 DEF TypeOK
  <2>2. toServer'[c] \in Seq(Part) /\ Len(toServer'[c]) <= 2 * Capacity
    BY <1>2, <2>1, WithPacket, RoomLeft, TypedParts
  <2> QED
    BY <1>1, <1>2, <2>1, <2>2, TypedParts DEF ClientStep, SentTo, TypeOK, history
<1>3. CASE /\ ends[c] # {"client", "server"}
           /\ client' = [client EXCEPT ![c] = then]
           /\ UNCHANGED wires
  <2>1. client'[c] = then
    BY <1>3 DEF TypeOK
  <2> QED
    BY <1>1, <1>3, <2>1, TypedParts DEF ClientStep, SentTo, TypeOK, history, wires
<1>4. CASE ends[c] = {"client"} /\ Exits(c)
  BY <1>1, <1>4, ExitsEnds DEF history
<1> QED
  BY <1>2, <1>3, <1>4 DEF ClientSend

\* A client reads.
LEMMA ReadDoes ==
    ASSUME TypeOK, NEW c \in Client, NEW n \in 1..2,
           Reads(n, toClient[c], client[c].cum),
           toClient' = [toClient EXCEPT ![c] = After(n, @)],
           NEW then \in ClientState, client' = [client EXCEPT ![c] = then],
           UNCHANGED <<server, toServer, ends, backlog, heard>>
    PROVE  /\ ClientStep(c) /\ ReadOff(c, n) /\ client'[c] = then
           /\ "slow" \in happened' => "slow" \in happened
<1>1. toClient[c] \in Seq(Part) /\ client[c].cum \in 0..1
  BY TypedParts
<1>2. /\ n <= Len(toClient[c]) /\ client[c].cum + n <= 2
      /\ troubles' \in 0..MaxTroubles /\ happened' \subseteq Env
      /\ happened \subseteq happened'
      /\ "split" \notin happened' /\ client[c].cum = 0 /\ Len(toClient[c]) >= 2 => n = 2
      /\ "slow" \in happened' => "slow" \in happened
  BY <1>1, ReadsSome
<1>3. client'[c] = then /\ toClient'[c] = After(n, toClient[c])
  BY DEF TypeOK
<1>4. toClient'[c] \in Seq(Part) /\ Len(toClient'[c]) <= Len(toClient[c])
  <2>1. n \in Nat /\ Len(toClient[c]) \in Nat
    BY <1>1
  <2>2. /\ After(n, toClient[c]) \in Seq(Part)
        /\ Len(After(n, toClient[c])) = Len(toClient[c]) - n
    BY <1>1, <1>2, <2>1, AfterRead
  <2> QED
    BY <1>3, <2>1, <2>2
<1> QED
  BY <1>2, <1>3, <1>4, TypedParts DEF ClientStep, ReadOff, TypeOK

\* A recv fails for a client.
LEMMA ErrorDoes ==
    ASSUME TypeOK, NEW c \in Client, ClientError(c),
           NEW then \in ClientState, client' = [client EXCEPT ![c] = then],
           UNCHANGED <<server, wires, backlog, heard>>
    PROVE  ClientStep(c) /\ Quiet(c) /\ Failed(c) /\ client'[c] = then
<1>1. /\ troubles' \in 0..MaxTroubles /\ happened' \subseteq Env
      /\ happened \subseteq happened'
      /\ "slow" \notin happened' => ServerRests(c) \/ "server" \notin ends[c]
      /\ toClient[c] = <<>>
  BY TroubleTyped DEF ClientError, Suffers
<1>2. client'[c] = then
  BY DEF TypeOK
<1> QED
  BY <1>1, <1>2, TypedParts DEF ClientStep, Quiet, Failed, TypeOK, wires

-----------------------------------------------------------------------------
(* What each action of a client does.                                      *)

LEMMA SendCtrlMsgDoes ==
    ASSUME TypeOK, NEW c \in Client, SendCtrlMsg(c)
    PROVE  /\ ClientStep(c) /\ UNCHANGED happened
           /\ \/ /\ client'[c] = [client[c] EXCEPT !.at = WaitFor(client[c].at)]
                 /\ SentTo(c, Request(client[c].at))
              \/ Ended(c) /\ client'[c].at = "exited"
<1>1. WaitFor(client[c].at) \in ClientPlace /\ Request(client[c].at) \in Packet
  BY DEF SendCtrlMsg, WaitFor, Request, ClientPlace, Packet
<1>2. [client[c] EXCEPT !.at = WaitFor(client[c].at)] \in ClientState
  BY <1>1, TypedParts, PlacedClient
<1> QED
  BY <1>1, <1>2, SendDoes DEF SendCtrlMsg

LEMMA CtrlMsgAnswerDoes ==
    ASSUME TypeOK, NEW c \in Client, CtrlMsgAnswer(c)
    PROVE  /\ client[c].at \in {"wait_download", "wait_upload"}
           /\ ClientStep(c)
           /\ "slow" \in happened' => "slow" \in happened
           /\ \E n \in 1..2 :
                /\ ReadOff(c, n)
                /\ \E t \in Types(client[c], n, toClient[c]) :
                    client'[c] =
                        IF t = "ack" THEN Enter(c, Answered(client[c].at))
                        ELSE [Filled(client[c], n, toClient[c]) EXCEPT
                                    !.at = SendAgain(client[c].at), !.head = Unset]
           /\ client'[c] \in ClientState
           /\ client'[c].at \in {Answered(client[c].at), SendAgain(client[c].at)}
<1>1. PICK n \in 1..2 :
        /\ Reads(n, toClient[c], client[c].cum)
        /\ toClient' = [toClient EXCEPT ![c] = After(n, @)]
        /\ \E t \in Types(client[c], n, toClient[c]) :
            client' = [client EXCEPT ![c] =
                IF t = "ack" THEN Enter(c, Answered(client[c].at))
                ELSE [Filled(client[c], n, toClient[c]) EXCEPT
                        !.at = SendAgain(client[c].at), !.head = Unset]]
  BY DEF CtrlMsgAnswer
<1>2. PICK t \in Types(client[c], n, toClient[c]) :
            client' = [client EXCEPT ![c] =
                IF t = "ack" THEN Enter(c, Answered(client[c].at))
                ELSE [Filled(client[c], n, toClient[c]) EXCEPT
                        !.at = SendAgain(client[c].at), !.head = Unset]]
  BY <1>1
<1>3. /\ Answered(client[c].at) \in ClientPlace
      /\ SendAgain(client[c].at) \in ClientPlace
      /\ client[c].at \in {"wait_download", "wait_upload"}
  BY DEF CtrlMsgAnswer, Answered, SendAgain, Request, ClientPlace
<1>4. n \in Nat /\ toClient[c] \in Seq(Part) /\ toClient[c] # <<>>
      /\ client[c] \in ClientState
  BY <1>1, ReadsSome, TypedParts
<1>5. PICK buf \in ClientState :
        buf = Filled(client[c], n, toClient[c]) /\ buf.at = client[c].at
  BY <1>4, FilledClient
<1>6. PICK a \in ClientPlace : a = SendAgain(client[c].at)
  BY <1>3
<1>7. /\ Enter(c, Answered(client[c].at)) \in ClientState
      /\ Enter(c, Answered(client[c].at)).at = Answered(client[c].at)
  BY <1>3, EnteredClient
<1>8. PICK then \in ClientState :
        /\ client' = [client EXCEPT ![c] = then]
        /\ then = IF t = "ack" THEN Enter(c, Answered(client[c].at))
                  ELSE [buf EXCEPT !.at = a, !.head = Unset]
        /\ then.at \in {Answered(client[c].at), SendAgain(client[c].at)}
  <2>1. client' = [client EXCEPT ![c] =
                IF t = "ack" THEN Enter(c, Answered(client[c].at))
                ELSE [buf EXCEPT !.at = a, !.head = Unset]]
    BY <1>2, <1>5, <1>6
  <2>2. /\ [buf EXCEPT !.at = a, !.head = Unset] \in ClientState
        /\ [buf EXCEPT !.at = a, !.head = Unset].at = a
    BY AgainClient
  <2> QED
    BY <1>6, <1>7, <2>1, <2>2
<1>9. UNCHANGED <<server, toServer, ends, backlog, heard>>
  BY DEF CtrlMsgAnswer
<1>10. /\ ClientStep(c) /\ ReadOff(c, n) /\ client'[c] = then
       /\ "slow" \in happened' => "slow" \in happened
  BY <1>1, <1>8, <1>9, ReadDoes
<1> QED
  BY <1>3, <1>5, <1>6, <1>8, <1>10

LEMMA CtrlMsgErrorDoes ==
    ASSUME TypeOK, NEW c \in Client, CtrlMsgError(c)
    PROVE  /\ client[c].at \in {"wait_download", "wait_upload"}
           /\ ClientStep(c) /\ Quiet(c) /\ Failed(c)
           /\ client'[c] \in ClientState
           /\ \/ /\ client'[c].at = SendAgain(client[c].at)
                 /\ client'[c].cum = client[c].cum
              \/ /\ client'[c].at = Refused(client[c].at) /\ client'[c].cum = 0
           /\ client'[c].result = client[c].result /\ client'[c].got = client[c].got
<1>1. /\ Refused(client[c].at) \in ClientPlace
      /\ SendAgain(client[c].at) \in ClientPlace
      /\ client[c].at \in {"wait_download", "wait_upload"}
  BY DEF CtrlMsgError, Refused, SendAgain, Request, ClientPlace
<1>2. client[c] \in ClientState
  BY TypedParts
<1>3. CASE client[c].retries > 1
  <2> DEFINE then == [client[c] EXCEPT !.at = SendAgain(client[c].at),
                                       !.retries = client[c].retries - 1]
  <2>1. /\ then \in ClientState
        /\ then.at = SendAgain(client[c].at) /\ then.cum = client[c].cum
        /\ then.result = client[c].result /\ then.got = client[c].got
    BY <1>1, <1>2, <1>3, RetriedClient
  <2>2. client' = [client EXCEPT ![c] = then]
    BY <1>3 DEF CtrlMsgError
  <2> HIDE DEF then
  <2>3. ClientStep(c) /\ Quiet(c) /\ Failed(c) /\ client'[c] = then
    BY <2>1, <2>2, ErrorDoes DEF CtrlMsgError
  <2> QED
    BY <1>1, <2>1, <2>3
<1>4. CASE ~(client[c].retries > 1)
  <2>1. PICK then \in ClientState :
            /\ then = Enter(c, Refused(client[c].at))
            /\ then.at = Refused(client[c].at) /\ then.cum = 0
            /\ then.result = client[c].result /\ then.got = client[c].got
    BY <1>1, EnteredClient
  <2>2. client' = [client EXCEPT ![c] = then]
    BY <1>4, <2>1 DEF CtrlMsgError
  <2> QED
    BY <1>1, <2>1, <2>2, ErrorDoes DEF CtrlMsgError
<1> QED
  BY <1>3, <1>4

LEMMA ExitOnCloseDoes ==
    ASSUME TypeOK, NEW c \in Client, ExitOnClose(c)
    PROVE  ClientStep(c) /\ Ended(c) /\ client'[c].at = "exited" /\ UNCHANGED happened
<1>1. UNCHANGED <<server, backlog, heard, troubles, happened>> /\ Exits(c)
  BY DEF ExitOnClose, ClientEof, Calm
<1> QED
  BY <1>1, ExitsEnds DEF TypeOK

LEMMA QuitDoes ==
    ASSUME TypeOK, NEW c \in Client, Quit(c)
    PROVE  /\ ClientStep(c) /\ Ended(c) /\ client'[c].at = "exited"
           /\ client[c].at # "idle"
<1>1. UNCHANGED <<server, backlog, heard>> /\ Exits(c) /\ client[c].at # "idle"
  BY DEF Quit
<1>2. /\ troubles' \in 0..MaxTroubles /\ happened' \subseteq Env
      /\ happened \subseteq happened'
  BY TroubleTyped DEF Quit
<1> QED
  BY <1>1, <1>2, ExitsEnds

LEMMA ClientRxDoes ==
    ASSUME TypeOK, NEW c \in Client, ClientRx(c)
    PROVE  /\ client[c].at = "rx" /\ ClientStep(c)
           /\ "slow" \in happened' => "slow" \in happened
           /\ \E n \in 1..2 :
                /\ ReadOff(c, n)
                /\ \E t \in Types(client[c], n, toClient[c]) :
                    /\ t = "end" =>
                        client'[c] = Downloaded(c, "end", client[c].count + n)
                    /\ t # "end" =>
                        /\ client'[c].at = "rx"
                        /\ client'[c].count = client[c].count + n
                        /\ client'[c].cum = IF client[c].cum + n < 2 THEN 1 ELSE 0
                        /\ client'[c].result = client[c].result
                        /\ client'[c].got = client[c].got
<1>0. PICK n \in 1..2 :
        /\ Reads(n, toClient[c], client[c].cum)
        /\ toClient' = [toClient EXCEPT ![c] = After(n, @)]
        /\ \E t \in Types(client[c], n, toClient[c]) :
            client' = [client EXCEPT ![c] =
                IF t = "end" THEN Downloaded(c, "end", client[c].count + n)
                ELSE [Filled(client[c], n, toClient[c]) EXCEPT
                            !.count = client[c].count + n]]
  BY DEF ClientRx
<1>1. PICK t \in Types(client[c], n, toClient[c]) :
            client' = [client EXCEPT ![c] =
                IF t = "end" THEN Downloaded(c, "end", client[c].count + n)
                ELSE [Filled(client[c], n, toClient[c]) EXCEPT
                            !.count = client[c].count + n]]
  BY <1>0
<1>2. UNCHANGED <<server, toServer, ends, backlog, heard>> /\ client[c].at = "rx"
  BY DEF ClientRx
<1>3. n \in Nat /\ toClient[c] \in Seq(Part) /\ toClient[c] # <<>>
      /\ client[c] \in ClientState /\ client[c].count + n \in Nat
  BY <1>0, ReadsSome, TypedParts
<1> DEFINE over == Downloaded(c, "end", client[c].count + n)
           filled == Filled(client[c], n, toClient[c])
           more == [filled EXCEPT !.count = client[c].count + n]
           then == IF t = "end" THEN over ELSE more
<1>4. over \in ClientState
  BY <1>3, DownloadedClient
<1>5. /\ filled \in ClientState /\ filled.at = client[c].at
      /\ filled.result = client[c].result /\ filled.got = client[c].got
      /\ filled.cum = IF client[c].cum + n < 2 THEN 1 ELSE 0
  BY <1>3, FilledClient
<1> HIDE DEF filled
<1>6. /\ more \in ClientState /\ more.at = filled.at /\ more.cum = filled.cum
      /\ more.result = filled.result /\ more.got = filled.got
      /\ more.count = client[c].count + n
  BY <1>3, <1>5, CountedClient
<1>7. client' = [client EXCEPT ![c] = then]
  BY <1>1 DEF filled
<1> HIDE DEF over, more
<1>8. then \in ClientState
  BY <1>4, <1>6
<1>9. (t = "end" => then = over) /\ (t # "end" => then = more)
  OBVIOUS
<1> HIDE DEF then
<1>10. /\ ClientStep(c) /\ ReadOff(c, n) /\ client'[c] = then
       /\ "slow" \in happened' => "slow" \in happened
  BY <1>0, <1>2, <1>7, <1>8, ReadDoes
<1>11. t = "end" => client'[c] = Downloaded(c, "end", client[c].count + n)
  BY <1>9, <1>10 DEF over
<1> QED
  BY <1>2, <1>5, <1>6, <1>9, <1>10, <1>11

LEMMA ClientRxCutDoes ==
    ASSUME TypeOK, NEW c \in Client, ClientRxCut(c)
    PROVE  /\ client[c].at = "rx" /\ ClientStep(c) /\ toClient[c] = <<>>
           /\ client'[c] = Downloaded(c, "cut", client[c].count)
           /\ toServer'[c] = toServer[c] /\ toClient'[c] = <<>>
           /\ \/ Failed(c) /\ ends'[c] = ends[c]
              \/ "server" \notin ends[c]
<1> DEFINE then == Downloaded(c, "cut", client[c].count)
<1>1. then \in ClientState
  BY TypedParts, DownloadedClient
<1>2. client' = [client EXCEPT ![c] = then] /\ client[c].at = "rx"
  BY DEF ClientRxCut
<1> HIDE DEF then
<1>3. CASE ClientError(c) /\ UNCHANGED ends
  <2>1. ClientStep(c) /\ Quiet(c) /\ Failed(c) /\ client'[c] = then
    BY <1>1, <1>2, <1>3, ErrorDoes DEF ClientRxCut, wires
  <2> QED
    BY <1>2, <2>1 DEF Quiet, Failed, then
<1>4. CASE ClientEof(c) /\ ends' = [ends EXCEPT ![c] = {}]
  <2>1. client'[c] = then /\ ends'[c] = {} /\ "server" \notin ends[c]
    BY <1>2, <1>4 DEF TypeOK, ClientEof
  <2>2. UNCHANGED <<server, toServer, toClient, backlog, heard, troubles, happened>>
        /\ toClient[c] = <<>>
    BY <1>4 DEF ClientRxCut, ClientEof, Calm
  <2>3. troubles \in 0..MaxTroubles /\ happened \subseteq Env
    BY DEF TypeOK
  <2>4. ClientStep(c)
    BY <1>1, <1>2, <1>4, <2>1, <2>2, <2>3, TypedParts DEF ClientStep, TypeOK
  <2> QED
    BY <1>2, <2>1, <2>2, <2>4 DEF then
<1> QED
  BY <1>3, <1>4 DEF ClientRxCut

LEMMA ClientTxDoes ==
    ASSUME TypeOK, NEW c \in Client, ClientTx(c)
    PROVE  /\ client[c].at = "tx" /\ ClientStep(c) /\ UNCHANGED happened
           /\ \/ /\ \/ client'[c].at = "tx" /\ SentTo(c, "data")
                    \/ client'[c].at = "stats" /\ SentTo(c, "end")
                 /\ client'[c].cum = 0 \/ client'[c].cum = client[c].cum
                 /\ client'[c].result = client[c].result
                 /\ client'[c].got = client[c].got
              \/ Ended(c) /\ client'[c].at = "exited"
<1> DEFINE sent == client[c].count + 1
           packet == IF sent = MaxPkts THEN "end" ELSE "data"
           last == Enter(c, "stats")
           more == [client[c] EXCEPT !.count = sent]
           then == IF sent = MaxPkts THEN last ELSE more
<1>1. client[c].at = "tx" /\ packet \in Packet
  BY DEF ClientTx, Packet
<1>2. ClientSend(c, packet, then) /\ UNCHANGED <<server, backlog, history>>
  BY DEF ClientTx
<1>3. "stats" \in ClientPlace /\ client[c] \in ClientState /\ sent \in Nat
  BY TypedParts DEF ClientPlace
<1>4. /\ last \in ClientState /\ last.at = "stats" /\ last.cum = 0
      /\ last.result = client[c].result /\ last.got = client[c].got
  BY <1>3, EnteredClient
<1> HIDE DEF sent, last
<1>5. /\ more \in ClientState /\ more.at = "tx" /\ more.cum = client[c].cum
      /\ more.result = client[c].result /\ more.got = client[c].got
  BY <1>1, <1>3, CountedClient
<1> HIDE DEF more
<1>6. then \in ClientState /\ packet \in Packet
  BY <1>1, <1>4, <1>5
<1>7. \/ then = last /\ packet = "end"
      \/ then = more /\ packet = "data"
  OBVIOUS
<1> HIDE DEF then, packet
<1>8. /\ ClientStep(c) /\ UNCHANGED happened
      /\ \/ SentTo(c, packet) /\ client'[c] = then
         \/ Ended(c) /\ client'[c].at = "exited"
  BY <1>2, <1>6, SendDoes
<1> QED
  BY <1>1, <1>4, <1>5, <1>7, <1>8

LEMMA ReceiveSummaryStatsDoes ==
    ASSUME TypeOK, NEW c \in Client, ReceiveSummaryStats(c)
    PROVE  /\ client[c].at = "stats" /\ ClientStep(c)
           /\ client'[c].at \in {"stats", "done"}
           /\ toServer'[c] = toServer[c] /\ ends'[c] = ends[c]
           /\ client'[c].result = client[c].result /\ client'[c].got = client[c].got
           /\ \/ Quiet(c) /\ (client'[c].cum = client[c].cum \/ client'[c].cum = 0)
              \/ \E n \in 1..2 :
                    ReadOff(c, n) /\ (client[c].cum + n = 2 => client'[c].cum = 0)
<1> DEFINE done == Enter(c, "done")
           half == [client[c] EXCEPT !.cum = 1]
           less == [client[c] EXCEPT !.retries = client[c].retries - 1]
<1>1. client[c].at = "stats" /\ client[c] \in ClientState
  BY TypedParts DEF ReceiveSummaryStats
<1>2. /\ done \in ClientState /\ done.at = "done" /\ done.cum = 0
      /\ done.result = client[c].result /\ done.got = client[c].got
  BY EnteredClient DEF ClientPlace
<1>3. /\ half \in ClientState /\ half.at = "stats" /\ half.cum = 1
      /\ half.result = client[c].result /\ half.got = client[c].got
  BY <1>1, HalfClient
<1>4. client[c].retries > 1 =>
        /\ less \in ClientState /\ less.at = "stats" /\ less.cum = client[c].cum
        /\ less.result = client[c].result /\ less.got = client[c].got
  BY <1>1, WaitedClient
<1>5. ASSUME NEW n \in 1..2, Reads(n, toClient[c], client[c].cum),
             toClient' = [toClient EXCEPT ![c] = After(n, @)],
             client' = [client EXCEPT ![c] =
                    IF client[c].cum + n = 2 THEN done ELSE half]
      PROVE  /\ ClientStep(c) /\ ReadOff(c, n)
             /\ client'[c] = IF client[c].cum + n = 2 THEN done ELSE half
  <2> DEFINE then == IF client[c].cum + n = 2 THEN done ELSE half
  <2>1. client' = [client EXCEPT ![c] = then]
    BY <1>5
  <2>2. UNCHANGED <<server, toServer, ends, backlog, heard>>
    BY DEF ReceiveSummaryStats
  <2> HIDE DEF done, half
  <2>3. then \in ClientState
    BY <1>2, <1>3
  <2> HIDE DEF then
  <2>4. ClientStep(c) /\ ReadOff(c, n) /\ client'[c] = then
    BY <1>5, <2>1, <2>2, <2>3, ReadDoes
  <2> QED
    BY <2>4 DEF then
<1>6. ASSUME ClientError(c), UNCHANGED toClient,
             NEW then \in ClientState, client' = [client EXCEPT ![c] = then]
      PROVE  ClientStep(c) /\ Quiet(c) /\ client'[c] = then
  BY <1>6, ErrorDoes DEF ReceiveSummaryStats, wires
<1>7. \/ \E n \in 1..2 :
            /\ Reads(n, toClient[c], client[c].cum)
            /\ toClient' = [toClient EXCEPT ![c] = After(n, @)]
            /\ client' = [client EXCEPT ![c] =
                    IF client[c].cum + n = 2 THEN done ELSE half]
      \/ /\ ClientError(c) /\ UNCHANGED toClient
         /\ \/ client' = [client EXCEPT ![c] = done]
            \/ client' = [client EXCEPT ![c] =
                    IF client[c].retries > 1 THEN less ELSE done]
  BY DEF ReceiveSummaryStats
<1>8. toServer' = toServer /\ ends' = ends
  BY DEF ReceiveSummaryStats
<1> HIDE DEF done, half, less
<1>9. CASE \E n \in 1..2 :
            /\ Reads(n, toClient[c], client[c].cum)
            /\ toClient' = [toClient EXCEPT ![c] = After(n, @)]
            /\ client' = [client EXCEPT ![c] =
                    IF client[c].cum + n = 2 THEN done ELSE half]
  BY <1>1, <1>2, <1>3, <1>5, <1>8, <1>9
<1>10. CASE ClientError(c) /\ UNCHANGED toClient /\ client' = [client EXCEPT ![c] = done]
  BY <1>1, <1>2, <1>6, <1>8, <1>10
<1>11. CASE /\ ClientError(c) /\ UNCHANGED toClient /\ client[c].retries > 1
            /\ client' = [client EXCEPT ![c] = less]
  BY <1>1, <1>4, <1>6, <1>8, <1>11
<1> QED
  BY <1>7, <1>9, <1>10, <1>11

-----------------------------------------------------------------------------
(* Type correctness, and whose connection the server has.                  *)

DL == {"send_download", "wait_download", "rx"}

LEMMA ClientStepTyped ==
    ASSUME TypeOK, NEW c \in Client, ClientStep(c)
    PROVE  TypeOK'
<1>1. client' \in [Client -> ClientState]
  BY DEF ClientStep, TypeOK
<1>2. /\ toServer' \in [Client -> Seq(Part)] /\ toClient' \in [Client -> Seq(Part)]
      /\ ends' \in [Client -> SUBSET {"client", "server"}]
  BY DEF ClientStep, TypeOK
<1>3. \A d \in Client : Len(toServer'[d]) <= 2 * Capacity
  BY DEF ClientStep, TypeOK
<1>4. \A d \in Client : Len(toClient'[d]) <= 2 * Capacity
  <2>1. \A d \in Client : d # c => toClient'[d] = toClient[d]
    BY DEF ClientStep, TypeOK
  <2>2. Len(toClient'[c]) \in Nat /\ Len(toClient[c]) \in Nat /\ 2 * Capacity \in Nat
    BY TypedParts, Sizes DEF ClientStep
  <2>3. Len(toClient'[c]) <= 2 * Capacity
    BY <2>2 DEF ClientStep, TypeOK
  <2> QED
    BY <2>1, <2>3 DEF TypeOK
<1> QED
  BY <1>1, <1>2, <1>3, <1>4 DEF ClientStep, TypeOK

\* A step of c leaves the others' connections as they are.
LEMMA OthersStay ==
    ASSUME TypeOK, NEW c \in Client, ClientStep(c), NEW d \in Client, d # c
    PROVE  /\ client'[d] = client[d] /\ ends'[d] = ends[d]
           /\ toServer'[d] = toServer[d] /\ toClient'[d] = toClient[d]
BY DEF ClientStep, TypeOK

LEMMA ClientStepConnected ==
    ASSUME TypeOK, ConnectionInv, NEW c \in Client, ClientStep(c),
           client'[c].at # "idle",
           ends'[c] = {"server"} => client'[c].at = "exited",
           client'[c].at \in DL => "client" \in ends'[c]
    PROVE  ConnectionInv'
<1>1. server' = server /\ backlog' = backlog
  BY DEF ClientStep
<1>2. server.at = "dead" => \A d \in Client : "server" \notin ends'[d]
  BY OthersStay DEF ClientStep, ConnectionInv
<1>3. \A i \in DOMAIN backlog : client'[backlog[i]].at # "idle"
  <2>1. \A i \in DOMAIN backlog : backlog[i] \in Client
    BY DEF TypeOK
  <2> QED
    BY <2>1, OthersStay DEF ConnectionInv
<1>4. \A d \in Client :
        /\ client'[d].at = "idle" =>
                /\ server.conn # d /\ ends'[d] = {}
                /\ toServer'[d] = <<>> /\ toClient'[d] = <<>>
        /\ ends'[d] = {"server"} => client'[d].at = "exited"
        /\ client'[d].at \in DL => "client" \in ends'[d]
  BY OthersStay DEF ConnectionInv, DL
<1> QED
  BY <1>1, <1>2, <1>3, <1>4 DEF ConnectionInv, DL

\* A client's steps never return it to where it was before the probe.
LEMMA ClientNextStep ==
    ASSUME TypeOK, ConnectionInv, NEW c \in Client, ClientNext(c) \/ Quit(c)
    PROVE  ClientStep(c) /\ TypeOK' /\ ConnectionInv'
<1> DEFINE Good == /\ ClientStep(c) /\ client'[c].at # "idle"
                   /\ ends'[c] = {"server"} => client'[c].at = "exited"
                   /\ client'[c].at \in DL => "client" \in ends'[c]
<1> SUFFICES Good
  BY ClientStepTyped, ClientStepConnected
<1> USE DEF DL
<1>0. /\ ends[c] = {"server"} => client[c].at = "exited"
      /\ client[c].at \in DL => "client" \in ends[c]
      /\ ends[c] \subseteq {"client", "server"} /\ client[c] \in ClientState
  BY TypedParts DEF ConnectionInv
<1>1. ASSUME ClientStep(c), Ended(c), client'[c].at = "exited" PROVE Good
  BY <1>1 DEF Ended
<1>2. CASE SendCtrlMsg(c)
  <2>1. CASE Ended(c) /\ client'[c].at = "exited"
    BY <1>1, <1>2, <2>1, SendCtrlMsgDoes
  <2>2. CASE /\ client'[c] = [client[c] EXCEPT !.at = WaitFor(client[c].at)]
             /\ SentTo(c, Request(client[c].at))
    <3>1. PICK a \in ClientPlace : a = WaitFor(client[c].at)
      BY DEF WaitFor, Request, ClientPlace
    <3>2. client'[c].at = a
      BY <1>0, <2>2, <3>1, PlacedClient
    <3> QED
      BY <1>0, <1>2, <2>2, <3>1, <3>2, SendCtrlMsgDoes DEF SentTo, SendCtrlMsg, WaitFor, Request
  <2> QED
    BY <1>2, <2>1, <2>2, SendCtrlMsgDoes
<1>3. CASE CtrlMsgAnswer(c)
  BY <1>0, <1>3, CtrlMsgAnswerDoes DEF ReadOff, Answered, SendAgain, Request
<1>4. CASE CtrlMsgError(c)
  BY <1>0, <1>4, CtrlMsgErrorDoes DEF Quiet, Refused, SendAgain, Request
<1>5. CASE ExitOnClose(c)
  BY <1>1, <1>5, ExitOnCloseDoes
<1>6. CASE ClientRx(c)
  <2>1. ClientStep(c) /\ ends'[c] = ends[c] /\ client[c].at = "rx"
    BY <1>6, ClientRxDoes DEF ReadOff
  <2>2. client'[c].at \in {"rx", "send_upload"}
    <3>1. PICK n \in 1..2 : \E t \in Types(client[c], n, toClient[c]) :
            /\ t = "end" => client'[c] = Downloaded(c, "end", client[c].count + n)
            /\ t # "end" => client'[c].at = "rx"
      BY <1>6, ClientRxDoes
    <3>2. client[c].count + n \in Nat
      BY TypedParts
    <3>3. Downloaded(c, "end", client[c].count + n).at = "send_upload"
      BY <3>2, DownloadedClient
    <3> QED
      BY <3>1, <3>3
  <2> QED
    BY <1>0, <2>1, <2>2
<1>7. CASE ClientRxCut(c)
  <2>1. /\ client[c].at = "rx" /\ ClientStep(c)
        /\ client'[c] = Downloaded(c, "cut", client[c].count)
    BY <1>7, ClientRxCutDoes
  <2>2. client'[c].at = "send_upload"
    BY <2>1, DownloadedClient, TypedParts
  <2>3. ends'[c] = ends[c] \/ "server" \notin ends[c]
    BY <1>7, ClientRxCutDoes
  <2> QED
    BY <1>0, <2>1, <2>2, <2>3 DEF ClientStep
<1>8. CASE ClientTx(c)
  BY <1>0, <1>1, <1>8, ClientTxDoes DEF SentTo
<1>9. CASE ReceiveSummaryStats(c)
  BY <1>0, <1>9, ReceiveSummaryStatsDoes
<1>10. CASE Quit(c)
  BY <1>1, <1>10, QuitDoes
<1> QED
  BY <1>2, <1>3, <1>4, <1>5, <1>6, <1>7, <1>8, <1>9, <1>10 DEF ClientNext

\* The connect call.
LEMMA ConnectStep ==
    ASSUME TypeOK, ConnectionInv, NEW c \in Client, Connect(c)
    PROVE  TypeOK' /\ ConnectionInv'
<1>1. "done" \in ClientPlace /\ "send_download" \in ClientPlace
  BY DEF ClientPlace
<1>2. UNCHANGED <<server, toServer, toClient, heard, troubles, happened>>
      /\ client[c].at = "idle" /\ client[c] \in ClientState
  BY TypedParts DEF Connect, history
<1>3. CASE server.at = "dead"
  <2> DEFINE then == [client[c] EXCEPT !.at = "done"]
  <2>1. then \in ClientState /\ then.at = "done"
    BY <1>1, <1>2, PlacedClient
  <2>2. client' = [client EXCEPT ![c] = then] /\ UNCHANGED <<ends, backlog>>
    BY <1>3 DEF Connect
  <2> HIDE DEF then
  <2>3. /\ \A d \in Client : d # c => client'[d] = client[d]
        /\ client'[c] = then /\ client' \in [Client -> ClientState]
    BY <2>1, <2>2 DEF TypeOK
  <2>4. TypeOK'
    BY <1>2, <2>2, <2>3 DEF TypeOK
  <2>5. \A i \in DOMAIN backlog : client'[backlog[i]].at # "idle"
    <3>1. \A i \in DOMAIN backlog : backlog[i] \in Client
      BY DEF TypeOK
    <3> QED
      BY <2>1, <2>3, <3>1 DEF ConnectionInv
  <2>6. ConnectionInv'
    BY <1>2, <2>1, <2>2, <2>3, <2>5 DEF ConnectionInv
  <2> QED
    BY <2>4, <2>6
<1>4. CASE server.at # "dead"
  <2> DEFINE then == Enter(c, "send_download")
  <2>1. then \in ClientState /\ then.at = "send_download"
    BY <1>1, EnteredClient
  <2>2. /\ client' = [client EXCEPT ![c] = then]
        /\ ends' = [ends EXCEPT ![c] = {"client", "server"}]
        /\ backlog' = Append(backlog, c)
    BY <1>4 DEF Connect
  <2> HIDE DEF then
  <2>3. /\ \A d \in Client : d # c => client'[d] = client[d] /\ ends'[d] = ends[d]
        /\ client'[c] = then /\ client' \in [Client -> ClientState]
        /\ ends'[c] = {"client", "server"}
        /\ ends' \in [Client -> SUBSET {"client", "server"}]
    BY <2>1, <2>2 DEF TypeOK
  <2>4. TypeOK'
    BY <1>2, <2>2, <2>3 DEF TypeOK
  <2>5. \A i \in DOMAIN backlog' : client'[backlog'[i]].at # "idle"
    <3>0. \A i \in DOMAIN backlog : backlog[i] \in Client
      BY DEF TypeOK
    <3>1. \A i \in DOMAIN backlog : client'[backlog[i]].at # "idle"
      BY <2>1, <2>3, <3>0 DEF ConnectionInv
    <3>2. ASSUME NEW i \in DOMAIN backlog' PROVE i \in DOMAIN backlog \/ backlog'[i] = c
      BY <2>2 DEF TypeOK
    <3>3. \A i \in DOMAIN backlog : backlog'[i] = backlog[i]
      BY <2>2 DEF TypeOK
    <3> QED
      BY <2>1, <2>3, <3>1, <3>2, <3>3
  <2>6. ConnectionInv'
    BY <1>2, <1>4, <2>1, <2>3, <2>5 DEF ConnectionInv
  <2> QED
    BY <2>4, <2>6
<1> QED
  BY <1>3, <1>4

-----------------------------------------------------------------------------
(* What s_run does to what it holds.                                       *)

LEMMA PlacedServer ==
    ASSUME NEW buf \in ServerState, NEW a \in ServerPlace
    PROVE  LET r == [buf EXCEPT !.at = a]
           IN  /\ r \in ServerState
               /\ r.at = a /\ r.conn = buf.conn /\ r.cum = buf.cum
               /\ r.s = buf.s /\ r.count = buf.count
<1>1. [buf EXCEPT !.at = a] \in ServerState
  BY Zenon DEF ServerState
<1> QED
  BY <1>1 DEF ServerState

\* It goes on to another call.
LEMMA ServerAtTyped ==
    ASSUME server \in ServerState, NEW a \in ServerPlace
    PROVE  /\ ServerAt(a) \in ServerState
           /\ ServerAt(a).at = a /\ ServerAt(a).conn = server.conn
           /\ ServerAt(a).cum = server.cum /\ ServerAt(a).s = server.s
           /\ ServerAt(a).count = 0
<1>1. 0 \in Nat
  OBVIOUS
<1>2. ServerAt(a) \in ServerState
  BY <1>1, Zenon DEF ServerAt, ServerState
<1> QED
  BY <1>2 DEF ServerAt, ServerState

\* A test begins with a buffer of its own, or ends.
LEMMA EmptiedAtTyped ==
    ASSUME server \in ServerState, NEW a \in ServerPlace
    PROVE  LET r == [ServerAt(a) EXCEPT !.cum = 0, !.head = Unset]
           IN  /\ r \in ServerState
               /\ r.at = a /\ r.conn = server.conn /\ r.cum = 0
               /\ r.s = server.s /\ r.count = 0
<1>1. PICK b \in ServerState :
        /\ b = ServerAt(a) /\ b.at = a /\ b.conn = server.conn /\ b.s = server.s
        /\ b.count = 0
  BY ServerAtTyped
<1>2. PICK u \in Part : u = Unset
  BY DEF Unset, Part
<1>3. [b EXCEPT !.cum = 0, !.head = u] \in ServerState
  BY EmptiedServer
<1>4. LET r == [b EXCEPT !.cum = 0, !.head = u]
      IN  r.at = b.at /\ r.conn = b.conn /\ r.cum = 0 /\ r.s = b.s /\ r.count = b.count
  BY DEF ServerState
<1> QED
  BY <1>1, <1>2, <1>3, <1>4

LEMMA MeasuredTyped ==
    ASSUME server \in ServerState
    PROVE  /\ Measured \in ServerState
           /\ Measured.at = "stats" /\ Measured.conn = server.conn /\ Measured.cum = 0
           /\ Measured.s = "live" /\ Measured.count = 0
<1>1. "stats" \in ServerPlace /\ "live" \in {"null", "live", "freed", "misused"}
      /\ 0 \in 0..1 /\ Unset \in Part
  BY DEF ServerPlace, Unset, Part
<1>2. PICK b \in ServerState :
        /\ b = ServerAt("stats") /\ b.at = "stats" /\ b.conn = server.conn /\ b.count = 0
  BY <1>1, ServerAtTyped
<1>3. Measured = [b EXCEPT !.s = "live", !.cum = 0, !.head = Unset]
  BY <1>2 DEF Measured
<1>4. [b EXCEPT !.s = "live", !.cum = 0, !.head = Unset] \in ServerState
  BY <1>1, Zenon DEF ServerState
<1>5. LET r == [b EXCEPT !.s = "live", !.cum = 0, !.head = Unset]
      IN  r.at = b.at /\ r.conn = b.conn /\ r.cum = 0 /\ r.s = "live" /\ r.count = b.count
  BY DEF ServerState
<1> QED
  BY <1>2, <1>3, <1>4, <1>5

LEMMA CountedServer ==
    ASSUME NEW buf \in ServerState, NEW k \in Nat
    PROVE  LET r == [buf EXCEPT !.count = k]
           IN  /\ r \in ServerState
               /\ r.at = buf.at /\ r.conn = buf.conn /\ r.cum = buf.cum
               /\ r.s = buf.s /\ r.count = k
<1>1. [buf EXCEPT !.count = k] \in ServerState
  BY Zenon DEF ServerState
<1> QED
  BY <1>1 DEF ServerState

\* It has no connection any more.
LEMMA LeftServer ==
    ASSUME NEW buf \in ServerState, NEW a \in ServerPlace
    PROVE  LET r == [buf EXCEPT !.at = a, !.conn = None]
           IN  /\ r \in ServerState
               /\ r.at = a /\ r.conn = None /\ r.cum = buf.cum
               /\ r.s = buf.s /\ r.count = buf.count
<1>1. None \in Client \union {None}
  OBVIOUS
<1>2. [buf EXCEPT !.at = a, !.conn = None] \in ServerState
  BY <1>1, Zenon DEF ServerState
<1> QED
  BY <1>2 DEF ServerState

\* The text of an upload is freed.
LEMMA FreedServer ==
    ASSUME server \in ServerState
    PROVE  LET r == [ServerAt("command") EXCEPT !.s = IF @ = "live" THEN "freed" ELSE "misused"]
           IN  /\ r \in ServerState
               /\ r.at = "command" /\ r.conn = server.conn /\ r.cum = server.cum
               /\ r.s = IF server.s = "live" THEN "freed" ELSE "misused"
               /\ r.count = 0
<1>1. PICK b \in ServerState :
        /\ b = ServerAt("command") /\ b.at = "command" /\ b.conn = server.conn
        /\ b.cum = server.cum /\ b.s = server.s /\ b.count = 0
  BY ServerAtTyped DEF ServerPlace
<1>2. PICK x \in {"null", "live", "freed", "misused"} :
        x = IF b.s = "live" THEN "freed" ELSE "misused"
  OBVIOUS
<1>3. [b EXCEPT !.s = x] \in ServerState
  BY Zenon DEF ServerState
<1>4. LET r == [b EXCEPT !.s = x]
      IN  r.at = b.at /\ r.conn = b.conn /\ r.cum = b.cum /\ r.s = x /\ r.count = b.count
  BY DEF ServerState
<1>5. [ServerAt("command") EXCEPT !.s = IF @ = "live" THEN "freed" ELSE "misused"]
        = [b EXCEPT !.s = x]
  BY <1>1, <1>2
<1> QED
  BY <1>1, <1>2, <1>3, <1>4, <1>5

-----------------------------------------------------------------------------
(* What a step of the server does to the connection k, and leaves alone.   *)

ServerStep(k) ==
    /\ client' = client /\ server' \in ServerState
    /\ toServer' = [toServer EXCEPT ![k] = toServer'[k]]
    /\ toServer'[k] \in Seq(Part) /\ Len(toServer'[k]) <= Len(toServer[k])
    /\ toClient' = [toClient EXCEPT ![k] = toClient'[k]]
    /\ toClient'[k] \in Seq(Part) /\ Len(toClient'[k]) <= 2 * Capacity
    /\ ends' = [ends EXCEPT ![k] = ends'[k]]
    /\ ends'[k] = ends[k] \/ ends'[k] = ends[k] \ {"server"}
    /\ heard' = [heard EXCEPT ![k] = heard'[k]]
    /\ heard[k] \subseteq heard'[k] /\ heard'[k] \subseteq {"upload", "download"}
    /\ backlog' = backlog
    /\ troubles' \in 0..MaxTroubles /\ happened' \subseteq Env /\ happened \subseteq happened'

\* k was sent a packet, or would have been, had the connection been open.
GivenTo(k, packet) ==
    /\ toServer'[k] = toServer[k] /\ ends'[k] = ends[k] /\ heard'[k] = heard[k]
    /\ IF ends[k] = {"client", "server"}
       THEN toClient'[k] = With(toClient[k], packet)
       ELSE toClient'[k] = toClient[k]

\* n parts from k were read.
TakenFrom(k, n) ==
    /\ toClient'[k] = toClient[k] /\ ends'[k] = ends[k]
    /\ n \in 1..2 /\ n <= Len(toServer[k]) /\ server.cum + n <= 2
    /\ toServer'[k] = After(n, toServer[k])
    /\ "split" \notin happened' /\ server.cum = 0 /\ Len(toServer[k]) >= 2 => n = 2

\* The server's end of k's connection is closed.
ClosedTo(k) ==
    /\ toServer'[k] = <<>> /\ toClient'[k] = toClient[k]
    /\ ends'[k] = ends[k] \ {"server"} /\ heard'[k] = heard[k]

Still(k) ==
    /\ toServer'[k] = toServer[k] /\ toClient'[k] = toClient[k] /\ ends'[k] = ends[k]
    /\ heard'[k] = heard[k]

\* The server has a connection wherever it waits for a client.
LEMMA Served ==
    ASSUME TypeOK, ConnectionInv, server.at \notin {"accept", "dead"}
    PROVE  /\ server \in ServerState /\ server.conn \in Client /\ server.cum \in 0..1
           /\ server.head \in Part /\ server.count \in Nat
           /\ client[server.conn].at # "idle"
<1>1. server.conn # None /\ server \in ServerState
  BY DEF TypeOK, ConnectionInv
<1> QED
  BY <1>1 DEF ServerState, ConnectionInv

\* The server sends.
LEMMA ServerSendDoes ==
    ASSUME TypeOK, NEW k \in Client, server.conn = k, NEW packet \in Packet,
           NEW then \in ServerState, ServerSend(packet, then), UNCHANGED <<client, history>>
    PROVE  \/ ServerStep(k) /\ GivenTo(k, packet) /\ server' = then
           \/ ends[k] = {"server"} /\ ServerDies
<1>1. /\ troubles' \in 0..MaxTroubles /\ happened' \subseteq Env /\ happened' = happened
      /\ heard' = heard /\ client' = client
      /\ heard[k] \subseteq {"upload", "download"} /\ heard = [heard EXCEPT ![k] = heard[k]]
  BY DEF history, TypeOK
<1>2. CASE /\ ends[k] = {"client", "server"} /\ Room(toClient[k])
           /\ toClient' = [toClient EXCEPT ![k] = With(@, packet)]
           /\ server' = then
           /\ UNCHANGED <<toServer, ends, backlog>>
  <2>1. toClient'[k] = With(toClient[k], packet)
    BY <1>2 DEF TypeOK
  <2>2. toClient'[k] \in Seq(Part) /\ Len(toClient'[k]) <= 2 * Capacity
    BY <1>2, <2>1, WithPacket, RoomLeft, TypedParts
  <2> QED
    BY <1>1, <1>2, <2>1, <2>2, TypedParts DEF ServerStep, GivenTo, TypeOK
<1>3. CASE ends[k] # {"client", "server"} /\ server' = then /\ UNCHANGED <<wires, backlog>>
  BY <1>1, <1>3, TypedParts DEF ServerStep, GivenTo, TypeOK, wires
<1> QED
  BY <1>2, <1>3 DEF ServerSend, conn

\* The server reads.
LEMMA ServerReads ==
    ASSUME TypeOK, NEW k \in Client, server.conn = k, NEW n \in 1..2,
           Reads(n, toServer[k], server.cum), server.cum \in 0..1,
           toServer' = [toServer EXCEPT ![k] = After(n, @)],
           server' \in ServerState, UNCHANGED <<client, toClient, ends, backlog>>,
           heard' = [heard EXCEPT ![k] = heard'[k]],
           heard[k] \subseteq heard'[k], heard'[k] \subseteq {"upload", "download"}
    PROVE  /\ ServerStep(k) /\ TakenFrom(k, n)
           /\ "slow" \in happened' => "slow" \in happened
<1>1. toServer[k] \in Seq(Part) /\ n \in Nat /\ Len(toServer[k]) \in Nat
  BY TypedParts
<1>2. /\ n <= Len(toServer[k]) /\ server.cum + n <= 2
      /\ troubles' \in 0..MaxTroubles /\ happened' \subseteq Env
      /\ happened \subseteq happened'
      /\ "split" \notin happened' /\ server.cum = 0 /\ Len(toServer[k]) >= 2 => n = 2
      /\ "slow" \in happened' => "slow" \in happened
  BY <1>1, ReadsSome
<1>3. toServer'[k] = After(n, toServer[k])
  BY DEF TypeOK
<1>4. toServer'[k] \in Seq(Part) /\ Len(toServer'[k]) <= Len(toServer[k])
  <2>1. /\ After(n, toServer[k]) \in Seq(Part)
        /\ Len(After(n, toServer[k])) = Len(toServer[k]) - n
    BY <1>1, <1>2, AfterRead
  <2> QED
    BY <1>1, <1>3, <2>1
<1> QED
  BY <1>2, <1>3, <1>4, TypedParts DEF ServerStep, TakenFrom, TypeOK

\* The server closes a connection, or only ends a test.
LEMMA ServerEnds ==
    ASSUME TypeOK, NEW k \in Client, server.conn = k, server' \in ServerState,
           Calm \/ \E t \in Trouble : Suffers(t), UNCHANGED <<client, backlog, heard>>,
           \/ ServerCloses /\ ClosedTo(k)
           \/ UNCHANGED wires
    PROVE  ServerStep(k)
<1>1. /\ troubles' \in 0..MaxTroubles /\ happened' \subseteq Env
      /\ happened \subseteq happened'
  BY TroubleTyped
<1>2. heard[k] \subseteq {"upload", "download"} /\ heard = [heard EXCEPT ![k] = heard[k]]
  BY DEF TypeOK
<1>3. CASE ServerCloses /\ ClosedTo(k)
  <2>1. Len(toServer'[k]) = 0 /\ toServer'[k] \in Seq(Part) /\ Len(toServer[k]) \in Nat
    BY <1>3, TypedParts DEF ClosedTo
  <2> QED
    BY <1>1, <1>2, <1>3, <2>1, TypedParts DEF ServerStep, ClosedTo, ServerCloses, conn, TypeOK
<1>4. CASE UNCHANGED wires
  BY <1>1, <1>2, <1>4, TypedParts DEF ServerStep, wires, TypeOK
<1> QED
  BY <1>3, <1>4

LEMMA ClosesTo ==
    ASSUME TypeOK, NEW k \in Client, server.conn = k, ServerCloses, heard' = heard
    PROVE  ClosedTo(k)
BY DEF ServerCloses, ClosedTo, conn, TypeOK

-----------------------------------------------------------------------------
(* What each action of the server does.                                    *)

\* A recv has failed for the server although its client could still have
\* sent, or could not.
FailedFrom(k) ==
    /\ toServer[k] = <<>> /\ "server" \in ends[k]
    /\ "slow" \notin happened' => ClientRests(k) \/ "client" \notin ends[k]

LEMMA CommandDoes ==
    ASSUME TypeOK, ConnectionInv, Command, NEW k \in Client, server.conn = k
    PROVE  /\ server.at = "command" /\ "server" \in ends[k] /\ ServerStep(k)
           /\ "slow" \in happened' => "slow" \in happened
           /\ server'.conn = k /\ server'.s = server.s /\ server'.count = server.count
           /\ \E n \in 1..2 :
                /\ TakenFrom(k, n)
                /\ server'.cum = IF server.cum + n < 2 THEN 1 ELSE 0
                /\ \E t \in Types(server, n, toServer[k]) :
                    /\ server'.at = CASE t = "upload" -> "ack_upload"
                                      [] t = "download" -> "ack_download"
                                      [] OTHER -> "command"
                    /\ heard'[k] = IF server'.at = "command" THEN heard[k]
                                   ELSE heard[k] \union {t}
<1>1. server \in ServerState /\ server.cum \in 0..1 /\ server.at = "command"
  BY Served DEF Command
<1>2. PICK n \in 1..2 :
        /\ Reads(n, toServer[k], server.cum)
        /\ toServer' = [toServer EXCEPT ![k] = After(n, @)]
        /\ \E t \in Types(server, n, toServer[k]) :
            LET at == CASE t = "upload" -> "ack_upload"
                        [] t = "download" -> "ack_download"
                        [] OTHER -> "command"
            IN  /\ server' = [Filled(server, n, toServer[k]) EXCEPT !.at = at]
                /\ heard' = [heard EXCEPT ![k] = IF at = "command" THEN @ ELSE @ \union {t}]
  BY DEF Command, conn
<1>3. PICK t \in Types(server, n, toServer[k]) :
            LET at == CASE t = "upload" -> "ack_upload"
                        [] t = "download" -> "ack_download"
                        [] OTHER -> "command"
            IN  /\ server' = [Filled(server, n, toServer[k]) EXCEPT !.at = at]
                /\ heard' = [heard EXCEPT ![k] = IF at = "command" THEN @ ELSE @ \union {t}]
  BY <1>2
<1>4. PICK a \in ServerPlace :
            /\ a = CASE t = "upload" -> "ack_upload"
                     [] t = "download" -> "ack_download"
                     [] OTHER -> "command"
            /\ server' = [Filled(server, n, toServer[k]) EXCEPT !.at = a]
            /\ heard' = [heard EXCEPT ![k] = IF a = "command" THEN @ ELSE @ \union {t}]
            /\ a \in {"command", "ack_upload", "ack_download"}
            /\ a = "ack_upload" => t = "upload"
            /\ a = "ack_download" => t = "download"
  <2>1. (CASE t = "upload" -> "ack_upload" [] t = "download" -> "ack_download"
           [] OTHER -> "command") \in ServerPlace
    BY DEF ServerPlace
  <2> QED
    BY <1>3, <2>1
<1>5. n \in Nat /\ toServer[k] \in Seq(Part) /\ toServer[k] # <<>>
  BY <1>1, <1>2, ReadsSome, TypedParts
<1>6. PICK b \in ServerState :
        /\ b = Filled(server, n, toServer[k])
        /\ b.conn = server.conn /\ b.s = server.s /\ b.count = server.count
        /\ b.cum = IF server.cum + n < 2 THEN 1 ELSE 0
  BY <1>1, <1>5, FilledServer
<1>7. /\ server' \in ServerState /\ server'.at = a /\ server'.conn = k
      /\ server'.s = server.s /\ server'.count = server.count
      /\ server'.cum = IF server.cum + n < 2 THEN 1 ELSE 0
  BY <1>4, <1>6, PlacedServer
<1>8. heard'[k] = IF a = "command" THEN heard[k] ELSE heard[k] \union {t}
  BY <1>4 DEF TypeOK
<1>9. /\ heard[k] \subseteq heard'[k] /\ heard'[k] \subseteq {"upload", "download"}
      /\ heard' = [heard EXCEPT ![k] = heard'[k]]
  BY <1>4, <1>8 DEF TypeOK
<1>10. /\ ServerStep(k) /\ TakenFrom(k, n)
       /\ "slow" \in happened' => "slow" \in happened
  BY <1>1, <1>2, <1>7, <1>9, ServerReads DEF Command
<1>11. "server" \in ends[k]
  BY DEF Command, conn
<1> QED
  BY <1>1, <1>4, <1>7, <1>8, <1>10, <1>11

LEMMA CommandEndsDoes ==
    ASSUME TypeOK, ConnectionInv, CommandEnds, NEW k \in Client, server.conn = k
    PROVE  /\ server.at = "command" /\ ServerStep(k) /\ ClosedTo(k)
           /\ server'.at = "accept" /\ server'.conn = None /\ server'.cum = server.cum
           /\ server'.s = server.s
<1>1. server \in ServerState /\ server.at = "command" /\ "accept" \in ServerPlace
  BY Served DEF CommandEnds, ServerPlace
<1>2. server' = [server EXCEPT !.at = "accept", !.conn = None]
  BY DEF CommandEnds
<1>3. /\ server' \in ServerState /\ server'.at = "accept" /\ server'.conn = None
      /\ server'.cum = server.cum /\ server'.s = server.s
  BY <1>1, <1>2, LeftServer
<1>4. Calm \/ \E t \in Trouble : Suffers(t)
  BY DEF CommandEnds, ServerEof, ServerError, Trouble
<1>5. ClosedTo(k)
  BY ClosesTo DEF CommandEnds
<1> QED
  BY <1>1, <1>3, <1>4, <1>5, ServerEnds DEF CommandEnds

LEMMA SendAckDoes ==
    ASSUME TypeOK, ConnectionInv, SendAck, NEW k \in Client, server.conn = k
    PROVE  /\ server.at \in {"ack_upload", "ack_download"} /\ UNCHANGED <<client, happened>>
           /\ \/ /\ ServerStep(k) /\ GivenTo(k, "ack")
                 /\ server'.at = IF server.at = "ack_upload" THEN "rx" ELSE "tx"
                 /\ server'.conn = k /\ server'.cum = 0 /\ server'.s = server.s
                 /\ server'.count = 0
              \/ ends[k] = {"server"} /\ ServerDies
<1>1. /\ server \in ServerState /\ server.at \in {"ack_upload", "ack_download"}
      /\ UNCHANGED <<client, history>>
  BY Served DEF SendAck
<1>2. PICK a \in ServerPlace : a = IF server.at = "ack_upload" THEN "rx" ELSE "tx"
  BY DEF ServerPlace
<1> DEFINE then == [ServerAt(a) EXCEPT !.cum = 0, !.head = Unset]
<1>3. /\ then \in ServerState /\ then.at = a /\ then.conn = k /\ then.cum = 0
      /\ then.s = server.s /\ then.count = 0
  BY <1>1, EmptiedAtTyped
<1>4. ServerSend("ack", then)
  BY <1>2 DEF SendAck
<1>5. "ack" \in Packet
  BY DEF Packet
<1> HIDE DEF then
<1>6. \/ ServerStep(k) /\ GivenTo(k, "ack") /\ server' = then
      \/ ends[k] = {"server"} /\ ServerDies
  BY <1>1, <1>3, <1>4, <1>5, ServerSendDoes
<1> QED
  BY <1>1, <1>2, <1>3, <1>6 DEF history

LEMMA SendAckFailsDoes ==
    ASSUME TypeOK, ConnectionInv, SendAckFails, NEW k \in Client, server.conn = k
    PROVE  /\ server.at \in {"ack_upload", "ack_download"} /\ "client" \notin ends[k]
           /\ ServerStep(k) /\ Still(k) /\ UNCHANGED happened
           /\ server'.at = IF server.at = "ack_upload" /\ server.s # "null"
                           THEN "stats" ELSE "command"
           /\ server'.conn = k /\ server'.cum = server.cum /\ server'.s = server.s
<1>1. /\ server \in ServerState /\ server.at \in {"ack_upload", "ack_download"}
      /\ UNCHANGED <<client, wires, backlog, history>> /\ "client" \notin ends[k]
  BY Served DEF SendAckFails, conn
<1>2. PICK a \in ServerPlace : a = IF server.at = "ack_upload" /\ server.s # "null"
                                   THEN "stats" ELSE "command"
  BY DEF ServerPlace
<1>3. server' = ServerAt(a)
  BY <1>2 DEF SendAckFails
<1>4. /\ server' \in ServerState /\ server'.at = a /\ server'.conn = k
      /\ server'.cum = server.cum /\ server'.s = server.s
  BY <1>1, <1>3, ServerAtTyped
<1>5. Calm /\ heard' = heard /\ UNCHANGED happened
  BY <1>1 DEF Calm, history
<1>6. ServerStep(k)
  BY <1>1, <1>4, <1>5, ServerEnds
<1> QED
  BY <1>1, <1>2, <1>4, <1>5, <1>6 DEF Still, wires

LEMMA ServerRxDoes ==
    ASSUME TypeOK, ConnectionInv, ServerRx, NEW k \in Client, server.conn = k
    PROVE  /\ server.at = "rx" /\ ServerStep(k) /\ heard'[k] = heard[k]
           /\ "slow" \in happened' => "slow" \in happened
           /\ server'.conn = k
           /\ \E n \in 1..2 :
                /\ TakenFrom(k, n)
                /\ \E t \in Types(server, n, toServer[k]) :
                    IF t = "end"
                    THEN server'.at = "stats" /\ server'.s = "live" /\ server'.cum = 0
                    ELSE /\ server'.at = "rx" /\ server'.s = server.s
                         /\ server'.cum = IF server.cum + n < 2 THEN 1 ELSE 0
<1>1. server \in ServerState /\ server.cum \in 0..1 /\ server.at = "rx"
  BY Served DEF ServerRx
<1>2. PICK n \in 1..2 :
        /\ Reads(n, toServer[k], server.cum)
        /\ toServer' = [toServer EXCEPT ![k] = After(n, @)]
        /\ \E t \in Types(server, n, toServer[k]) :
            server' = IF t = "end" THEN Measured ELSE Filled(server, n, toServer[k])
  BY DEF ServerRx, conn
<1>3. PICK t \in Types(server, n, toServer[k]) :
            server' = IF t = "end" THEN Measured ELSE Filled(server, n, toServer[k])
  BY <1>2
<1>4. n \in Nat /\ toServer[k] \in Seq(Part) /\ toServer[k] # <<>>
  BY <1>1, <1>2, ReadsSome, TypedParts
<1>5. /\ Filled(server, n, toServer[k]) \in ServerState
      /\ Filled(server, n, toServer[k]).at = "rx"
      /\ Filled(server, n, toServer[k]).conn = k
      /\ Filled(server, n, toServer[k]).s = server.s
      /\ Filled(server, n, toServer[k]).cum = IF server.cum + n < 2 THEN 1 ELSE 0
  BY <1>1, <1>4, FilledServer
<1>6. /\ Measured \in ServerState /\ Measured.at = "stats" /\ Measured.conn = k
      /\ Measured.cum = 0 /\ Measured.s = "live"
  BY <1>1, MeasuredTyped
<1>7. server' \in ServerState /\ server'.conn = k
  BY <1>3, <1>5, <1>6
<1>8. /\ heard' = [heard EXCEPT ![k] = heard'[k]] /\ heard'[k] = heard[k]
      /\ heard'[k] \subseteq {"upload", "download"}
      /\ UNCHANGED <<client, toClient, ends, backlog>>
  BY DEF ServerRx, TypeOK
<1>9. /\ ServerStep(k) /\ TakenFrom(k, n)
      /\ "slow" \in happened' => "slow" \in happened
  BY <1>1, <1>2, <1>7, <1>8, ServerReads
<1>10. IF t = "end"
       THEN server'.at = "stats" /\ server'.s = "live" /\ server'.cum = 0
       ELSE /\ server'.at = "rx" /\ server'.s = server.s
            /\ server'.cum = IF server.cum + n < 2 THEN 1 ELSE 0
  BY <1>3, <1>5, <1>6
<1> QED
  BY <1>1, <1>7, <1>8, <1>9, <1>10

LEMMA ServerRxCutDoes ==
    ASSUME TypeOK, ConnectionInv, ServerRxCut, NEW k \in Client, server.conn = k
    PROVE  /\ server.at = "rx" /\ ServerStep(k)
           /\ server'.at = "stats" /\ server'.conn = k /\ server'.cum = 0
           /\ server'.s = "live"
           /\ \/ ends[k] = {"server"} /\ ClosedTo(k)
              \/ FailedFrom(k) /\ Still(k)
<1>1. server \in ServerState /\ server.at = "rx" /\ server' = Measured
      /\ UNCHANGED <<client, backlog, heard>>
  BY Served DEF ServerRxCut
<1>2. /\ server' \in ServerState /\ server'.at = "stats" /\ server'.conn = k
      /\ server'.cum = 0 /\ server'.s = "live"
  BY <1>1, MeasuredTyped
<1>3. Calm \/ \E t \in Trouble : Suffers(t)
  BY DEF ServerRxCut, ServerEof, ServerError, Trouble
<1>4. CASE ServerEof /\ ServerCloses
  <2>1. ClosedTo(k) /\ ends[k] = {"server"}
    BY <1>1, <1>4, ClosesTo DEF ServerEof, conn
  <2> QED
    BY <1>1, <1>2, <1>3, <1>4, <2>1, ServerEnds
<1>5. CASE ServerError /\ UNCHANGED wires
  <2>1. FailedFrom(k) /\ Still(k)
    BY <1>1, <1>5 DEF ServerError, FailedFrom, Still, wires, conn, Suffers
  <2> QED
    BY <1>1, <1>2, <1>3, <1>5, <2>1, ServerEnds
<1> QED
  BY <1>4, <1>5 DEF ServerRxCut

LEMMA ServerTxDoes ==
    ASSUME TypeOK, ConnectionInv, ServerTx, NEW k \in Client, server.conn = k
    PROVE  /\ server.at = "tx" /\ UNCHANGED <<client, happened>>
           /\ \/ /\ ServerStep(k) /\ server'.conn = k /\ server'.cum = server.cum
                 /\ server'.s = server.s
                 /\ IF server.count + 1 = MaxPkts
                    THEN GivenTo(k, "end") /\ server'.at = "command"
                    ELSE /\ GivenTo(k, "data") /\ server'.at = "tx"
                         /\ server'.count = server.count + 1
              \/ ends[k] = {"server"} /\ ServerDies
<1> DEFINE sent == server.count + 1
           packet == IF sent = MaxPkts THEN "end" ELSE "data"
           last == ServerAt("command")
           more == [server EXCEPT !.count = sent]
           then == IF sent = MaxPkts THEN last ELSE more
<1>1. /\ server \in ServerState /\ server.at = "tx" /\ sent \in Nat
      /\ UNCHANGED <<client, history>>
  BY Served DEF ServerTx
<1>2. ServerSend(packet, then)
  BY DEF ServerTx
<1>3. /\ last \in ServerState /\ last.at = "command" /\ last.conn = k
      /\ last.cum = server.cum /\ last.s = server.s
  BY <1>1, ServerAtTyped DEF ServerPlace
<1>4. packet \in Packet
  BY DEF Packet
<1> HIDE DEF sent, last
<1>5. /\ more \in ServerState /\ more.at = "tx" /\ more.conn = k
      /\ more.cum = server.cum /\ more.s = server.s /\ more.count = sent
  BY <1>1, CountedServer
<1> HIDE DEF more
<1>6. then \in ServerState
  BY <1>3, <1>5
<1>7. IF sent = MaxPkts THEN then = last /\ packet = "end"
      ELSE then = more /\ packet = "data"
  OBVIOUS
<1> HIDE DEF then, packet
<1>8. \/ ServerStep(k) /\ GivenTo(k, packet) /\ server' = then
      \/ ends[k] = {"server"} /\ ServerDies
  BY <1>1, <1>2, <1>4, <1>6, ServerSendDoes
<1> QED
  BY <1>1, <1>3, <1>5, <1>7, <1>8 DEF history, sent

LEMMA SendSummaryStatsDoes ==
    ASSUME TypeOK, ConnectionInv, SendSummaryStats, NEW k \in Client, server.conn = k
    PROVE  /\ server.at = "stats" /\ UNCHANGED <<client, happened>>
           /\ \/ /\ ServerStep(k) /\ GivenTo(k, "stats")
                 /\ server'.at = "command" /\ server'.conn = k
                 /\ server'.cum = server.cum
                 /\ server'.s = IF server.s = "live" THEN "freed" ELSE "misused"
              \/ ends[k] = {"server"} /\ ServerDies
<1> DEFINE then == [ServerAt("command") EXCEPT
                        !.s = IF @ = "live" THEN "freed" ELSE "misused"]
<1>1. server \in ServerState /\ server.at = "stats" /\ UNCHANGED <<client, history>>
  BY Served DEF SendSummaryStats
<1>2. /\ then \in ServerState /\ then.at = "command" /\ then.conn = k
      /\ then.cum = server.cum
      /\ then.s = IF server.s = "live" THEN "freed" ELSE "misused"
  BY <1>1, FreedServer
<1>3. ServerSend("stats", then) /\ "stats" \in Packet
  BY DEF SendSummaryStats, Packet
<1> HIDE DEF then
<1>4. \/ ServerStep(k) /\ GivenTo(k, "stats") /\ server' = then
      \/ ends[k] = {"server"} /\ ServerDies
  BY <1>1, <1>2, <1>3, ServerSendDoes
<1> QED
  BY <1>1, <1>2, <1>4 DEF history

LEMMA DiesDoes ==
    ASSUME TypeOK, ServerDies, UNCHANGED <<client, heard>>,
           Calm \/ \E t \in Trouble : Suffers(t)
    PROVE  /\ TypeOK' /\ server'.at = "dead" /\ server'.conn = None
           /\ server'.cum = server.cum /\ server'.s = server.s
           /\ UNCHANGED <<client, toClient, heard>> /\ happened \subseteq happened'
           /\ backlog' = <<>>
           /\ \A c \in Client : toServer'[c] = <<>> /\ ends'[c] = ends[c] \ {"server"}
<1>1. /\ troubles' \in 0..MaxTroubles /\ happened' \subseteq Env
      /\ happened \subseteq happened'
  BY TroubleTyped
<1>2. server' = [server EXCEPT !.at = "dead", !.conn = None] /\ "dead" \in ServerPlace
      /\ server \in ServerState
  BY DEF ServerDies, ServerPlace, TypeOK
<1>3. /\ server' \in ServerState /\ server'.at = "dead" /\ server'.conn = None
      /\ server'.cum = server.cum /\ server'.s = server.s
  BY <1>2, LeftServer
<1>4. /\ toServer' = [c \in Client |-> <<>>] /\ backlog' = <<>>
      /\ ends' = [c \in Client |-> ends[c] \ {"server"}] /\ toClient' = toClient
  BY DEF ServerDies
<1>5. /\ \A c \in Client : toServer'[c] = <<>> /\ Len(toServer'[c]) <= 2 * Capacity
      /\ toServer' \in [Client -> Seq(Part)] /\ backlog' \in Seq(Client)
      /\ ends' \in [Client -> SUBSET {"client", "server"}]
  BY <1>4, Sizes DEF TypeOK
<1> QED
  BY <1>1, <1>3, <1>4, <1>5 DEF TypeOK

LEMMA AcceptDoes ==
    ASSUME TypeOK, ConnectionInv, Accept
    PROVE  /\ TypeOK' /\ UNCHANGED <<client, wires, history>>
           /\ server.at = "accept" /\ server.conn = None
           /\ server'.at = "command" /\ server'.conn = Head(backlog)
           /\ server'.conn \in Client /\ client[server'.conn].at # "idle"
           /\ server'.cum = 0 /\ server'.s = "null"
           /\ \A i \in DOMAIN backlog' : client[backlog'[i]].at # "idle"
<1>1. PICK k \in Client : k = Head(backlog) /\ client[k].at # "idle"
  BY DEF Accept, TypeOK, ConnectionInv
<1>2. server' = [at |-> "command", conn |-> k, cum |-> 0,
                 head |-> Unset, count |-> 0, s |-> "null"]
  BY <1>1 DEF Accept
<1>3. /\ "command" \in ServerPlace /\ k \in Client \union {None} /\ 0 \in 0..1 /\ 0 \in Nat
      /\ Unset \in Part /\ "null" \in {"null", "live", "freed", "misused"}
  BY DEF ServerPlace, Unset, Part
<1>4. server' \in ServerState
  BY <1>2, <1>3, Zenon DEF ServerState
<1>5. backlog' \in Seq(Client)
  BY DEF Accept, TypeOK
<1>6. \A i \in DOMAIN backlog' : client[backlog'[i]].at # "idle"
  <2>1. backlog \in Seq(Client) /\ backlog # <<>> /\ backlog' = Tail(backlog)
    BY DEF Accept, TypeOK
  <2>2. \A i \in DOMAIN Tail(backlog) :
          i + 1 \in DOMAIN backlog /\ Tail(backlog)[i] = backlog[i + 1]
    BY <2>1
  <2> QED
    BY <2>1, <2>2 DEF ConnectionInv
<1>7. TypeOK'
  BY <1>4, <1>5 DEF Accept, TypeOK, wires, history
<1> QED
  BY <1>1, <1>2, <1>6, <1>7 DEF Accept, ConnectionInv

LEMMA ServerStepTyped ==
    ASSUME TypeOK, NEW k \in Client, ServerStep(k)
    PROVE  TypeOK'
<1>1. /\ toServer' \in [Client -> Seq(Part)] /\ toClient' \in [Client -> Seq(Part)]
      /\ ends' \in [Client -> SUBSET {"client", "server"}]
      /\ heard' \in [Client -> SUBSET {"upload", "download"}]
  <2>1. toServer' \in [Client -> Seq(Part)]
    BY DEF ServerStep, TypeOK
  <2>2. toClient' \in [Client -> Seq(Part)]
    BY DEF ServerStep, TypeOK
  <2>3. ends'[k] \in SUBSET {"client", "server"}
    BY DEF ServerStep, TypeOK
  <2>4. ends' \in [Client -> SUBSET {"client", "server"}]
    BY <2>3 DEF ServerStep, TypeOK
  <2>5. heard'[k] \in SUBSET {"upload", "download"}
    BY DEF ServerStep
  <2>6. heard' \in [Client -> SUBSET {"upload", "download"}]
    BY <2>5 DEF ServerStep, TypeOK
  <2> QED
    BY <2>1, <2>2, <2>4, <2>6
<1>2. \A d \in Client : Len(toClient'[d]) <= 2 * Capacity
  BY DEF ServerStep, TypeOK
<1>3. \A d \in Client : Len(toServer'[d]) <= 2 * Capacity
  <2>1. \A d \in Client : d # k => toServer'[d] = toServer[d]
    BY DEF ServerStep, TypeOK
  <2>2. Len(toServer'[k]) \in Nat /\ Len(toServer[k]) \in Nat /\ 2 * Capacity \in Nat
    BY TypedParts, Sizes DEF ServerStep
  <2>3. Len(toServer'[k]) <= 2 * Capacity
    BY <2>2 DEF ServerStep, TypeOK
  <2> QED
    BY <2>1, <2>3 DEF TypeOK
<1> QED
  BY <1>1, <1>2, <1>3 DEF ServerStep, TypeOK

\* A step of the server leaves the other connections as they are.
LEMMA OthersWait ==
    ASSUME TypeOK, NEW k \in Client, ServerStep(k), NEW d \in Client, d # k
    PROVE  /\ ends'[d] = ends[d] /\ heard'[d] = heard[d]
           /\ toServer'[d] = toServer[d] /\ toClient'[d] = toClient[d]
BY DEF ServerStep, TypeOK

LEMMA ServerStepConnected ==
    ASSUME TypeOK, ConnectionInv, NEW k \in Client, ServerStep(k), server.conn = k,
           server.at \notin {"accept", "dead"},
           \/ server'.at \notin {"accept", "dead"} /\ server'.conn = k
           \/ server'.at = "accept" /\ server'.conn = None,
           server'.at = "tx" => server'.count < MaxPkts
    PROVE  ConnectionInv'
<1>1. client' = client /\ backlog' = backlog
  BY DEF ServerStep
<1>2. None \notin Client /\ k # None
  BY ClientAssumption
<1>3. client[k].at # "idle"
  BY Served
<1>4. \A d \in Client :
        /\ client[d].at = "idle" =>
                /\ server'.conn # d /\ ends'[d] = {}
                /\ toServer'[d] = <<>> /\ toClient'[d] = <<>>
        /\ ends'[d] = {"server"} => client[d].at = "exited"
        /\ client[d].at \in DL => "client" \in ends'[d]
  <2>1. ends'[k] = {"server"} => ends[k] = {"server"}
    BY TypedParts DEF ServerStep
  <2>2. "client" \in ends[k] => "client" \in ends'[k]
    BY DEF ServerStep
  <2> QED
    BY <1>2, <1>3, <2>1, <2>2, OthersWait DEF ConnectionInv, DL
<1> QED
  BY <1>1, <1>2, <1>4 DEF ConnectionInv, DL

\* A server that died serves nobody.
LEMMA DiesConnected ==
    ASSUME TypeOK, ConnectionInv, ServerDies, UNCHANGED <<client, heard>>,
           Calm \/ \E t \in Trouble : Suffers(t)
    PROVE  TypeOK' /\ ConnectionInv'
<1>1. /\ TypeOK' /\ server'.at = "dead" /\ server'.conn = None
      /\ UNCHANGED <<client, toClient>> /\ backlog' = <<>>
      /\ \A c \in Client : toServer'[c] = <<>> /\ ends'[c] = ends[c] \ {"server"}
  BY DiesDoes
<1>2. \A c \in Client :
        /\ client[c].at = "idle" => ends'[c] = {} /\ server'.conn # c
        /\ ends'[c] # {"server"}
        /\ client[c].at \in DL => "client" \in ends'[c]
  BY <1>1, ClientAssumption DEF ConnectionInv, DL
<1> QED
  BY <1>1, <1>2 DEF ConnectionInv, DL

\* The server's steps, one by one.
LEMMA ServerNextStep ==
    ASSUME TypeOK, ConnectionInv, ServerNext \/ Crash
    PROVE  TypeOK' /\ ConnectionInv'
<1> DEFINE Good(k) ==
        /\ ServerStep(k) /\ server.conn = k
        /\ server.at \notin {"accept", "dead"}
        /\ \/ server'.at \notin {"accept", "dead"} /\ server'.conn = k
           \/ server'.at = "accept" /\ server'.conn = None
        /\ server'.at = "tx" => server'.count < MaxPkts
           Dies == /\ ServerDies /\ UNCHANGED <<client, heard>>
                   /\ Calm \/ \E t \in Trouble : Suffers(t)
<1>1. ASSUME NEW k \in Client, Good(k) PROVE TypeOK' /\ ConnectionInv'
  BY <1>1, ServerStepTyped, ServerStepConnected
<1>2. CASE Dies
  BY <1>2, DiesConnected
<1>3. CASE Accept
  <2>1. /\ TypeOK' /\ UNCHANGED <<client, toServer, toClient, ends>>
        /\ server'.at = "command" /\ server'.conn \in Client
        /\ client[server'.conn].at # "idle"
        /\ \A i \in DOMAIN backlog' : client[backlog'[i]].at # "idle"
    BY <1>3, AcceptDoes DEF wires
  <2> QED
    BY <2>1, ClientAssumption DEF ConnectionInv
<1>4. CASE Crash
  BY <1>2, <1>4 DEF Crash, Trouble
<1>5. CASE ServerNext /\ ~Accept
  <2>1. PICK k \in Client : server.conn = k /\ server.at \notin {"accept", "dead"}
    <3>1. server.at \notin {"accept", "dead"}
      BY <1>5 DEF ServerNext, Command, CommandEnds, SendAck, SendAckFails, ServerRx,
         ServerRxCut, ServerTx, SendSummaryStats
    <3> QED
      BY <3>1, Served
  <2>2. 0 < MaxPkts /\ MaxPkts \in Nat
    BY Sizes
  <2>3. CASE Command
    BY <1>1, <2>1, <2>3, CommandDoes
  <2>4. CASE CommandEnds
    BY <1>1, <2>1, <2>4, CommandEndsDoes
  <2>5. CASE SendAck
    <3>1. UNCHANGED <<client, heard>> /\ Calm
      BY <2>5 DEF SendAck, history, Calm
    <3> QED
      BY <1>1, <1>2, <2>1, <2>2, <2>5, <3>1, SendAckDoes
  <2>6. CASE SendAckFails
    BY <1>1, <2>1, <2>6, SendAckFailsDoes
  <2>7. CASE ServerRx
    BY <1>1, <2>1, <2>7, ServerRxDoes
  <2>8. CASE ServerRxCut
    BY <1>1, <2>1, <2>8, ServerRxCutDoes
  <2>9. CASE ServerTx
    <3>1. UNCHANGED <<client, heard>> /\ Calm
      BY <2>9 DEF ServerTx, history, Calm
    <3>2. server.count < MaxPkts /\ server.count \in Nat
      BY <2>1, <2>9, Served DEF ServerTx, ConnectionInv
    <3> QED
      BY <1>1, <1>2, <2>1, <2>2, <2>9, <3>1, <3>2, ServerTxDoes
  <2>10. CASE SendSummaryStats
    <3>1. UNCHANGED <<client, heard>> /\ Calm
      BY <2>10 DEF SendSummaryStats, history, Calm
    <3> QED
      BY <1>1, <1>2, <2>1, <2>10, <3>1, SendSummaryStatsDoes
  <2> QED
    BY <1>5, <2>3, <2>4, <2>5, <2>6, <2>7, <2>8, <2>9, <2>10 DEF ServerNext
<1> QED
  BY <1>3, <1>4, <1>5

LEMMA SpeedInit == Init => TypeOK /\ ConnectionInv
<1> SUFFICES ASSUME Init PROVE TypeOK /\ ConnectionInv
  OBVIOUS
<1>1. /\ "idle" \in ClientPlace /\ "accept" \in ServerPlace /\ 0 \in 0..Retries
      /\ 0 \in 0..1 /\ 0 \in Nat /\ Unset \in Part /\ "none" \in {"none", "end", "cut"}
      /\ None \in Client \union {None}
      /\ "null" \in {"null", "live", "freed", "misused"}
  BY SizeAssumption DEF ClientPlace, ServerPlace, Unset, Part
<1>2. [at |-> "idle", retries |-> 0, cum |-> 0, head |-> Unset,
       count |-> 0, result |-> "none", got |-> 0] \in ClientState
  BY <1>1, Zenon DEF ClientState
<1>3. client \in [Client -> ClientState]
  BY <1>2 DEF Init
<1>4. server \in ServerState
  BY <1>1, Zenon DEF Init, ServerState
<1>5. \A c \in Client : /\ client[c].at = "idle" /\ toServer[c] = <<>> /\ toClient[c] = <<>>
                        /\ ends[c] = {}
  BY DEF Init
<1>6. TypeOK
  BY <1>3, <1>4, <1>5, Sizes DEF Init, TypeOK
<1>7. ConnectionInv
  BY <1>5, ClientAssumption DEF Init, ConnectionInv
<1> QED
  BY <1>6, <1>7

LEMMA SpeedStep == TypeOK /\ ConnectionInv /\ [Next]_vars => TypeOK' /\ ConnectionInv'
<1> SUFFICES ASSUME TypeOK, ConnectionInv, [Next]_vars PROVE TypeOK' /\ ConnectionInv'
  OBVIOUS
<1>1. CASE UNCHANGED vars
  BY <1>1 DEF vars, wires, history, TypeOK, ConnectionInv
<1> QED
  BY <1>1, ConnectStep, ClientNextStep, ServerNextStep DEF Next

\* The clients, the server, the wires between them and their buffers keep
\* their types, for any clients, packets, retries and connections: no wire
\* ever holds more than its connection does, and what c_run and s_run take
\* a header for is one.
THEOREM SpeedTypeCorrect == Spec => []TypeOK
<1>1. Init => TypeOK /\ ConnectionInv
  BY SpeedInit
<1>2. TypeOK /\ ConnectionInv /\ [Next]_vars => TypeOK' /\ ConnectionInv'
  BY SpeedStep
<1> QED
  BY <1>1, <1>2, PTL DEF Spec

LEMMA SpeedConnected == Spec => [](TypeOK /\ ConnectionInv)
<1>1. Init => TypeOK /\ ConnectionInv
  BY SpeedInit
<1>2. TypeOK /\ ConnectionInv /\ [Next]_vars => TypeOK' /\ ConnectionInv'
  BY SpeedStep
<1> QED
  BY <1>1, <1>2, PTL DEF Spec


-----------------------------------------------------------------------------
\* Wires of whole packets.
LEMMA FramedEmpty == Framed(<<>>)
<1>1. Len(<<>>) = 2 * 0 /\ 0 \in 0..Len(<<>>)
  OBVIOUS
<1> QED
  BY <1>1 DEF Framed

LEMMA FramedWith ==
    ASSUME NEW wire \in Seq(Part), Framed(wire), NEW packet \in Packet
    PROVE  Framed(With(wire, packet))
<1> DEFINE w == With(wire, packet)
<1>1. PICK k \in Nat : /\ Len(wire) = 2 * k
                       /\ \A i \in 1..k : wire[2 * i - 1] \in Packet /\ wire[2 * i] = "rest"
  BY DEF Framed
<1>2. /\ Len(w) = 2 * (k + 1) /\ \A i \in 1..Len(wire) : w[i] = wire[i]
      /\ w[2 * (k + 1) - 1] = packet /\ w[2 * (k + 1)] = "rest"
  <2>1. Len(wire) + 1 = 2 * (k + 1) - 1 /\ Len(wire) + 2 = 2 * (k + 1)
    BY <1>1
  <2> QED
    BY <2>1, WithPacket
<1> HIDE DEF w
<1>3. ASSUME NEW i \in 1..(k + 1) PROVE w[2 * i - 1] \in Packet /\ w[2 * i] = "rest"
  <2>1. CASE i = k + 1
    BY <1>2, <2>1
  <2>2. CASE i \in 1..k
    <3>1. 2 * i - 1 \in 1..Len(wire) /\ 2 * i \in 1..Len(wire)
      BY <1>1, <2>2
    <3> QED
      BY <1>1, <1>2, <2>2, <3>1
  <2> QED
    BY <2>1, <2>2
<1>4. k + 1 \in 0..Len(w)
  BY <1>2
<1>5. Framed(w)
  BY <1>2, <1>3, <1>4 DEF Framed
<1> QED
  BY <1>5 DEF w

LEMMA FramedAfter ==
    ASSUME NEW wire \in Seq(Part), Framed(wire), wire # <<>>
    PROVE  /\ Len(wire) >= 2 /\ wire[1] \in Packet /\ wire[2] = "rest"
           /\ Framed(After(2, wire)) /\ Len(After(2, wire)) = Len(wire) - 2
           /\ \A i \in 1..(Len(wire) - 2) : After(2, wire)[i] = wire[i + 2]
<1> DEFINE w == After(2, wire)
<1>1. PICK k \in Nat : /\ Len(wire) = 2 * k
                       /\ \A i \in 1..k : wire[2 * i - 1] \in Packet /\ wire[2 * i] = "rest"
  BY DEF Framed
<1>2. Len(wire) # 0
  OBVIOUS
<1>3. k >= 1 /\ Len(wire) >= 2
  BY <1>1, <1>2
<1>4. wire[2 * 1 - 1] \in Packet /\ wire[2 * 1] = "rest"
  BY <1>1, <1>3
<1>5. Len(w) = 2 * (k - 1) /\ \A i \in 1..(Len(wire) - 2) : w[i] = wire[i + 2]
  <2>1. 2 \in Nat /\ 2 <= Len(wire)
    BY <1>3
  <2>2. Len(w) = Len(wire) - 2 /\ \A i \in 1..(Len(wire) - 2) : w[i] = wire[i + 2]
    BY <2>1, AfterRead
  <2> QED
    BY <1>1, <2>2
<1> HIDE DEF w
<1>6. ASSUME NEW i \in 1..(k - 1) PROVE w[2 * i - 1] \in Packet /\ w[2 * i] = "rest"
  <2>1. 2 * i - 1 \in 1..(Len(wire) - 2) /\ 2 * i \in 1..(Len(wire) - 2) /\ i + 1 \in 1..k
    BY <1>1, <1>3
  <2>2. (2 * i - 1) + 2 = 2 * (i + 1) - 1 /\ 2 * i + 2 = 2 * (i + 1)
    OBVIOUS
  <2> QED
    BY <1>1, <1>5, <2>1, <2>2
<1>7. k - 1 \in 0..Len(w)
  BY <1>3, <1>5
<1>8. Framed(w)
  BY <1>5, <1>6, <1>7 DEF Framed
<1>9. Len(w) = Len(wire) - 2
  BY <1>1, <1>5
<1> QED
  BY <1>3, <1>4, <1>5, <1>8, <1>9 DEF w

\* A buffer without a part takes a whole packet, and knows it by its header.
LEMMA WholePacket ==
    ASSUME NEW wire \in Seq(Part), Framed(wire), NEW n \in 1..2, n <= Len(wire),
           NEW buf, buf.cum = 0, buf.cum = 0 /\ Len(wire) >= 2 => n = 2
    PROVE  /\ n = 2 /\ wire # <<>> /\ wire[1] \in Packet
           /\ Types(buf, n, wire) = {wire[1]}
<1>1. wire # <<>> /\ Len(wire) \in Nat
  OBVIOUS
<1>2. n = 2 /\ wire[1] \in Packet /\ Head(wire) = wire[1]
  BY <1>1, FramedAfter, HeadTyped
<1>3. Head(wire) # "rest" /\ ~(buf.cum + n < 2)
  BY <1>2 DEF Packet
<1> QED
  BY <1>1, <1>2, <1>3 DEF Types

LEMMA ReadWhole ==
    ASSUME TypeOK, NEW c \in Client, client[c].cum = 0, Framed(toClient[c]),
           NEW n \in 1..2, ReadOff(c, n), "split" \notin happened'
    PROVE  /\ n = 2 /\ toClient[c] # <<>> /\ toClient[c][1] \in Packet
           /\ Types(client[c], n, toClient[c]) = {toClient[c][1]}
           /\ toClient'[c] = After(2, toClient[c]) /\ Framed(toClient'[c])
<1>1. toClient[c] \in Seq(Part)
  BY TypedParts
<1>2. /\ n = 2 /\ toClient[c] # <<>> /\ toClient[c][1] \in Packet
      /\ Types(client[c], n, toClient[c]) = {toClient[c][1]}
  BY <1>1, WholePacket DEF ReadOff
<1> QED
  BY <1>1, <1>2, FramedAfter DEF ReadOff

LEMMA TakenWhole ==
    ASSUME TypeOK, NEW k \in Client, server.cum = 0, Framed(toServer[k]),
           NEW n \in 1..2, TakenFrom(k, n), "split" \notin happened'
    PROVE  /\ n = 2 /\ toServer[k] # <<>> /\ toServer[k][1] \in Packet
           /\ Types(server, n, toServer[k]) = {toServer[k][1]}
           /\ toServer'[k] = After(2, toServer[k]) /\ Framed(toServer'[k])
<1>1. toServer[k] \in Seq(Part)
  BY TypedParts
<1>2. /\ n = 2 /\ toServer[k] # <<>> /\ toServer[k][1] \in Packet
      /\ Types(server, n, toServer[k]) = {toServer[k][1]}
  BY <1>1, WholePacket DEF TakenFrom
<1> QED
  BY <1>1, <1>2, FramedAfter DEF TakenFrom

LEMMA SentWhole ==
    ASSUME TypeOK, NEW c \in Client, NEW packet \in Packet, SentTo(c, packet),
           Framed(toServer[c]), Framed(toClient[c])
    PROVE  Framed(toServer'[c]) /\ Framed(toClient'[c])
BY TypedParts, FramedWith DEF SentTo

LEMMA GivenWhole ==
    ASSUME TypeOK, NEW k \in Client, NEW packet \in Packet, GivenTo(k, packet),
           Framed(toServer[k]), Framed(toClient[k])
    PROVE  Framed(toServer'[k]) /\ Framed(toClient'[k])
BY TypedParts, FramedWith DEF GivenTo

LEMMA EndedWhole ==
    ASSUME TypeOK, NEW c \in Client, Ended(c), Framed(toServer[c])
    PROVE  /\ Framed(toServer'[c]) /\ Framed(toClient'[c])
           /\ client'[c].cum = client[c].cum /\ client'[c].result = client[c].result
           /\ client'[c].got = client[c].got
<1>1. client[c] \in ClientState /\ "exited" \in ClientPlace
  BY TypedParts DEF ClientPlace
<1> QED
  BY <1>1, PlacedClient, FramedEmpty DEF Ended

-----------------------------------------------------------------------------
\* A step by c that leaves its buffer empty and its wires framed leaves
\* everyone's so.
LEMMA ClientStaysWhole ==
    ASSUME TypeOK, WholeInv, NEW c \in Client, ClientStep(c),
           "split" \notin happened' =>
                client'[c].cum = 0 /\ Framed(toServer'[c]) /\ Framed(toClient'[c])
    PROVE  WholeInv'
<1> SUFFICES ASSUME "split" \notin happened'
             PROVE  /\ server'.cum = 0
                    /\ \A d \in Client : client'[d].cum = 0 /\ Framed(toServer'[d])
                                         /\ Framed(toClient'[d])
  BY DEF WholeInv
<1>1. "split" \notin happened /\ server' = server
  BY DEF ClientStep
<1> QED
  BY <1>1, OthersStay DEF WholeInv

LEMMA ServerStaysWhole ==
    ASSUME TypeOK, WholeInv, NEW k \in Client, ServerStep(k),
           "split" \notin happened' =>
                server'.cum = 0 /\ Framed(toServer'[k]) /\ Framed(toClient'[k])
    PROVE  WholeInv'
<1> SUFFICES ASSUME "split" \notin happened'
             PROVE  /\ server'.cum = 0
                    /\ \A d \in Client : client'[d].cum = 0 /\ Framed(toServer'[d])
                                         /\ Framed(toClient'[d])
  BY DEF WholeInv
<1>1. "split" \notin happened /\ client' = client
  BY DEF ServerStep
<1> QED
  BY <1>1, OthersWait DEF WholeInv

LEMMA DiesWhole ==
    ASSUME TypeOK, WholeInv, ServerDies, UNCHANGED <<client, heard>>,
           Calm \/ \E t \in Trouble : Suffers(t)
    PROVE  WholeInv'
<1>1. /\ server'.cum = server.cum /\ UNCHANGED <<client, toClient>>
      /\ happened \subseteq happened' /\ \A c \in Client : toServer'[c] = <<>>
  BY DiesDoes
<1> QED
  BY <1>1, FramedEmpty DEF WholeInv

\* c's buffer and wires while they are filled packet by packet.
Whole(c) == client[c].cum = 0 /\ Framed(toServer[c]) /\ Framed(toClient[c])

LEMMA ClientNextWhole ==
    ASSUME TypeOK, ConnectionInv, WholeInv, NEW c \in Client, ClientNext(c) \/ Quit(c)
    PROVE  WholeInv'
<1>1. ClientStep(c)
  BY ClientNextStep
<1>2. SUFFICES ASSUME "split" \notin happened' PROVE Whole(c)'
  BY <1>1, ClientStaysWhole DEF Whole
<1>3. /\ "split" \notin happened /\ client[c].cum = 0
      /\ Framed(toServer[c]) /\ Framed(toClient[c])
  BY <1>1, <1>2 DEF ClientStep, WholeInv
<1>4. client[c] \in ClientState
  BY TypedParts
<1>5. CASE Ended(c)
  BY <1>3, <1>5, EndedWhole DEF Whole
<1>6. CASE SendCtrlMsg(c)
  <2>1. CASE Ended(c)
    BY <1>5, <2>1
  <2>2. CASE ~Ended(c)
    <3>1. /\ client'[c] = [client[c] EXCEPT !.at = WaitFor(client[c].at)]
          /\ SentTo(c, Request(client[c].at))
      BY <1>6, <2>2, SendCtrlMsgDoes
    <3>2. Request(client[c].at) \in Packet /\ WaitFor(client[c].at) \in ClientPlace
      BY DEF Request, WaitFor, Packet, ClientPlace
    <3> QED
      BY <1>3, <1>4, <3>1, <3>2, PlacedClient, SentWhole DEF Whole
  <2> QED
    BY <2>1, <2>2
<1>7. CASE CtrlMsgAnswer(c)
  <2>1. PICK n \in 1..2 :
          /\ ReadOff(c, n)
          /\ \E t \in Types(client[c], n, toClient[c]) :
                client'[c] =
                    IF t = "ack" THEN Enter(c, Answered(client[c].at))
                    ELSE [Filled(client[c], n, toClient[c]) EXCEPT
                                !.at = SendAgain(client[c].at), !.head = Unset]
    BY <1>7, CtrlMsgAnswerDoes
  <2>2. n = 2 /\ toClient[c] # <<>> /\ Framed(toClient'[c])
    BY <1>2, <1>3, <2>1, ReadWhole
  <2>3. Enter(c, Answered(client[c].at)).cum = 0
    BY EnteredClient DEF Answered, ClientPlace
  <2>4. toClient[c] \in Seq(Part)
    BY TypedParts
  <2>5. /\ Filled(client[c], n, toClient[c]) \in ClientState
        /\ Filled(client[c], n, toClient[c]).cum = 0
    BY <1>3, <1>4, <2>2, <2>4, FilledClient
  <2>6. [Filled(client[c], n, toClient[c]) EXCEPT
                                !.at = SendAgain(client[c].at), !.head = Unset].cum = 0
    <3>1. PICK a \in ClientPlace : a = SendAgain(client[c].at)
      BY DEF SendAgain, ClientPlace
    <3>2. PICK f \in ClientState : f = Filled(client[c], n, toClient[c]) /\ f.cum = 0
      BY <2>5
    <3>3. [f EXCEPT !.at = a, !.head = Unset].cum = 0
      BY <3>2, AgainClient
    <3> QED
      BY <3>1, <3>2, <3>3
  <2> QED
    BY <1>3, <2>1, <2>2, <2>3, <2>6 DEF ReadOff, Whole
<1>8. CASE CtrlMsgError(c)
  BY <1>3, <1>8, CtrlMsgErrorDoes DEF Quiet, Whole
<1>9. CASE ExitOnClose(c)
  BY <1>5, <1>9, ExitOnCloseDoes
<1>10. CASE ClientRx(c)
  <2>1. PICK n \in 1..2 :
          /\ ReadOff(c, n)
          /\ \E t \in Types(client[c], n, toClient[c]) :
                /\ t = "end" =>
                    client'[c] = Downloaded(c, "end", client[c].count + n)
                /\ t # "end" => client'[c].cum = IF client[c].cum + n < 2 THEN 1 ELSE 0
    BY <1>10, ClientRxDoes
  <2>2. n = 2 /\ Framed(toClient'[c])
    BY <1>2, <1>3, <2>1, ReadWhole
  <2>3. client[c].count + n \in Nat
    BY <2>2, TypedParts
  <2>4. Downloaded(c, "end", client[c].count + n).cum = 0
    BY <2>3, DownloadedClient
  <2> QED
    BY <1>3, <2>1, <2>2, <2>4 DEF ReadOff, Whole
<1>11. CASE ClientRxCut(c)
  <2>1. client[c].count \in Nat
    BY TypedParts
  <2>2. client'[c].cum = 0 /\ toServer'[c] = toServer[c] /\ toClient'[c] = <<>>
    BY <1>11, <2>1, ClientRxCutDoes, DownloadedClient
  <2> QED
    BY <1>3, <2>2, FramedEmpty DEF Whole
<1>12. CASE ClientTx(c)
  <2>1. CASE Ended(c)
    BY <1>5, <2>1
  <2>2. CASE ~Ended(c)
    <3>1. /\ SentTo(c, "data") \/ SentTo(c, "end")
          /\ client'[c].cum = 0 \/ client'[c].cum = client[c].cum
      BY <1>12, <2>2, ClientTxDoes
    <3> QED
      BY <1>3, <3>1, SentWhole DEF Whole, Packet
  <2> QED
    BY <2>1, <2>2
<1>13. CASE ReceiveSummaryStats(c)
  <2>1. CASE Quiet(c) /\ (client'[c].cum = client[c].cum \/ client'[c].cum = 0)
    BY <1>3, <2>1 DEF Quiet, Whole
  <2>2. ASSUME NEW n \in 1..2, ReadOff(c, n), client[c].cum + n = 2 => client'[c].cum = 0
        PROVE  Whole(c)'
    <3>1. n = 2 /\ Framed(toClient'[c])
      BY <1>2, <1>3, <2>2, ReadWhole
    <3> QED
      BY <1>3, <2>2, <3>1 DEF ReadOff, Whole
  <2> QED
    BY <1>13, <2>1, <2>2, ReceiveSummaryStatsDoes
<1>14. CASE Quit(c)
  BY <1>5, <1>14, QuitDoes
<1> QED
  BY <1>6, <1>7, <1>8, <1>9, <1>10, <1>11, <1>12, <1>13, <1>14 DEF ClientNext

LEMMA ServerNextWhole ==
    ASSUME TypeOK, ConnectionInv, WholeInv, ServerNext \/ Crash
    PROVE  WholeInv'
<1> DEFINE Dies == /\ ServerDies /\ UNCHANGED <<client, heard>>
                   /\ Calm \/ \E t \in Trouble : Suffers(t)
           Good(k) == /\ ServerStep(k)
                      /\ "split" \notin happened' =>
                            server'.cum = 0 /\ Framed(toServer'[k]) /\ Framed(toClient'[k])
<1>1. ASSUME NEW k \in Client, Good(k) PROVE WholeInv'
  BY <1>1, ServerStaysWhole
<1>2. CASE Dies
  BY <1>2, DiesWhole
<1>3. CASE Accept
  <2>1. UNCHANGED <<client, toServer, toClient, happened>> /\ server'.cum = 0
    BY <1>3, AcceptDoes DEF wires, history
  <2> QED
    BY <2>1 DEF WholeInv
<1>4. CASE Crash
  BY <1>2, <1>4 DEF Crash, Trouble
<1>5. CASE ServerNext /\ ~Accept
  <2>1. PICK k \in Client : server.conn = k /\ server.at \notin {"accept", "dead"}
    <3>1. server.at \notin {"accept", "dead"}
      BY <1>5 DEF ServerNext, Command, CommandEnds, SendAck, SendAckFails, ServerRx,
         ServerRxCut, ServerTx, SendSummaryStats
    <3> QED
      BY <3>1, Served
  <2>2. ServerStep(k) /\ "split" \notin happened' =>
            server.cum = 0 /\ Framed(toServer[k]) /\ Framed(toClient[k])
    BY DEF ServerStep, WholeInv
  <2>3. CASE Command
    <3>1. PICK n \in 1..2 : /\ TakenFrom(k, n)
                            /\ server'.cum = IF server.cum + n < 2 THEN 1 ELSE 0
      BY <2>1, <2>3, CommandDoes
    <3>2. ServerStep(k)
      BY <2>1, <2>3, CommandDoes
    <3>3. "split" \notin happened' => n = 2 /\ Framed(toServer'[k])
      BY <2>2, <3>1, <3>2, TakenWhole
    <3> QED
      BY <1>1, <2>2, <3>1, <3>2, <3>3 DEF TakenFrom
  <2>4. CASE CommandEnds
    BY <1>1, <2>1, <2>2, <2>4, CommandEndsDoes, FramedEmpty DEF ClosedTo
  <2>5. CASE SendAck
    <3>1. UNCHANGED <<client, heard>> /\ Calm
      BY <2>5 DEF SendAck, history, Calm
    <3>2. CASE ServerDies
      BY <1>2, <3>1, <3>2
    <3>3. CASE ~ServerDies
      <4>1. ServerStep(k) /\ GivenTo(k, "ack") /\ server'.cum = 0
        BY <2>1, <2>5, <3>3, SendAckDoes
      <4>2. "split" \notin happened' => Framed(toServer'[k]) /\ Framed(toClient'[k])
        BY <2>2, <4>1, GivenWhole DEF Packet
      <4> QED
        BY <1>1, <4>1, <4>2
    <3> QED
      BY <3>2, <3>3
  <2>6. CASE SendAckFails
    BY <1>1, <2>1, <2>2, <2>6, SendAckFailsDoes DEF Still
  <2>7. CASE ServerRx
    <3>1. PICK n \in 1..2 : /\ TakenFrom(k, n)
                            /\ \/ server'.cum = 0
                               \/ server'.cum = IF server.cum + n < 2 THEN 1 ELSE 0
      BY <2>1, <2>7, ServerRxDoes
    <3>2. ServerStep(k)
      BY <2>1, <2>7, ServerRxDoes
    <3>3. "split" \notin happened' => n = 2 /\ Framed(toServer'[k])
      BY <2>2, <3>1, <3>2, TakenWhole
    <3> QED
      BY <1>1, <2>2, <3>1, <3>2, <3>3 DEF TakenFrom
  <2>8. CASE ServerRxCut
    BY <1>1, <2>1, <2>2, <2>8, ServerRxCutDoes, FramedEmpty DEF ClosedTo, Still
  <2>9. CASE ServerTx
    <3>1. UNCHANGED <<client, heard>> /\ Calm
      BY <2>9 DEF ServerTx, history, Calm
    <3>2. CASE ServerDies
      BY <1>2, <3>1, <3>2
    <3>3. CASE ~ServerDies
      <4>1. /\ ServerStep(k) /\ (GivenTo(k, "end") \/ GivenTo(k, "data"))
            /\ server'.cum = server.cum
        BY <2>1, <2>9, <3>3, ServerTxDoes
      <4>2. "split" \notin happened' => Framed(toServer'[k]) /\ Framed(toClient'[k])
        BY <2>2, <4>1, GivenWhole DEF Packet
      <4> QED
        BY <1>1, <2>2, <4>1, <4>2
    <3> QED
      BY <3>2, <3>3
  <2>10. CASE SendSummaryStats
    <3>1. UNCHANGED <<client, heard>> /\ Calm
      BY <2>10 DEF SendSummaryStats, history, Calm
    <3>2. CASE ServerDies
      BY <1>2, <3>1, <3>2
    <3>3. CASE ~ServerDies
      <4>1. ServerStep(k) /\ GivenTo(k, "stats") /\ server'.cum = server.cum
        BY <2>1, <2>10, <3>3, SendSummaryStatsDoes
      <4>2. "split" \notin happened' => Framed(toServer'[k]) /\ Framed(toClient'[k])
        BY <2>2, <4>1, GivenWhole DEF Packet
      <4> QED
        BY <1>1, <2>2, <4>1, <4>2
    <3> QED
      BY <3>2, <3>3
  <2> QED
    BY <1>5, <2>3, <2>4, <2>5, <2>6, <2>7, <2>8, <2>9, <2>10 DEF ServerNext
<1> QED
  BY <1>3, <1>4, <1>5

LEMMA ConnectDoes ==
    ASSUME TypeOK, ConnectionInv, NEW c \in Client, Connect(c)
    PROVE  /\ client[c].at = "idle" /\ server.conn # c
           /\ toServer[c] = <<>> /\ toClient[c] = <<>>
           /\ client' = [client EXCEPT ![c] = client'[c]]
           /\ client'[c] \in ClientState
           /\ client'[c].at \in {"send_download", "done"}
           /\ client'[c].cum = 0 \/ client'[c].cum = client[c].cum
           /\ client'[c].result = client[c].result /\ client'[c].got = client[c].got
           /\ client'[c].at = "done" => server.at = "dead" /\ ends' = ends
           /\ \A d \in Client : d # c => client'[d] = client[d] /\ ends'[d] = ends[d]
           /\ UNCHANGED <<server, toServer, toClient, history>>
<1>1. /\ client[c].at = "idle" /\ server.conn # c
      /\ toServer[c] = <<>> /\ toClient[c] = <<>>
      /\ UNCHANGED <<server, toServer, toClient, history>>
  BY DEF Connect, ConnectionInv
<1>2. client[c] \in ClientState /\ client \in [Client -> ClientState]
      /\ ends \in [Client -> SUBSET {"client", "server"}]
  BY TypedParts DEF TypeOK
<1>3. CASE server.at = "dead"
  <2>1. client' = [client EXCEPT ![c].at = "done"] /\ ends' = ends
    BY <1>3 DEF Connect
  <2>2. client' = [client EXCEPT ![c] = [client[c] EXCEPT !.at = "done"]]
    BY <1>2, <2>1
  <2>3. "done" \in ClientPlace
    BY DEF ClientPlace
  <2>4. client'[c] = [client[c] EXCEPT !.at = "done"]
    BY <1>2, <2>2
  <2>5. /\ client'[c] \in ClientState
        /\ client'[c].at = "done" /\ client'[c].cum = client[c].cum
        /\ client'[c].result = client[c].result /\ client'[c].got = client[c].got
    BY <1>2, <2>3, <2>4, PlacedClient
  <2>6. \A d \in Client : d # c => client'[d] = client[d]
    BY <1>2, <2>2
  <2>7. client' = [client EXCEPT ![c] = client'[c]]
    BY <1>2, <2>2, <2>4
  <2> QED
    BY <1>1, <1>3, <2>1, <2>5, <2>6, <2>7
<1>4. CASE server.at # "dead"
  <2>1. /\ client' = [client EXCEPT ![c] = Enter(c, "send_download")]
        /\ ends' = [ends EXCEPT ![c] = {"client", "server"}]
    BY <1>4 DEF Connect
  <2> QED
    BY <1>1, <1>2, <2>1, EnteredClient DEF ClientPlace
<1> QED
  BY <1>3, <1>4

LEMMA SpeedWholeStep ==
    TypeOK /\ ConnectionInv /\ WholeInv /\ [Next]_vars => WholeInv'
<1> SUFFICES ASSUME TypeOK, ConnectionInv, WholeInv, [Next]_vars PROVE WholeInv'
  OBVIOUS
<1>1. CASE UNCHANGED vars
  BY <1>1 DEF vars, wires, history, WholeInv
<1>2. ASSUME NEW c \in Client, Connect(c) PROVE WholeInv'
  <2>1. /\ UNCHANGED <<server, toServer, toClient, happened>>
        /\ client'[c].cum = 0 \/ client'[c].cum = client[c].cum
        /\ \A d \in Client : d # c => client'[d] = client[d]
    BY <1>2, ConnectDoes DEF history
  <2> QED
    BY <2>1 DEF WholeInv
<1> QED
  BY <1>1, <1>2, ClientNextWhole, ServerNextWhole DEF Next

LEMMA SpeedWhole == Spec => [](TypeOK /\ ConnectionInv /\ WholeInv)
<1>1. Init => WholeInv
  BY FramedEmpty DEF Init, WholeInv
<1>2. TypeOK /\ ConnectionInv /\ WholeInv /\ [Next]_vars => WholeInv'
  BY SpeedWholeStep
<1> QED
  BY <1>1, <1>2, SpeedConnected, PTL DEF Spec

-----------------------------------------------------------------------------
\* An answer on a wire.
LEMMA AnswerTyped ==
    ASSUME NEW i \in 0..MaxPkts
    PROVE  /\ Answer(i) \in {"ack", "data", "end"}
           /\ Answer(i) = "end" <=> i = MaxPkts
           /\ Answer(0) = "ack"
BY Sizes DEF Answer

LEMMA AnswerBegins == AnswerFrom(0, <<>>)
<1>1. 0 \in 0..MaxPkts /\ 0 = 2 * 0 /\ 0 <= 2 * MaxPkts /\ DOMAIN <<>> = {}
  BY Sizes
<1> QED
  BY <1>1 DEF AnswerFrom

\* The header at the front is that of the next packet of the answer, and what
\* is left when the packet is read is the rest of the answer.
LEMMA AnswerRead ==
    ASSUME NEW g \in Nat, NEW w \in Seq(Part), Framed(w), w # <<>>, AnswerFrom(g, w)
    PROVE  /\ g = 0 => w[1] = "ack"
           /\ w[1] = "end" => g = 2 * MaxPkts
           /\ w[1] # "end" => AnswerFrom(g + 2, After(2, w))
           /\ g + 2 + Len(After(2, w)) = g + Len(w)
<1>1. PICK j \in 0..MaxPkts : g = 2 * j
  BY DEF AnswerFrom
<1>2. /\ Len(w) >= 2 /\ Len(After(2, w)) = Len(w) - 2 /\ After(2, w) \in Seq(Part)
      /\ \A i \in 1..(Len(w) - 2) : After(2, w)[i] = w[i + 2]
      /\ DOMAIN w = 1..Len(w) /\ DOMAIN After(2, w) = 1..(Len(w) - 2)
  BY FramedAfter, AfterRead
<1>3. 2 * j + 1 - g = 1 /\ 1 \in DOMAIN w
  BY <1>1, <1>2
<1>4. w[1] = Answer(j)
  BY <1>3 DEF AnswerFrom
<1>5. (g = 0 => w[1] = "ack") /\ (w[1] = "end" => g = 2 * MaxPkts)
  BY <1>1, <1>4, AnswerTyped
<1>6. ASSUME w[1] # "end" PROVE AnswerFrom(g + 2, After(2, w))
  <2>1. j + 1 \in 0..MaxPkts /\ g + 2 = 2 * (j + 1)
    BY <1>1, <1>4, <1>6, AnswerTyped, Sizes
  <2>2. ASSUME NEW i \in 0..MaxPkts, 2 * i + 1 - (g + 2) \in DOMAIN After(2, w)
        PROVE  After(2, w)[2 * i + 1 - (g + 2)] = Answer(i)
    <3>1. PICK q \in 1..(Len(w) - 2) : q = 2 * i + 1 - (g + 2)
      BY <1>2, <2>2
    <3>2. q + 2 = 2 * i + 1 - g /\ q + 2 \in DOMAIN w
      BY <1>2, <3>1
    <3> QED
      BY <1>2, <3>1, <3>2 DEF AnswerFrom
  <2>3. g + 2 <= 2 * MaxPkts
    BY <2>1, Sizes
  <2> QED
    BY <2>1, <2>2, <2>3 DEF AnswerFrom
<1>7. g + 2 + Len(After(2, w)) = g + Len(w)
  <2>1. PICK m \in Nat : m = Len(w)
    OBVIOUS
  <2>2. Len(After(2, w)) = m - 2
    BY <1>2, <2>1
  <2> QED
    BY <2>1, <2>2
<1> QED
  BY <1>5, <1>6, <1>7

\* The server goes on with the answer, or the answer is complete.
LEMMA AnswerGrows ==
    ASSUME NEW g \in Nat, NEW w \in Seq(Part), AnswerFrom(g, w), NEW packet \in Packet,
           \/ g + Len(w) >= 2 * MaxPkts + 2
           \/ \E q \in 0..MaxPkts : g + Len(w) = 2 * q /\ packet = Answer(q)
    PROVE  AnswerFrom(g, With(w, packet))
<1> DEFINE v == With(w, packet)
<1>1. /\ v \in Seq(Part) /\ Len(v) = Len(w) + 2 /\ v[Len(w) + 1] = packet
      /\ \A i \in 1..Len(w) : v[i] = w[i]
  BY WithPacket
<1>2. DOMAIN v = 1..(Len(w) + 2) /\ DOMAIN w = 1..Len(w) /\ Len(w) \in Nat
  BY <1>1
<1> HIDE DEF v
<1>3. PICK j \in 0..MaxPkts : g = 2 * j
  BY DEF AnswerFrom
<1>4. ASSUME NEW i \in 0..MaxPkts, 2 * i + 1 - g \in DOMAIN v
      PROVE  v[2 * i + 1 - g] = Answer(i)
  <2>1. CASE 2 * i + 1 - g \in 1..Len(w)
    BY <1>1, <1>2, <2>1 DEF AnswerFrom
  <2>2. CASE 2 * i + 1 - g \notin 1..Len(w)
    <3>1. 2 * i + 1 - g = Len(w) + 1 \/ 2 * i + 1 - g = Len(w) + 2
      BY <1>2, <1>3, <1>4, <2>2
    <3>2. ~(g + Len(w) >= 2 * MaxPkts + 2)
      BY <1>2, <1>3, <3>1, Sizes
    <3>3. PICK q \in 0..MaxPkts : g + Len(w) = 2 * q /\ packet = Answer(q)
      BY <3>2
    <3>4. 2 * i + 1 - g = Len(w) + 1 /\ i = q
      BY <1>2, <1>3, <3>1, <3>3
    <3> QED
      BY <1>1, <3>3, <3>4
  <2> QED
    BY <2>1, <2>2
<1>5. AnswerFrom(g, v)
  BY <1>4 DEF AnswerFrom
<1> QED
  BY <1>5 DEF v

LEMMA AnotherDownload ==
    ASSUME NEW wire \in Seq(Part), \A i \in DOMAIN wire : wire[i] # "upload"
    PROVE  \A i \in DOMAIN With(wire, "download") : With(wire, "download")[i] # "upload"
<1>1. "download" \in Packet
  BY DEF Packet
<1>2. PICK w \in Seq(Part) : w = With(wire, "download")
  BY <1>1, WithPacket
<1>3. /\ Len(w) = Len(wire) + 2 /\ w[Len(wire) + 1] = "download"
      /\ w[Len(wire) + 2] = "rest" /\ \A i \in 1..Len(wire) : w[i] = wire[i]
  BY <1>1, <1>2, WithPacket
<1>4. /\ DOMAIN w = 1..(Len(wire) + 2) /\ DOMAIN wire = 1..Len(wire)
      /\ Len(wire) \in Nat
  BY <1>3
<1>5. \A i \in 1..(Len(wire) + 2) : w[i] # "upload"
  BY <1>3, <1>4
<1> QED
  BY <1>2, <1>4, <1>5

LEMMA GotTyped ==
    ASSUME TypeOK, NEW c \in Client
    PROVE  Got(c) \in Nat /\ Sent(c) \in Nat
BY TypedParts DEF Got, Sent

\* A connection that this step leaves alone.
LEMMA AnswerElsewhere ==
    ASSUME NEW c \in Client, AnswerInv(c),
           client'[c] = client[c], ends'[c] = ends[c],
           toServer'[c] = toServer[c], toClient'[c] = toClient[c],
           At(c)' = At(c), At(c) = "tx" => server'.count = server.count
    PROVE  AnswerInv(c)'
BY DEF AnswerInv, Downloads, Requested, AnswerFrom, Got, Sent

\* A client that no longer downloads keeps what it has counted.
LEMMA AnswerOver ==
    ASSUME NEW c \in Client, AnswerInv(c), ~Downloads(c)',
           client'[c].result = client[c].result, client'[c].got = client[c].got
    PROVE  AnswerInv(c)'
BY DEF AnswerInv

LEMMA AnswerOnWire ==
    ASSUME NEW c \in Client, AnswerInv(c), Downloads(c)
    PROVE  Requested(c) /\ AnswerFrom(Got(c), toClient[c])
BY DEF AnswerInv

\* The step by c keeps what is known of the answer to c.
LEMMA ClientNextAnswer ==
    ASSUME TypeOK, ConnectionInv, WholeInv, NEW c \in Client, AnswerInv(c),
           ClientNext(c) \/ Quit(c), "split" \notin happened'
    PROVE  AnswerInv(c)'
<1>1. ClientStep(c) /\ server' = server /\ ("server" \in ends'[c] <=> "server" \in ends[c])
  BY ClientNextStep DEF ClientStep
<1>2. client[c].cum = 0 /\ Framed(toServer[c]) /\ Framed(toClient[c])
  BY <1>1 DEF ClientStep, WholeInv
<1>3. At(c)' = At(c) /\ server' = server
  BY <1>1 DEF At
<1>4. CASE Ended(c) /\ client'[c].at = "exited"
  BY <1>2, <1>4, EndedWhole, AnswerOver DEF Downloads
<1>5. client[c] \in ClientState /\ toClient[c] \in Seq(Part) /\ toServer[c] \in Seq(Part)
  BY TypedParts
<1>6. CASE SendCtrlMsg(c)
  <2>1. CASE Ended(c) /\ client'[c].at = "exited"
    BY <1>4, <2>1
  <2>2. CASE ~(Ended(c) /\ client'[c].at = "exited")
    <3>1. /\ client'[c] = [client[c] EXCEPT !.at = WaitFor(client[c].at)]
          /\ SentTo(c, Request(client[c].at))
          /\ client[c].at \in {"send_download", "send_upload"}
      BY <1>6, <2>2, SendCtrlMsgDoes DEF SendCtrlMsg
    <3>2. /\ client'[c].at = WaitFor(client[c].at)
          /\ client'[c].result = client[c].result /\ client'[c].got = client[c].got
      BY <1>5, <3>1, PlacedClient DEF WaitFor, ClientPlace
    <3>3. CASE client[c].at = "send_upload"
      BY <3>2, <3>3, AnswerOver DEF WaitFor, Request, Downloads
    <3>4. CASE client[c].at = "send_download"
      <4>1. /\ Got(c) = 0 /\ Got(c)' = 0 /\ toClient'[c] = toClient[c] /\ ends'[c] = ends[c]
            /\ Sent(c)' = Sent(c) /\ Downloads(c) /\ client'[c].at = "wait_download"
        BY <3>1, <3>2, <3>4 DEF Got, Sent, Downloads, WaitFor, Request, SentTo
      <4>2. Requested(c)'
        <5>1. Requested(c)
          BY <4>1, AnswerOnWire
        <5>2. CASE toServer'[c] = toServer[c]
          BY <1>3, <5>1, <5>2 DEF Requested
        <5>3. CASE toServer'[c] = With(toServer[c], "download")
          BY <1>3, <1>5, <5>1, <5>3, AnotherDownload DEF Requested
        <5> QED
          BY <3>1, <3>4, <5>2, <5>3 DEF SentTo, Request
      <4> QED
        BY <1>3, <3>2, <4>1, <4>2 DEF AnswerInv, AnswerFrom
    <3> QED
      BY <3>1, <3>3, <3>4
  <2> QED
    BY <2>1, <2>2
<1>7. CASE CtrlMsgAnswer(c)
  <2>1. client[c].at \in {"wait_download", "wait_upload"}
    BY <1>7, CtrlMsgAnswerDoes
  <2>2. PICK n \in 1..2 :
          /\ ReadOff(c, n)
          /\ \E t \in Types(client[c], n, toClient[c]) :
                client'[c] =
                    IF t = "ack" THEN Enter(c, Answered(client[c].at))
                    ELSE [Filled(client[c], n, toClient[c]) EXCEPT
                                !.at = SendAgain(client[c].at), !.head = Unset]
    BY <1>7, CtrlMsgAnswerDoes
  <2>3. /\ n = 2 /\ toClient[c] # <<>>
        /\ Types(client[c], n, toClient[c]) = {toClient[c][1]}
        /\ toClient'[c] = After(2, toClient[c])
    BY <1>2, <2>2, ReadWhole
  <2>4. CASE client[c].at = "wait_download"
    <3>1. Downloads(c) /\ Got(c) = 0
      BY <2>4 DEF Downloads, Got
    <3>2. toClient[c][1] = "ack" /\ AnswerFrom(2, toClient'[c])
          /\ 2 + Len(toClient'[c]) = Len(toClient[c])
      <4>1. AnswerFrom(0, toClient[c]) /\ Len(toClient[c]) \in Nat
        BY <1>5, <3>1, AnswerOnWire
      <4>2. PICK w \in Seq(Part) : /\ w = toClient[c] /\ w # <<>> /\ Framed(w)
                                   /\ AnswerFrom(0, w)
        BY <1>2, <1>5, <2>3, <4>1
      <4>3. w[1] = "ack" /\ AnswerFrom(0 + 2, After(2, w))
        BY <4>2, AnswerRead
      <4>4. 2 + Len(After(2, w)) = Len(w)
        BY <4>2, FramedAfter
      <4> QED
        BY <2>3, <4>2, <4>3, <4>4
    <3>3. client'[c] = Enter(c, "rx")
      BY <2>2, <2>3, <2>4, <3>2 DEF Answered, Request
    <3>4. /\ client'[c].at = "rx" /\ client'[c].count = 0
          /\ client'[c].result = client[c].result /\ client'[c].got = client[c].got
      BY <3>3, EnteredClient DEF ClientPlace
    <3>5. Got(c)' = 2 /\ Sent(c)' = Sent(c)
      BY <3>1, <3>2, <3>4, TypedParts DEF Got, Sent
    <3>6. Requested(c)'
      BY <1>3, <2>2, <3>1, AnswerOnWire DEF Requested, ReadOff
    <3> QED
      BY <1>3, <2>2, <3>1, <3>2, <3>4, <3>5, <3>6 DEF AnswerInv, ReadOff
  <2>5. CASE client[c].at = "wait_upload"
    <3>1. Answered(client[c].at) = "tx" /\ SendAgain(client[c].at) = "send_upload"
      BY <2>5 DEF Answered, SendAgain, Request
    <3>2. client'[c].at \in {"tx", "send_upload"}
      BY <1>7, <3>1, CtrlMsgAnswerDoes
    <3>3. client'[c].result = client[c].result /\ client'[c].got = client[c].got
      <4>1. CASE client'[c] = Enter(c, "tx")
        BY <4>1, EnteredClient DEF ClientPlace
      <4>2. CASE client'[c] = [Filled(client[c], n, toClient[c]) EXCEPT
                                    !.at = "send_upload", !.head = Unset]
        <5>1. PICK f \in ClientState : /\ f = Filled(client[c], n, toClient[c])
                                       /\ f.result = client[c].result /\ f.got = client[c].got
          <6>1. PICK w \in Seq(Part) : w = toClient[c] /\ w # <<>>
            BY <1>5, <2>3
          <6>2. PICK b \in ClientState : b = client[c]
            BY <1>5
          <6>3. n \in Nat
            BY <2>3
          <6>4. /\ Filled(b, n, w) \in ClientState
                /\ Filled(b, n, w).result = b.result /\ Filled(b, n, w).got = b.got
            BY <6>1, <6>3, FilledClient
          <6> QED
            BY <6>1, <6>2, <6>4
        <5>2. "send_upload" \in ClientPlace
          BY DEF ClientPlace
        <5>3. LET r == [f EXCEPT !.at = "send_upload", !.head = Unset]
              IN  r.result = f.result /\ r.got = f.got
          BY <5>2, AgainClient
        <5> QED
          BY <4>2, <5>1, <5>3
      <4> QED
        BY <2>2, <3>1, <4>1, <4>2
    <3> QED
      BY <3>2, <3>3, AnswerOver DEF Downloads
  <2> QED
    BY <2>1, <2>4, <2>5
<1>8. CASE CtrlMsgError(c)
  <2>1. /\ client[c].at \in {"wait_download", "wait_upload"} /\ Quiet(c)
        /\ client'[c].at \in {SendAgain(client[c].at), Refused(client[c].at)}
        /\ client'[c].result = client[c].result /\ client'[c].got = client[c].got
    BY <1>8, CtrlMsgErrorDoes
  <2>2. CASE ~Downloads(c)'
    BY <2>1, <2>2, AnswerOver
  <2>3. CASE Downloads(c)'
    <3>1. client[c].at = "wait_download" /\ client'[c].at = "send_download"
      BY <2>1, <2>3 DEF Downloads, SendAgain, Refused, Request
    <3>2. Downloads(c) /\ Got(c)' = Got(c) /\ Sent(c)' = Sent(c)
      BY <2>1, <3>1 DEF Downloads, Got, Sent, Quiet
    <3> QED
      BY <1>3, <2>1, <3>2 DEF AnswerInv, Requested, AnswerFrom, Quiet
  <2> QED
    BY <2>2, <2>3
<1>9. CASE ExitOnClose(c)
  BY <1>4, <1>9, ExitOnCloseDoes
<1>10. CASE ClientRx(c)
  <2>1. client[c].at = "rx"
    BY <1>10, ClientRxDoes
  <2>2. PICK n \in 1..2 :
          /\ ReadOff(c, n)
          /\ \E t \in Types(client[c], n, toClient[c]) :
                /\ t = "end" =>
                    client'[c] = Downloaded(c, "end", client[c].count + n)
                /\ t # "end" =>
                    /\ client'[c].at = "rx" /\ client'[c].count = client[c].count + n
                    /\ client'[c].result = client[c].result
                    /\ client'[c].got = client[c].got
    BY <1>10, ClientRxDoes
  <2>3. /\ n = 2 /\ toClient[c] # <<>>
        /\ Types(client[c], n, toClient[c]) = {toClient[c][1]}
        /\ toClient'[c] = After(2, toClient[c])
    BY <1>2, <2>2, ReadWhole
  <2>4. Downloads(c) /\ Got(c) = client[c].count + 2 /\ client[c].count \in Nat
    BY <2>1, TypedParts DEF Downloads, Got
  <2>5. /\ toClient[c][1] = "end" => Got(c) = 2 * MaxPkts
        /\ toClient[c][1] # "end" => AnswerFrom(Got(c) + 2, toClient'[c])
        /\ Got(c) + 2 + Len(toClient'[c]) = Got(c) + Len(toClient[c])
    <3>1. AnswerFrom(Got(c), toClient[c]) /\ Got(c) \in Nat
      BY <2>4, AnswerOnWire, GotTyped
    <3> QED
      BY <1>2, <1>5, <2>3, <3>1, AnswerRead
  <2>6. CASE toClient[c][1] = "end"
    <3>1. client'[c] = Downloaded(c, "end", client[c].count + 2)
      BY <2>2, <2>3, <2>6
    <3>2. client[c].count + 2 = 2 * MaxPkts /\ client[c].count + 2 \in Nat
      BY <2>4, <2>5, <2>6
    <3>3. client'[c].at = "send_upload" /\ client'[c].got = 2 * MaxPkts
      BY <3>1, <3>2, DownloadedClient
    <3> QED
      BY <3>3 DEF AnswerInv, Downloads
  <2>7. CASE toClient[c][1] # "end"
    <3>1. /\ client'[c].at = "rx" /\ client'[c].count = client[c].count + 2
          /\ client'[c].result = client[c].result /\ client'[c].got = client[c].got
      BY <2>2, <2>3, <2>7
    <3>2. Got(c)' = Got(c) + 2 /\ Sent(c)' = Sent(c)
      BY <2>4, <2>5, <3>1 DEF Got, Sent
    <3>3. Requested(c)'
      BY <1>3, <2>2, <2>4, AnswerOnWire DEF Requested, ReadOff
    <3>4. AnswerFrom(Got(c)', toClient'[c])
      BY <2>5, <2>7, <3>2
    <3> QED
      BY <1>3, <2>2, <2>4, <3>1, <3>2, <3>3, <3>4 DEF AnswerInv, ReadOff
  <2> QED
    BY <2>6, <2>7
<1>11. CASE ClientRxCut(c)
  <2>1. client'[c] = Downloaded(c, "cut", client[c].count) /\ client[c].count \in Nat
    BY <1>11, ClientRxCutDoes, TypedParts
  <2>2. client'[c].at = "send_upload" /\ client'[c].result = "cut"
    BY <2>1, DownloadedClient
  <2> QED
    BY <2>2 DEF AnswerInv, Downloads
<1>12. CASE ClientTx(c)
  <2>1. CASE Ended(c) /\ client'[c].at = "exited"
    BY <1>4, <2>1
  <2>2. CASE ~(Ended(c) /\ client'[c].at = "exited")
    BY <1>12, <2>2, ClientTxDoes, AnswerOver DEF Downloads
  <2> QED
    BY <2>1, <2>2
<1>13. CASE ReceiveSummaryStats(c)
  BY <1>13, ReceiveSummaryStatsDoes, AnswerOver DEF Downloads
<1>14. CASE Quit(c)
  BY <1>4, <1>14, QuitDoes
<1> QED
  BY <1>6, <1>7, <1>8, <1>9, <1>10, <1>11, <1>12, <1>13, <1>14 DEF ClientNext

\* The server sends one more packet of the answer, or a packet after it.
LEMMA AnswerGiven ==
    ASSUME TypeOK, ConnectionInv, NEW k \in Client, server.conn = k, Downloads(k),
           AnswerInv(k), NEW packet \in Packet, ServerStep(k), GivenTo(k, packet),
           Requested(k)', client[k].at # "idle",
           "server" \in ends[k] /\ Sent(k) < 2 * MaxPkts + 2 =>
                \/ /\ \E q \in 0..MaxPkts : Sent(k) = 2 * q /\ packet = Answer(q)
                   /\ \/ At(k)' = "tx" /\ Sent(k) + 2 = 2 * server'.count + 2
                      \/ Sent(k) + 2 = 2 * MaxPkts + 2
    PROVE  AnswerInv(k)'
<1>1. client' = client /\ ends'[k] = ends[k] /\ Downloads(k)' /\ Got(k)' = Got(k)
  BY DEF ServerStep, GivenTo, Downloads, Got
<1>2. Got(k) \in Nat /\ toClient[k] \in Seq(Part) /\ AnswerFrom(Got(k), toClient[k])
      /\ Len(toClient[k]) \in Nat
  BY GotTyped, TypedParts, AnswerOnWire
<1>3. "client" \in ends[k] /\ ends[k] \subseteq {"client", "server"}
  BY TypedParts DEF Downloads, ConnectionInv
<1>4. CASE "server" \notin ends[k]
  <2>1. toClient'[k] = toClient[k]
    BY <1>4 DEF GivenTo
  <2> QED
    BY <1>1, <1>2, <1>4, <2>1 DEF AnswerInv
<1>5. CASE "server" \in ends[k]
  <2>1. toClient'[k] = With(toClient[k], packet)
    BY <1>3, <1>5 DEF GivenTo
  <2>2. Len(toClient'[k]) = Len(toClient[k]) + 2
    BY <1>2, <2>1, WithPacket
  <2>3. Sent(k) = Got(k) + Len(toClient[k]) /\ Sent(k)' = Sent(k) + 2
    BY <1>1, <1>2, <2>2 DEF Sent
  <2>4. AnswerFrom(Got(k), toClient'[k])
    <3>1. \/ Got(k) + Len(toClient[k]) >= 2 * MaxPkts + 2
          \/ \E q \in 0..MaxPkts :
                Got(k) + Len(toClient[k]) = 2 * q /\ packet = Answer(q)
      BY <1>2, <1>5, <2>3, Sizes
    <3> QED
      BY <1>2, <2>1, <3>1, AnswerGrows
  <2>5. AnswerFrom(Got(k)', toClient'[k])
    BY <1>1, <2>4
  <2>6. "server" \in ends'[k] /\ Sent(k)' < 2 * MaxPkts + 2 =>
            At(k)' = "tx" /\ Sent(k)' = 2 * server'.count + 2
    BY <1>2, <1>5, <2>3, Sizes
  <2>7. client'[k].result = "end" => client'[k].got = 2 * MaxPkts
    BY <1>1 DEF AnswerInv
  <2> QED
    BY <2>5, <2>6, <2>7 DEF AnswerInv
<1> QED
  BY <1>4, <1>5

\* The server leaves k's wire to it alone.
LEMMA AnswerStays ==
    ASSUME NEW k \in Client, AnswerInv(k), client' = client, toClient'[k] = toClient[k],
           Downloads(k) =>
                /\ Requested(k)'
                /\ "server" \in ends'[k] => "server" \in ends[k]
                /\ "server" \in ends'[k] =>
                        /\ At(k) \in {"command", "ack_download"}
                        /\ At(k)' \in {"command", "ack_download"}
    PROVE  AnswerInv(k)'
BY DEF AnswerInv, Downloads, Got, Sent, AnswerFrom

LEMMA ServedWhole ==
    ASSUME TypeOK, NEW k \in Client, Framed(toServer[k]), Downloads(k), AnswerInv(k),
           NEW n \in 1..2, TakenFrom(k, n), server.cum = 0, "split" \notin happened'
    PROVE  /\ \A t \in Types(server, n, toServer[k]) : t # "upload"
           /\ \A i \in DOMAIN toServer'[k] : toServer'[k][i] # "upload"
<1>1. /\ toServer[k] \in Seq(Part) /\ toServer[k] # <<>>
      /\ Types(server, n, toServer[k]) = {toServer[k][1]}
      /\ toServer'[k] = After(2, toServer[k])
  BY TakenWhole, TypedParts
<1>2. \A i \in DOMAIN toServer[k] : toServer[k][i] # "upload"
  BY AnswerOnWire DEF Requested
<1>3. 1 \in DOMAIN toServer[k]
  BY <1>1
<1>4. /\ Len(toServer[k]) >= 2 /\ Len(After(2, toServer[k])) = Len(toServer[k]) - 2
      /\ \A i \in 1..(Len(toServer[k]) - 2) : After(2, toServer[k])[i] = toServer[k][i + 2]
      /\ After(2, toServer[k]) \in Seq(Part)
  BY <1>1, FramedAfter, AfterRead
<1>5. ASSUME NEW i \in DOMAIN toServer'[k] PROVE toServer'[k][i] # "upload"
  <2>1. i \in 1..(Len(toServer[k]) - 2)
    BY <1>1, <1>4, <1>5
  <2>2. i + 2 \in DOMAIN toServer[k]
    BY <1>1, <1>4, <2>1
  <2> QED
    BY <1>1, <1>2, <1>4, <2>1, <2>2
<1> QED
  BY <1>1, <1>2, <1>3, <1>5

\* The server's program ends.
Dying == /\ ServerDies /\ UNCHANGED <<client, heard>>
         /\ Calm \/ \E t \in Trouble : Suffers(t)

LEMMA CrashDies == Crash => Dying
BY DEF Crash, Dying, Trouble

LEMMA SendsOrDies ==
    ASSUME SendAck \/ ServerTx \/ SendSummaryStats, ~Dying
    PROVE  ~ServerDies
BY DEF SendAck, ServerTx, SendSummaryStats, Dying, history, Calm

LEMMA DiesAnswer ==
    ASSUME TypeOK, Dying, NEW c \in Client, AnswerInv(c)
    PROVE  AnswerInv(c)'
<1>1. /\ server'.conn = None /\ client' = client /\ toClient' = toClient
      /\ toServer'[c] = <<>> /\ ends'[c] = ends[c] \ {"server"}
  BY DiesDoes DEF Dying
<1>2. At(c)' = "command"
  BY <1>1, ClientAssumption DEF At
<1>3. Requested(c)'
  BY <1>1, <1>2 DEF Requested
<1> QED
  BY <1>1, <1>3, AnswerStays

\* The step of the server keeps what is known of the answer to whom it serves.
LEMMA ServerNextAnswer ==
    ASSUME TypeOK, ConnectionInv, WholeInv, ServerNext, ~Accept, ~Dying,
           NEW k \in Client, server.conn = k, AnswerInv(k), "split" \notin happened'
    PROVE  AnswerInv(k)'
<1>1. server.at \notin {"accept", "dead"}
  BY DEF ServerNext, Command, CommandEnds, SendAck, SendAckFails, ServerRx,
     ServerRxCut, ServerTx, SendSummaryStats
<1>2. /\ client[k].at # "idle" /\ server.count \in Nat /\ At(k) = server.at
      /\ None # k
  BY <1>1, Served, ClientAssumption DEF At
<1>3. ASSUME ServerStep(k)
      PROVE  /\ server.cum = 0 /\ Framed(toServer[k]) /\ Framed(toClient[k])
             /\ client' = client
  BY <1>3 DEF ServerStep, WholeInv
<1>4. Downloads(k) => /\ "client" \in ends[k]
                      /\ server.at \in {"command", "ack_download", "tx"}
                      /\ \A i \in DOMAIN toServer[k] : toServer[k][i] # "upload"
  BY <1>2, AnswerOnWire DEF Downloads, ConnectionInv, Requested
<1>5. CASE Command
  <2>1. /\ server.at = "command" /\ ServerStep(k) /\ server'.conn = k
    BY <1>5, CommandDoes
  <2>2. PICK n \in 1..2 :
          /\ TakenFrom(k, n)
          /\ \E t \in Types(server, n, toServer[k]) :
                server'.at = CASE t = "upload" -> "ack_upload"
                                [] t = "download" -> "ack_download"
                                [] OTHER -> "command"
    BY <1>5, CommandDoes
  <2>3. ASSUME Downloads(k) PROVE Requested(k)' /\ At(k)' \in {"command", "ack_download"}
    <3>1. /\ \A t \in Types(server, n, toServer[k]) : t # "upload"
          /\ \A i \in DOMAIN toServer'[k] : toServer'[k][i] # "upload"
      BY <1>3, <2>1, <2>2, <2>3, ServedWhole
    <3>2. server'.at \in {"command", "ack_download"}
      BY <2>2, <3>1
    <3> QED
      BY <2>1, <3>1, <3>2 DEF Requested, At
  <2> QED
    BY <1>2, <1>3, <2>1, <2>2, <2>3, AnswerStays DEF TakenFrom
<1>6. CASE CommandEnds
  <2>1. /\ ServerStep(k) /\ ClosedTo(k) /\ server'.conn = None
    BY <1>6, CommandEndsDoes
  <2>2. At(k)' = "command"
    BY <1>2, <2>1 DEF At
  <2>3. Requested(k)'
    BY <2>1, <2>2 DEF Requested, ClosedTo
  <2> QED
    BY <1>3, <2>1, <2>3, AnswerStays DEF ClosedTo
<1>7. CASE SendAck
  <2>1. /\ ServerStep(k) /\ GivenTo(k, "ack")
        /\ server.at \in {"ack_upload", "ack_download"}
        /\ server'.at = IF server.at = "ack_upload" THEN "rx" ELSE "tx"
        /\ server'.conn = k /\ server'.count = 0
    BY <1>7, SendAckDoes, SendsOrDies
  <2>2. CASE ~Downloads(k)
    BY <1>3, <2>1, <2>2, AnswerOver DEF Downloads
  <2>3. CASE Downloads(k)
    <3>1. server.at = "ack_download" /\ At(k)' = "tx"
      BY <1>4, <2>1, <2>3 DEF At
    <3>2. Requested(k)'
      BY <1>4, <2>1, <2>3, <3>1 DEF Requested, GivenTo
    <3>3. "server" \in ends[k] /\ Sent(k) < 2 * MaxPkts + 2 => Sent(k) = 0
      BY <1>2, <2>3, <3>1 DEF AnswerInv
    <3>4. 0 \in 0..MaxPkts /\ 0 = 2 * 0 /\ Answer(0) = "ack"
          /\ 0 + 2 = 2 * 0 + 2
      BY Sizes, AnswerTyped
    <3>5. "server" \in ends[k] /\ Sent(k) < 2 * MaxPkts + 2 =>
             /\ \E q \in 0..MaxPkts : Sent(k) = 2 * q /\ "ack" = Answer(q)
             /\ At(k)' = "tx" /\ Sent(k) + 2 = 2 * server'.count + 2
      BY <2>1, <3>1, <3>3, <3>4
    <3>6. "ack" \in Packet
      BY DEF Packet
    <3> QED
      BY <1>2, <2>1, <2>3, <3>2, <3>5, <3>6, AnswerGiven
  <2> QED
    BY <2>2, <2>3
<1>8. CASE SendAckFails
  <2>1. ServerStep(k) /\ "client" \notin ends[k]
    BY <1>8, SendAckFailsDoes
  <2> QED
    BY <1>3, <1>4, <2>1, AnswerOver DEF Downloads
<1>9. CASE ServerRx
  <2>1. ServerStep(k) /\ server.at = "rx"
    BY <1>9, ServerRxDoes
  <2> QED
    BY <1>3, <1>4, <2>1, AnswerOver DEF Downloads
<1>10. CASE ServerRxCut
  <2>1. ServerStep(k) /\ server.at = "rx"
    BY <1>10, ServerRxCutDoes
  <2> QED
    BY <1>3, <1>4, <2>1, AnswerOver DEF Downloads
<1>11. CASE ServerTx
  <2>1. /\ ServerStep(k) /\ server'.conn = k /\ server.at = "tx"
        /\ IF server.count + 1 = MaxPkts
           THEN GivenTo(k, "end") /\ server'.at = "command"
           ELSE /\ GivenTo(k, "data") /\ server'.at = "tx"
                /\ server'.count = server.count + 1
    BY <1>11, ServerTxDoes, SendsOrDies
  <2>2. CASE ~Downloads(k)
    BY <1>3, <2>1, <2>2, AnswerOver DEF Downloads
  <2>3. CASE Downloads(k)
    <3>1. "server" \in ends[k] /\ Sent(k) < 2 * MaxPkts + 2 =>
                Sent(k) = 2 * server.count + 2
      BY <1>2, <2>1, <2>3, GotTyped DEF AnswerInv
    <3>2. server.count + 1 \in 0..MaxPkts /\ server.count + 1 # 0
      BY <1>2, <2>1, Sizes DEF ConnectionInv
    <3>3. PICK q \in 0..MaxPkts : q = server.count + 1
      BY <3>2
    <3>4. "server" \in ends[k] /\ Sent(k) < 2 * MaxPkts + 2 => Sent(k) = 2 * q
      BY <1>2, <3>1, <3>3
    <3>5. CASE q = MaxPkts
      <4>1. GivenTo(k, "end") /\ At(k)' = "command"
        BY <2>1, <3>3, <3>5 DEF At
      <4>2. Requested(k)'
        BY <1>4, <2>3, <4>1 DEF Requested, GivenTo
      <4>3. Answer(q) = "end" /\ "end" \in Packet
        BY <3>5, AnswerTyped DEF Packet
      <4>4. "server" \in ends[k] /\ Sent(k) < 2 * MaxPkts + 2 =>
                Sent(k) + 2 = 2 * MaxPkts + 2
        BY <3>4, <3>5
      <4> QED
        BY <1>2, <2>1, <2>3, <3>4, <4>1, <4>2, <4>3, <4>4, AnswerGiven
    <3>6. CASE q # MaxPkts
      <4>1. GivenTo(k, "data") /\ At(k)' = "tx" /\ server'.count = q
        BY <2>1, <3>3, <3>6 DEF At
      <4>2. Requested(k)'
        BY <1>4, <2>3, <4>1 DEF Requested, GivenTo
      <4>3. Answer(q) = "data" /\ "data" \in Packet
        BY <3>2, <3>3, <3>6 DEF Packet, Answer
      <4>4. "server" \in ends[k] /\ Sent(k) < 2 * MaxPkts + 2 =>
                At(k)' = "tx" /\ Sent(k) + 2 = 2 * server'.count + 2
        BY <3>4, <4>1
      <4> QED
        BY <1>2, <2>1, <2>3, <3>4, <4>1, <4>2, <4>3, <4>4, AnswerGiven
    <3> QED
      BY <3>5, <3>6
  <2> QED
    BY <2>2, <2>3
<1>12. CASE SendSummaryStats
  <2>1. ServerStep(k) /\ server.at = "stats"
    BY <1>12, SendSummaryStatsDoes, SendsOrDies
  <2> QED
    BY <1>3, <1>4, <2>1, AnswerOver DEF Downloads
<1> QED
  BY <1>5, <1>6, <1>7, <1>8, <1>9, <1>10, <1>11, <1>12 DEF ServerNext

\* Whoever the step of the server is not about.
LEMMA ServerNextOthers ==
    ASSUME TypeOK, ConnectionInv, ServerNext, ~Accept, ~Dying
    PROVE  \E k \in Client :
            /\ server.conn = k /\ ServerStep(k)
            /\ server'.conn = k \/ server'.conn = None
<1>1. PICK k \in Client : server.conn = k
  <2>1. server.at \notin {"accept", "dead"}
    BY DEF ServerNext, Command, CommandEnds, SendAck, SendAckFails, ServerRx,
       ServerRxCut, ServerTx, SendSummaryStats
  <2> QED
    BY <2>1, Served
<1>2. CASE Command
  BY <1>1, <1>2, CommandDoes
<1>3. CASE CommandEnds
  BY <1>1, <1>3, CommandEndsDoes
<1>4. CASE SendAck
  BY <1>1, <1>4, SendAckDoes, SendsOrDies
<1>5. CASE SendAckFails
  BY <1>1, <1>5, SendAckFailsDoes
<1>6. CASE ServerRx
  BY <1>1, <1>6, ServerRxDoes
<1>7. CASE ServerRxCut
  BY <1>1, <1>7, ServerRxCutDoes
<1>8. CASE ServerTx
  BY <1>1, <1>8, ServerTxDoes, SendsOrDies
<1>9. CASE SendSummaryStats
  BY <1>1, <1>9, SendSummaryStatsDoes, SendsOrDies
<1> QED
  BY <1>2, <1>3, <1>4, <1>5, <1>6, <1>7, <1>8, <1>9 DEF ServerNext

LEMMA SpeedAnswerStep ==
    TypeOK /\ ConnectionInv /\ WholeInv /\ DownloadInv /\ [Next]_vars => DownloadInv'
<1> SUFFICES ASSUME TypeOK, ConnectionInv, WholeInv, DownloadInv, [Next]_vars,
                    "split" \notin happened', NEW d \in Client
             PROVE  AnswerInv(d)'
  BY DEF DownloadInv
<1>1. CASE UNCHANGED vars
  <2>1. AnswerInv(d)
    BY <1>1 DEF DownloadInv, vars, history
  <2> QED
    BY <1>1, <2>1, AnswerElsewhere DEF vars, wires, At
<1>2. ASSUME NEW c \in Client, Connect(c) PROVE AnswerInv(d)'
  <2>1. /\ client[c].at = "idle" /\ server.conn # c
        /\ toServer[c] = <<>> /\ toClient[c] = <<>>
        /\ client'[c].at \in {"send_download", "done"}
        /\ client'[c].result = client[c].result /\ client'[c].got = client[c].got
        /\ \A e \in Client : e # c => client'[e] = client[e] /\ ends'[e] = ends[e]
        /\ UNCHANGED <<server, toServer, toClient, happened>>
    BY <1>2, ConnectDoes DEF history
  <2>2. AnswerInv(d)
    BY <2>1 DEF DownloadInv
  <2>3. CASE d # c
    BY <2>1, <2>2, <2>3, AnswerElsewhere DEF At
  <2>4. CASE d = c
    <3>1. At(c)' = "command" /\ Got(c)' = 0 /\ toServer'[c] = <<>> /\ toClient'[c] = <<>>
      BY <2>1 DEF At, Got
    <3>2. Sent(c)' = 0
      BY <3>1 DEF Sent
    <3>3. Requested(c)' /\ AnswerFrom(Got(c)', toClient'[c])
      BY <3>1, AnswerBegins DEF Requested
    <3> QED
      BY <2>1, <2>2, <2>4, <3>1, <3>2, <3>3 DEF AnswerInv
  <2> QED
    BY <2>3, <2>4
<1>3. ASSUME NEW c \in Client, ClientNext(c) \/ Quit(c) PROVE AnswerInv(d)'
  <2>1. ClientStep(c)
    BY <1>3, ClientNextStep
  <2>2. AnswerInv(d) /\ server' = server
    BY <2>1 DEF DownloadInv, ClientStep
  <2>3. CASE d # c
    BY <2>1, <2>2, <2>3, OthersStay, AnswerElsewhere DEF At
  <2>4. CASE d = c
    BY <1>3, <2>2, <2>4, ClientNextAnswer
  <2> QED
    BY <2>3, <2>4
<1>4. CASE Accept
  <2>1. /\ UNCHANGED <<client, toServer, toClient, ends, happened>>
        /\ server.conn = None /\ server'.at = "command"
    BY <1>4, AcceptDoes DEF wires, history
  <2>2. At(d) = "command" /\ At(d)' = "command"
    BY <2>1, ClientAssumption DEF At
  <2>3. AnswerInv(d)
    BY <2>1 DEF DownloadInv
  <2> QED
    BY <2>1, <2>2, <2>3, AnswerElsewhere
<1>5. CASE Dying
  <2>1. AnswerInv(d)
    BY <1>5, DiesDoes DEF DownloadInv, Dying
  <2> QED
    BY <1>5, <2>1, DiesAnswer
<1>6. CASE ServerNext /\ ~Accept /\ ~Dying
  <2>1. PICK k \in Client : /\ server.conn = k /\ ServerStep(k)
                            /\ server'.conn = k \/ server'.conn = None
    BY <1>6, ServerNextOthers
  <2>2. AnswerInv(d) /\ client' = client /\ k # None /\ d # None
    BY <2>1, ClientAssumption DEF DownloadInv, ServerStep
  <2>3. CASE d # k
    <3>1. At(d) = "command" /\ At(d)' = "command"
      BY <2>1, <2>2, <2>3 DEF At
    <3> QED
      BY <2>1, <2>2, <2>3, <3>1, OthersWait, AnswerElsewhere
  <2>4. CASE d = k
    BY <1>6, <2>1, <2>2, <2>4, ServerNextAnswer
  <2> QED
    BY <2>3, <2>4
<1> QED
  BY <1>1, <1>2, <1>3, <1>4, <1>5, <1>6, CrashDies DEF Next

LEMMA SpeedDownloadInit == Init => DownloadInv
<1> SUFFICES ASSUME Init, NEW c \in Client PROVE AnswerInv(c)
  BY DEF DownloadInv
<1>1. /\ client[c].at = "idle" /\ client[c].result = "none"
      /\ toServer[c] = <<>> /\ toClient[c] = <<>> /\ ends[c] = {} /\ At(c) = "command"
  BY ClientAssumption DEF Init, At
<1>2. Requested(c) /\ Got(c) = 0 /\ AnswerFrom(Got(c), toClient[c])
  BY <1>1, AnswerBegins DEF Requested, Got
<1> QED
  BY <1>1, <1>2 DEF AnswerInv

\* A download that ends with T_END has counted every packet of the test,
\* whoever is killed, restarted or late meanwhile, as long as no recv returns
\* a part of a packet: run_rx_test then reads exactly what run_tx_test sent.
THEOREM SpeedDownloadWhole == Spec => []DownloadWhole
<1>1. Init => DownloadInv
  BY SpeedDownloadInit
<1>2. TypeOK /\ ConnectionInv /\ WholeInv /\ DownloadInv /\ [Next]_vars => DownloadInv'
  BY SpeedAnswerStep
<1>3. DownloadInv => DownloadWhole
  BY DEF DownloadInv, AnswerInv, DownloadWhole
<1> QED
  BY <1>1, <1>2, <1>3, SpeedWhole, PTL DEF Spec

-----------------------------------------------------------------------------
\* Wires that carry requests, data or nothing.
LEMMA OnePacket ==
    ASSUME NEW packet \in Packet
    PROVE  /\ With(<<>>, packet) = <<packet, "rest">>
           /\ <<packet, "rest">> \in Seq(Part) /\ Len(<<packet, "rest">>) = 2
           /\ After(2, <<packet, "rest">>) = <<>>
           /\ <<packet, "rest">> # <<>>
           /\ <<packet, "rest">>[1] = packet
<1>1. packet \in Part /\ "rest" \in Part
  BY DEF Part
<1>2. With(<<>>, packet) = <<packet, "rest">>
  BY DEF With
<1>3. PICK w \in Seq(Part) : /\ w = <<packet, "rest">> /\ Len(w) = 2 /\ w[1] = packet
                             /\ w # <<>>
  <2>1. <<packet, "rest">> \in Seq(Part)
    BY <1>1
  <2>2. Len(<<packet, "rest">>) = 2 /\ <<packet, "rest">>[1] = packet /\ Len(<<>>) = 0
    OBVIOUS
  <2>3. <<packet, "rest">> # <<>>
    BY <2>2
  <2> QED
    BY <2>1, <2>2, <2>3
<1>4. After(2, w) \in Seq(Part) /\ Len(After(2, w)) = 0
  <2>1. 2 \in Nat /\ 2 <= Len(w) /\ Len(w) - 2 = 0
    BY <1>3
  <2> QED
    BY <2>1, AfterRead
<1> QED
  BY <1>2, <1>3, <1>4

LEMMA LastPacket ==
    ASSUME NEW wire \in Seq(Part), Len(wire) = 2
    PROVE  After(2, wire) = <<>>
<1>1. After(2, wire) \in Seq(Part) /\ Len(After(2, wire)) = 0
  <2>1. 2 \in Nat /\ 2 <= Len(wire) /\ Len(wire) - 2 = 0
    OBVIOUS
  <2> QED
    BY <2>1, AfterRead
<1> QED
  BY <1>1

LEMMA QuietWire ==
    /\ NoRequest(<<>>) /\ OnlyData(<<>>)
    /\ \A wire \in Seq(Part) : OnlyData(wire) => NoRequest(wire)
BY DEF NoRequest, OnlyData

LEMMA QuietAfter ==
    ASSUME NEW wire \in Seq(Part), Len(wire) >= 2
    PROVE  /\ NoRequest(wire) => NoRequest(After(2, wire))
           /\ OnlyData(wire) => OnlyData(After(2, wire))
<1>1. PICK w \in Seq(Part) :
        /\ w = After(2, wire) /\ Len(w) = Len(wire) - 2
        /\ \A i \in 1..(Len(wire) - 2) : w[i] = wire[i + 2]
  BY AfterRead
<1>2. \A i \in DOMAIN w : i + 2 \in DOMAIN wire /\ w[i] = wire[i + 2]
  BY <1>1
<1>3. /\ NoRequest(wire) => NoRequest(w)
      /\ OnlyData(wire) => OnlyData(w)
  BY <1>2 DEF NoRequest, OnlyData
<1> QED
  BY <1>1, <1>3

LEMMA DataSent ==
    ASSUME NEW wire \in Seq(Part), OnlyData(wire)
    PROVE  OnlyData(With(wire, "data")) /\ NoRequest(With(wire, "end"))
<1>1. "data" \in Packet /\ "end" \in Packet
  BY DEF Packet
<1>2. ASSUME NEW packet \in Packet, NEW i \in DOMAIN With(wire, packet)
      PROVE  \/ i \in DOMAIN wire /\ With(wire, packet)[i] = wire[i]
             \/ With(wire, packet)[i] \in {packet, "rest"}
  <2>1. PICK w \in Seq(Part) : w = With(wire, packet)
    BY WithPacket
  <2>2. /\ Len(w) = Len(wire) + 2 /\ w[Len(wire) + 1] = packet
        /\ w[Len(wire) + 2] = "rest" /\ \A j \in 1..Len(wire) : w[j] = wire[j]
    BY <2>1, WithPacket
  <2>3. i \in 1..(Len(wire) + 2) /\ DOMAIN wire = 1..Len(wire) /\ Len(wire) \in Nat
    BY <1>2, <2>1, <2>2
  <2> QED
    BY <2>1, <2>2, <2>3
<1>3. OnlyData(With(wire, "data"))
  BY <1>1, <1>2 DEF OnlyData
<1>4. NoRequest(With(wire, "end"))
  BY <1>1, <1>2 DEF OnlyData, NoRequest
<1> QED
  BY <1>3, <1>4

LEMMA InOrderGrows ==
    ASSUME happened \subseteq happened', InOrder'
    PROVE  /\ InOrder /\ "slow" \notin happened' /\ "split" \notin happened'
           /\ "slow" \notin happened /\ "split" \notin happened
BY DEF InOrder

\* Who has an end open, by where the client is.
LEMMA EndsOf ==
    ASSUME TypeOK, ConnectionInv, NEW c \in Client, Live(c), client[c].at # "exited"
    PROVE  ends[c] = {"client", "server"} /\ client[c].at # "idle" /\ server.at # "dead"
BY TypedParts DEF ConnectionInv, Live

\* A conversation this step is not about.
LEMMA ConversationKept ==
    ASSUME NEW c \in Client, Conversation(c),
           client'[c] = client[c], toServer'[c] = toServer[c], toClient'[c] = toClient[c],
           heard[c] \subseteq heard'[c], Live(c)' => Live(c),
           At(c)' = At(c), Text(c)' = Text(c), At(c) = "tx" => server'.count = server.count
    PROVE  Conversation(c)'
<1>1. Sent(c)' = Sent(c) /\ (Downloads(c)' = Downloads(c))
  BY DEF Sent, Got, Downloads
<1>2. Downloading(c) => Downloading(c)'
  BY <1>1 DEF Downloading
<1>3. Uploading(c) => Uploading(c)'
  BY <1>1 DEF Uploading
<1>4. Through(c) => Through(c)'
  BY <1>1 DEF Through
<1> QED
  BY <1>1, <1>2, <1>3, <1>4 DEF Conversation

\* A conversation whose server has gone.
LEMMA ConversationOver ==
    ASSUME NEW c \in Client, Conversation(c), client'[c] = client[c],
           toClient'[c] = toClient[c], heard[c] \subseteq heard'[c], ~Live(c)'
    PROVE  Conversation(c)'
<1>1. Sent(c)' = Sent(c) /\ (Downloads(c)' = Downloads(c))
  BY DEF Sent, Got, Downloads
<1> QED
  BY <1>1 DEF Conversation, Downloading, Uploading, Through

\* The places a client may be in, by the part of the conversation.
LEMMA Places ==
    ASSUME NEW c \in Client, client[c].at \in ClientPlace
    PROVE  \/ Downloads(c)
           \/ client[c].at \in {"send_upload", "wait_upload", "tx"}
           \/ client[c].at \in {"stats", "done", "exited"}
BY DEF ClientPlace, Downloads

LEMMA ClientLives ==
    ASSUME TypeOK, ConnectionInv, NEW c \in Client, ClientStep(c), NEW d \in Client
    PROVE  Live(d)' <=> Live(d)
<1>1. server' = server /\ ("server" \in ends'[c] <=> "server" \in ends[c])
  BY DEF ClientStep
<1>2. \A e \in Client : "server" \in ends'[e] <=> "server" \in ends[e]
  BY <1>1, OthersStay
<1>3. Spins' <=> Spins
  <2>1. CASE server.at = "command"
    <3>1. PICK k \in Client : server.conn = k
      BY <2>1, Served
    <3> QED
      BY <1>1, <1>2, <3>1 DEF Spins
  <2>2. CASE server.at # "command"
    BY <1>1, <2>2 DEF Spins
  <2> QED
    BY <2>1, <2>2
<1> QED
  BY <1>2, <1>3 DEF Live

LEMMA EndedConversation ==
    ASSUME TypeOK, ConnectionInv, NEW c \in Client, ClientStep(c), Conversation(c),
           Ended(c), client'[c].at = "exited"
    PROVE  Conversation(c)'
<1>1. /\ server' = server /\ toServer'[c] = toServer[c] /\ (Live(c)' <=> Live(c))
  BY ClientLives DEF ClientStep, Ended
<1>2. At(c)' = At(c) /\ Text(c)' = Text(c) /\ toServer[c] \in Seq(Part)
      /\ client[c].at \in ClientPlace
  BY <1>1, TypedParts DEF At, Text
<1>3. ASSUME Live(c) PROVE Through(c)'
  <2>1. CASE Downloads(c)
    BY <1>1, <1>2, <1>3, <2>1, QuietWire DEF Conversation, Downloading, Through
  <2>2. CASE client[c].at \in {"send_upload", "wait_upload", "tx"}
    BY <1>1, <1>2, <1>3, <2>2, QuietWire DEF Conversation, Uploading, Through
  <2>3. CASE client[c].at \in {"stats", "done", "exited"}
    BY <1>1, <1>2, <1>3, <2>3 DEF Conversation, Through
  <2> QED
    BY <1>2, <2>1, <2>2, <2>3, Places
<1> QED
  BY <1>1, <1>3 DEF Conversation, Through, Downloads

\* The step by c keeps its conversation in order.
LEMMA ClientNextConversation ==
    ASSUME TypeOK, ConnectionInv, WholeInv, DownloadInv, NEW c \in Client,
           Conversation(c), ClientNext(c) \/ Quit(c), InOrder'
    PROVE  Conversation(c)'
<1>1. /\ ClientStep(c) /\ server' = server /\ heard' = heard
      /\ happened \subseteq happened' /\ (Live(c)' <=> Live(c))
  BY ClientNextStep, ClientLives DEF ClientStep
<1>2. "slow" \notin happened' /\ "split" \notin happened' /\ "split" \notin happened
  BY <1>1, InOrderGrows
<1>3. /\ client[c].cum = 0 /\ Framed(toServer[c]) /\ Framed(toClient[c]) /\ AnswerInv(c)
  BY <1>2 DEF WholeInv, DownloadInv
<1>4. /\ At(c)' = At(c) /\ Text(c)' = Text(c) /\ server'.count = server.count
  BY <1>1 DEF At, Text
<1>5. /\ client[c] \in ClientState /\ toClient[c] \in Seq(Part) /\ toServer[c] \in Seq(Part)
      /\ Len(toClient[c]) \in Nat /\ client[c].count \in Nat
  BY TypedParts
<1>6. /\ "download" \in Packet /\ "upload" \in Packet /\ "data" \in Packet
      /\ "end" \in Packet /\ "ack" \in Packet
  BY DEF Packet
<1>7. CASE Ended(c) /\ client'[c].at = "exited"
  BY <1>1, <1>7, EndedConversation
<1>8. CASE SendCtrlMsg(c) /\ ~(Ended(c) /\ client'[c].at = "exited")
  <2>1. /\ client'[c] = [client[c] EXCEPT !.at = WaitFor(client[c].at)]
        /\ SentTo(c, Request(client[c].at))
        /\ client[c].at \in {"send_download", "send_upload"}
    BY <1>8, SendCtrlMsgDoes DEF SendCtrlMsg
  <2>2. client'[c].at = WaitFor(client[c].at)
    BY <1>5, <2>1, PlacedClient DEF WaitFor, ClientPlace
  <2>3. Live(c) => ends[c] = {"client", "server"}
    BY <2>1, EndsOf
  <2>4. CASE client[c].at = "send_download"
    <3>1. /\ client'[c].at = "wait_download" /\ SentTo(c, "download")
          /\ Downloading(c) /\ Got(c) = 0 /\ Got(c)' = 0
      BY <2>1, <2>2, <2>4 DEF WaitFor, Request, Conversation, Downloads, Got
    <3>2. toClient'[c] = toClient[c] /\ Sent(c) = 0 /\ Sent(c)' = 0
      BY <2>4, <3>1 DEF Downloading, Sent, SentTo
    <3>3. Live(c) => /\ toServer'[c] = <<"download", "rest">> /\ At(c) = "command"
                     /\ Text(c) = "null"
      <4>1. SUFFICES ASSUME Live(c)
                     PROVE  /\ toServer'[c] = <<"download", "rest">>
                            /\ At(c) = "command" /\ Text(c) = "null"
        OBVIOUS
      <4>2. toServer[c] = <<>> /\ At(c) = "command" /\ Text(c) = "null"
        BY <2>4, <3>1, <4>1 DEF Downloading
      <4>3. toServer'[c] = With(toServer[c], "download")
        BY <2>3, <3>1, <4>1 DEF SentTo
      <4>4. With(<<>>, "download") = <<"download", "rest">>
        BY <1>6, OnePacket
      <4> QED
        BY <4>2, <4>3, <4>4
    <3>4. Downloading(c)'
      BY <1>1, <1>4, <3>1, <3>2, <3>3, Sizes DEF Downloading
    <3> QED
      BY <3>1, <3>4 DEF Conversation
  <2>5. CASE client[c].at = "send_upload"
    <3>1. /\ client'[c].at = "wait_upload" /\ SentTo(c, "upload") /\ Uploading(c)
      BY <2>1, <2>2, <2>5 DEF WaitFor, Request, Conversation
    <3>2. toClient'[c] = <<>>
      BY <2>5, <3>1 DEF Uploading, SentTo
    <3>3. Live(c) => /\ toServer'[c] = <<"upload", "rest">> /\ At(c) = "command"
                     /\ Text(c) = "null"
      <4>1. SUFFICES ASSUME Live(c)
                     PROVE  /\ toServer'[c] = <<"upload", "rest">>
                            /\ At(c) = "command" /\ Text(c) = "null"
        OBVIOUS
      <4>2. toServer[c] = <<>> /\ At(c) = "command" /\ Text(c) = "null"
        BY <2>5, <3>1, <4>1 DEF Uploading
      <4>3. toServer'[c] = With(toServer[c], "upload")
        BY <2>3, <3>1, <4>1 DEF SentTo
      <4>4. With(<<>>, "upload") = <<"upload", "rest">>
        BY <1>6, OnePacket
      <4> QED
        BY <4>2, <4>3, <4>4
    <3>4. Uploading(c)'
      BY <1>1, <1>4, <3>1, <3>2, <3>3 DEF Uploading
    <3> QED
      BY <3>1, <3>4 DEF Conversation, Downloads
  <2> QED
    BY <2>1, <2>4, <2>5
<1>9. CASE CtrlMsgAnswer(c)
  <2>1. client[c].at \in {"wait_download", "wait_upload"}
    BY <1>9, CtrlMsgAnswerDoes
  <2>2. PICK n \in 1..2 :
          /\ ReadOff(c, n)
          /\ \E t \in Types(client[c], n, toClient[c]) :
                client'[c] =
                    IF t = "ack" THEN Enter(c, Answered(client[c].at))
                    ELSE [Filled(client[c], n, toClient[c]) EXCEPT
                                !.at = SendAgain(client[c].at), !.head = Unset]
    BY <1>9, CtrlMsgAnswerDoes
  <2>3. /\ toClient[c] # <<>> /\ Types(client[c], n, toClient[c]) = {toClient[c][1]}
        /\ toClient'[c] = After(2, toClient[c])
        /\ toServer'[c] = toServer[c]
    BY <1>2, <1>3, <2>2, ReadWhole DEF ReadOff
  <2>4. CASE client[c].at = "wait_download"
    <3>1. Downloads(c) /\ Got(c) = 0 /\ Downloading(c)
      BY <2>4 DEF Downloads, Got, Conversation
    <3>2. toClient[c][1] = "ack" /\ 2 + Len(toClient'[c]) = Len(toClient[c])
      <4>1. AnswerFrom(0, toClient[c])
        BY <1>3, <3>1, AnswerOnWire
      <4>2. PICK w \in Seq(Part) : /\ w = toClient[c] /\ w # <<>> /\ Framed(w)
                                   /\ AnswerFrom(0, w)
        BY <1>3, <1>5, <2>3, <4>1
      <4>3. w[1] = "ack"
        BY <4>2, AnswerRead
      <4>4. 2 + Len(After(2, w)) = Len(w)
        BY <4>2, FramedAfter
      <4> QED
        BY <2>3, <4>2, <4>3, <4>4
    <3>3. client'[c] = Enter(c, "rx")
      BY <2>2, <2>3, <2>4, <3>2 DEF Answered, Request
    <3>4. client'[c].at = "rx" /\ client'[c].count = 0
      BY <3>3, EnteredClient DEF ClientPlace
    <3>5. Sent(c)' = Sent(c) /\ Sent(c) > 0
      <4>1. Got(c)' = 2
        BY <3>4 DEF Got
      <4>2. Len(toClient[c]) # 0
        BY <1>5, <2>3
      <4> QED
        BY <1>5, <3>1, <3>2, <4>1, <4>2 DEF Sent
    <3>6. Downloading(c)'
      BY <1>1, <1>4, <2>3, <2>4, <3>1, <3>4, <3>5 DEF Downloading
    <3> QED
      BY <3>4, <3>6 DEF Conversation
  <2>5. CASE client[c].at = "wait_upload"
    <3>1. Uploading(c)
      BY <2>5 DEF Conversation
    <3>2. toClient[c] = <<"ack", "rest">> /\ "upload" \in heard[c]
      BY <2>3, <3>1 DEF Uploading
    <3>3. toClient'[c] = <<>> /\ toClient[c][1] = "ack"
      BY <1>6, <2>3, <3>2, OnePacket
    <3>4. client'[c] = Enter(c, "tx")
      BY <2>2, <2>3, <2>5, <3>3 DEF Answered, Request
    <3>5. client'[c].at = "tx"
      BY <3>4, EnteredClient DEF ClientPlace
    <3>6. Uploading(c)'
      BY <1>1, <1>4, <2>3, <2>5, <3>1, <3>2, <3>3, <3>5, QuietWire DEF Uploading
    <3> QED
      BY <3>5, <3>6 DEF Conversation, Downloads
  <2> QED
    BY <2>1, <2>4, <2>5
<1>10. CASE CtrlMsgError(c)
  <2>1. /\ client[c].at \in {"wait_download", "wait_upload"} /\ Quiet(c) /\ Failed(c)
        /\ client'[c].at \in {SendAgain(client[c].at), Refused(client[c].at)}
    BY <1>10, CtrlMsgErrorDoes
  <2>2. toClient[c] = <<>> /\ toClient'[c] = <<>> /\ Got(c) = 0
    BY <2>1 DEF Quiet, Failed, Got
  <2>3. Sent(c) = 0
    BY <2>2 DEF Sent
  <2>4. ~Live(c)
    <3>1. SUFFICES ASSUME Live(c) PROVE FALSE
      OBVIOUS
    <3>2. "client" \in ends[c] /\ "server" \in ends[c] /\ server.at # "dead" /\ ~Spins
      BY <2>1, <3>1, EndsOf DEF Live
    <3>3. server.conn = c /\ server.at \in {"command", "rx"} /\ toServer[c] = <<>>
      BY <1>2, <2>1, <3>2 DEF Failed, ServerRests
    <3>4. At(c) \in {"command", "rx"}
      BY <3>3 DEF At
    <3>5. <<"download", "rest">> # <<>> /\ <<"upload", "rest">> # <<>>
      BY <1>6, OnePacket
    <3>6. CASE client[c].at = "wait_download"
      BY <2>3, <3>1, <3>3, <3>4, <3>5, <3>6 DEF Conversation, Downloads, Downloading
    <3>7. CASE client[c].at = "wait_upload"
      BY <2>2, <3>1, <3>3, <3>4, <3>5, <3>7 DEF Conversation, Uploading
    <3> QED
      BY <2>1, <3>6, <3>7
  <2>5. client'[c].at \in {"send_download", "send_upload", "done"}
    BY <2>1 DEF SendAgain, Refused, Request
  <2>6. CASE client'[c].at = "send_download"
    <3>1. Sent(c)' = 0
      BY <2>2, <2>6 DEF Sent, Got
    <3> QED
      BY <1>1, <2>4, <2>6, <3>1, Sizes DEF Conversation, Downloading
  <2>7. CASE client'[c].at \in {"send_upload", "done"}
    BY <1>1, <2>2, <2>4, <2>7 DEF Conversation, Downloads, Uploading, Through
  <2> QED
    BY <2>5, <2>6, <2>7
<1>11. CASE ExitOnClose(c)
  BY <1>7, <1>11, ExitOnCloseDoes
<1>12. CASE ClientRx(c)
  <2>1. client[c].at = "rx"
    BY <1>12, ClientRxDoes
  <2>2. PICK n \in 1..2 :
          /\ ReadOff(c, n)
          /\ \E t \in Types(client[c], n, toClient[c]) :
                /\ t = "end" =>
                    client'[c] = Downloaded(c, "end", client[c].count + n)
                /\ t # "end" =>
                    client'[c].at = "rx" /\ client'[c].count = client[c].count + n
    BY <1>12, ClientRxDoes
  <2>3. /\ n = 2 /\ toClient[c] # <<>>
        /\ Types(client[c], n, toClient[c]) = {toClient[c][1]}
        /\ toClient'[c] = After(2, toClient[c]) /\ toServer'[c] = toServer[c]
    BY <1>2, <1>3, <2>2, ReadWhole DEF ReadOff
  <2>4. /\ Downloads(c) /\ Got(c) = client[c].count + 2 /\ Downloading(c)
    BY <2>1 DEF Downloads, Got, Conversation
  <2>5. Len(toClient[c]) >= 2 /\ Len(toClient'[c]) = Len(toClient[c]) - 2
    BY <1>3, <1>5, <2>3, FramedAfter
  <2>6. CASE toClient[c][1] = "end"
    <3>1. client'[c] = Downloaded(c, "end", client[c].count + 2)
      BY <2>2, <2>3, <2>6
    <3>2. client'[c].at = "send_upload"
      <4>1. client[c].count + 2 \in Nat
        BY <1>5
      <4> QED
        BY <3>1, <4>1, DownloadedClient
    <3>3. Got(c) = 2 * MaxPkts
      <4>1. AnswerFrom(Got(c), toClient[c]) /\ Got(c) \in Nat
        BY <1>3, <2>4, AnswerOnWire, GotTyped
      <4> QED
        BY <1>3, <1>5, <2>3, <2>6, <4>1, AnswerRead
    <3>4. Sent(c) = 2 * MaxPkts + 2 /\ toClient'[c] = <<>>
      <4>1. Got(c) + Len(toClient[c]) <= 2 * MaxPkts + 2
        BY <2>4 DEF Downloading, Sent
      <4>2. Len(toClient[c]) = 2
        <5>1. PICK m \in Nat : m = Len(toClient[c])
          BY <1>5
        <5>4. m <= 2 /\ m >= 2 => m = 2
          OBVIOUS
        <5>2. PICK g \in Nat : g = 2 * MaxPkts
          BY Sizes
        <5>3. g + m <= g + 2 /\ m >= 2
          BY <2>5, <3>3, <4>1, <5>1, <5>2
        <5>5. m = 2
          BY <5>2, <5>3, <5>4
        <5> QED
          BY <5>1, <5>5
      <4> QED
        BY <1>5, <2>3, <3>3, <4>2, LastPacket DEF Sent
    <3>5. Live(c) => toServer[c] = <<>> /\ Text(c) = "null" /\ At(c) = "command"
      <4>1. At(c) # "tx" \/ ~Live(c)
        <5>1. SUFFICES ASSUME At(c) = "tx", Live(c) PROVE FALSE
          OBVIOUS
        <5>2. Sent(c) = 2 * server.count + 2
          BY <2>4, <5>1 DEF Downloading
        <5>3. server.at = "tx"
          BY <5>1 DEF At
        <5>4. server.count < MaxPkts /\ server.count \in Nat
          BY <5>3, Served DEF ConnectionInv
        <5> QED
          BY <3>4, <5>2, <5>4, Sizes
      <4> QED
        BY <2>1, <2>4, <4>1 DEF Downloading
    <3>6. Uploading(c)'
      BY <1>1, <1>4, <2>3, <3>2, <3>4, <3>5 DEF Uploading
    <3> QED
      BY <3>2, <3>6 DEF Conversation, Downloads
  <2>7. CASE toClient[c][1] # "end"
    <3>1. client'[c].at = "rx" /\ client'[c].count = client[c].count + 2
      BY <2>2, <2>3, <2>7
    <3>2. Sent(c)' = Sent(c) /\ Sent(c) > 0
      <4>1. Got(c)' = Got(c) + 2
        BY <1>5, <2>4, <3>1 DEF Got
      <4>2. PICK m \in Nat : m = Len(toClient[c])
        BY <1>5
      <4>3. PICK g \in Nat : g = Got(c)
        BY GotTyped
      <4>4. Sent(c) = g + m /\ Sent(c)' = (g + 2) + (m - 2) /\ m >= 2
        BY <2>5, <4>1, <4>2, <4>3 DEF Sent
      <4> QED
        BY <4>4
    <3>3. Downloading(c)'
      BY <1>1, <1>4, <2>1, <2>3, <2>4, <3>1, <3>2 DEF Downloading
    <3> QED
      BY <3>1, <3>3 DEF Conversation
  <2> QED
    BY <2>6, <2>7
<1>13. CASE ClientRxCut(c)
  <2>1. /\ client[c].at = "rx" /\ toClient[c] = <<>>
        /\ client'[c] = Downloaded(c, "cut", client[c].count)
        /\ toServer'[c] = toServer[c] /\ toClient'[c] = <<>>
        /\ Failed(c) \/ "server" \notin ends[c]
    BY <1>13, ClientRxCutDoes
  <2>2. client'[c].at = "send_upload"
    BY <1>5, <2>1, DownloadedClient
  <2>3. Downloading(c)
    BY <2>1 DEF Conversation, Downloads
  <2>4. Live(c) => toServer[c] = <<>> /\ Text(c) = "null" /\ At(c) = "command"
    <3>1. SUFFICES ASSUME Live(c)
                   PROVE  toServer[c] = <<>> /\ Text(c) = "null" /\ At(c) = "command"
      OBVIOUS
    <3>2. "client" \in ends[c] /\ "server" \in ends[c] /\ server.at # "dead" /\ ~Spins
      BY <2>1, <3>1, EndsOf DEF Live
    <3>3. server.conn = c /\ server.at \in {"command", "rx"}
      BY <1>2, <2>1, <3>2 DEF Failed, ServerRests
    <3> QED
      BY <2>1, <2>3, <3>1, <3>3 DEF Downloading, At
  <2>5. Uploading(c)'
    BY <1>1, <1>4, <2>1, <2>2, <2>4 DEF Uploading
  <2> QED
    BY <2>2, <2>5 DEF Conversation, Downloads
<1>14. CASE ClientTx(c) /\ ~(Ended(c) /\ client'[c].at = "exited")
  <2>1. /\ client[c].at = "tx"
        /\ \/ client'[c].at = "tx" /\ SentTo(c, "data")
           \/ client'[c].at = "stats" /\ SentTo(c, "end")
    BY <1>14, ClientTxDoes
  <2>2. Uploading(c) /\ toClient[c] = <<>> /\ toClient'[c] = <<>>
        /\ (Live(c) => OnlyData(toServer[c]) /\ At(c) = "rx" /\ Text(c) = "null")
    BY <2>1 DEF Conversation, Uploading, SentTo
  <2>3. CASE client'[c].at = "tx" /\ SentTo(c, "data")
    <3>1. Live(c) => OnlyData(toServer'[c])
      BY <1>5, <2>2, <2>3, DataSent DEF SentTo
    <3>2. Uploading(c)'
      BY <1>1, <1>4, <2>1, <2>2, <2>3, <3>1 DEF Uploading
    <3> QED
      BY <2>3, <3>2 DEF Conversation, Downloads
  <2>4. CASE client'[c].at = "stats" /\ SentTo(c, "end")
    <3>1. Live(c) => NoRequest(toServer'[c])
      BY <1>5, <2>2, <2>4, DataSent, QuietWire DEF SentTo
    <3> QED
      BY <1>1, <2>4, <3>1 DEF Conversation, Downloads, Through
  <2> QED
    BY <2>1, <2>3, <2>4
<1>15. CASE ReceiveSummaryStats(c)
  <2>1. /\ client[c].at = "stats" /\ client'[c].at \in {"stats", "done"}
        /\ toServer'[c] = toServer[c]
    BY <1>15, ReceiveSummaryStatsDoes
  <2> QED
    BY <1>1, <1>4, <2>1 DEF Conversation, Downloads, Through
<1>16. CASE Quit(c)
  BY <1>7, <1>16, QuitDoes
<1> QED
  BY <1>7, <1>8, <1>9, <1>10, <1>11, <1>12, <1>13, <1>14, <1>15, <1>16 DEF ClientNext

LEMMA CommandHears ==
    ASSUME TypeOK, ConnectionInv, Command, NEW k \in Client, server.conn = k
    PROVE  \E n \in 1..2 :
            /\ TakenFrom(k, n)
            /\ \E t \in Types(server, n, toServer[k]) :
                server'.at = CASE t = "upload" -> "ack_upload"
                                [] t = "download" -> "ack_download"
                                [] OTHER -> "command"
            /\ server'.at = "ack_upload" => "upload" \in heard'[k]
<1>1. PICK n \in 1..2 :
        /\ TakenFrom(k, n)
        /\ \E t \in Types(server, n, toServer[k]) :
            /\ server'.at = CASE t = "upload" -> "ack_upload"
                              [] t = "download" -> "ack_download"
                              [] OTHER -> "command"
            /\ heard'[k] = IF server'.at = "command" THEN heard[k]
                           ELSE heard[k] \union {t}
  BY CommandDoes
<1> QED
  BY <1>1

\* A connection lives only if it did before.
LEMMA ServerLives ==
    ASSUME TypeOK, ConnectionInv, NEW k \in Client, ServerStep(k), server.conn = k,
           ~Spins, NEW d \in Client, Live(d)'
    PROVE  Live(d)
<1>1. ends'[d] = ends[d] \/ ends'[d] = ends[d] \ {"server"}
  BY OthersWait DEF ServerStep
<1> QED
  BY <1>1 DEF Live

\* The server does not spin when it takes a step.
LEMMA ServerNextAwake ==
    ASSUME TypeOK, ConnectionInv, ServerNext, ~Accept, NEW k \in Client, server.conn = k
    PROVE  ~Spins
<1>1. SUFFICES ASSUME Spins PROVE FALSE
  OBVIOUS
<1>2. server.at = "command" /\ "server" \notin ends[k]
  BY <1>1 DEF Spins
<1>3. Command \/ CommandEnds
  BY <1>2 DEF ServerNext, SendAck, SendAckFails, ServerRx, ServerRxCut, ServerTx,
     SendSummaryStats
<1> QED
  BY <1>2, <1>3 DEF Command, CommandEnds, ServerEof, ServerError, conn

\* The step of the server keeps its conversation in order, and its text.
LEMMA ServerNextConversation ==
    ASSUME TypeOK, ConnectionInv, WholeInv, ServerNext, ~Accept, ~Dying,
           NEW k \in Client, server.conn = k, Conversation(k), TextInv, InOrder',
           happened \subseteq happened'
    PROVE  Conversation(k)' /\ TextInv'
<1>1. server.at \notin {"accept", "dead"}
  BY DEF ServerNext, Command, CommandEnds, SendAck, SendAckFails, ServerRx,
     ServerRxCut, ServerTx, SendSummaryStats
<1>2. /\ client[k].at # "idle" /\ server.count \in Nat /\ At(k) = server.at
      /\ Text(k) = server.s /\ None # k /\ server.at # "dead"
  BY <1>1, Served, ClientAssumption DEF At, Text
<1>3. /\ "slow" \notin happened' /\ "split" \notin happened' /\ "split" \notin happened
  BY InOrderGrows
<1>4. server.cum = 0 /\ Framed(toServer[k]) /\ Framed(toClient[k])
  BY <1>3 DEF WholeInv
<1>5. /\ toClient[k] \in Seq(Part) /\ toServer[k] \in Seq(Part)
      /\ Len(toClient[k]) \in Nat /\ client[k].at \in ClientPlace
  BY TypedParts
<1>6. ASSUME ServerStep(k) PROVE client' = client /\ heard[k] \subseteq heard'[k]
                                 /\ (Live(k)' => Live(k))
  BY <1>6, ServerLives, ServerNextAwake DEF ServerStep
<1>7. /\ "download" \in Packet /\ "upload" \in Packet /\ "data" \in Packet
      /\ "end" \in Packet /\ "ack" \in Packet
  BY DEF Packet
<1>8. ASSUME ServerStep(k), Downloads(k) => Downloading(k)',
              client[k].at \in {"send_upload", "wait_upload", "tx"} => Uploading(k)',
              client[k].at \in {"stats", "done", "exited"} => Through(k)'
      PROVE  Conversation(k)'
  BY <1>6, <1>8 DEF Conversation, Downloads
<1>9. CASE Command
  <2>1. /\ server.at = "command" /\ "server" \in ends[k] /\ ServerStep(k)
        /\ server'.conn = k /\ server'.s = server.s
    BY <1>9, CommandDoes
  <2>2. PICK n \in 1..2 :
          /\ TakenFrom(k, n)
          /\ \E t \in Types(server, n, toServer[k]) :
                server'.at = CASE t = "upload" -> "ack_upload"
                                [] t = "download" -> "ack_download"
                                [] OTHER -> "command"
          /\ server'.at = "ack_upload" => "upload" \in heard'[k]
    BY <1>9, CommandHears
  <2>3. PICK t \in Packet :
          /\ toServer[k] # <<>> /\ t = toServer[k][1]
          /\ toServer'[k] = After(2, toServer[k]) /\ toClient'[k] = toClient[k]
          /\ server'.at = CASE t = "upload" -> "ack_upload"
                             [] t = "download" -> "ack_download"
                             [] OTHER -> "command"
    <3>1. /\ toServer[k] # <<>> /\ toServer[k][1] \in Packet
          /\ Types(server, n, toServer[k]) = {toServer[k][1]}
          /\ toServer'[k] = After(2, toServer[k])
      BY <1>3, <1>4, <2>2, TakenWhole
    <3> QED
      BY <2>2, <3>1 DEF TakenFrom
  <2>4. Live(k) /\ At(k)' = server'.at /\ Text(k)' = server.s /\ At(k) = "command"
    BY <1>2, <2>1 DEF Live, Spins, At, Text
  <2>5. CASE Downloads(k)
    <3>1. Downloading(k) /\ Sent(k)' = Sent(k)
      BY <1>6, <2>1, <2>3, <2>5 DEF Conversation, Sent, Got
    <3>2. /\ client[k].at = "wait_download" /\ Sent(k) = 0 /\ Text(k) = "null"
          /\ toServer[k] = <<"download", "rest">>
      BY <2>3, <2>4, <3>1 DEF Downloading
    <3>3. toServer'[k] = <<>> /\ server'.at = "ack_download" /\ server.s = "null"
      BY <1>2, <1>7, <2>3, <3>2, OnePacket
    <3>4. Downloading(k)'
      BY <1>6, <2>1, <2>4, <3>1, <3>2, <3>3 DEF Downloading
    <3> QED
      BY <1>8, <2>1, <2>5, <3>3, <3>4 DEF TextInv, Downloads
  <2>6. CASE client[k].at \in {"send_upload", "wait_upload", "tx"}
    <3>1. Uploading(k)
      BY <2>6 DEF Conversation
    <3>2. /\ client[k].at = "wait_upload" /\ toClient[k] = <<>> /\ Text(k) = "null"
          /\ toServer[k] = <<"upload", "rest">>
      BY <2>3, <2>4, <3>1 DEF Uploading
    <3>3. toServer'[k] = <<>> /\ server'.at = "ack_upload" /\ server.s = "null"
      BY <1>2, <1>7, <2>3, <3>2, OnePacket
    <3>4. Uploading(k)'
      BY <1>6, <2>1, <2>2, <2>3, <2>4, <3>2, <3>3 DEF Uploading
    <3> QED
      BY <1>8, <2>1, <2>6, <3>3, <3>4 DEF TextInv, Downloads
  <2>7. CASE client[k].at \in {"stats", "done", "exited"}
    <3>1. Through(k)
      BY <2>7 DEF Conversation
    <3>2. CASE NoRequest(toServer[k])
      <4>1. 1 \in DOMAIN toServer[k] /\ Len(toServer[k]) >= 2
        BY <1>4, <1>5, <2>3, FramedAfter
      <4>2. t \notin {"upload", "download"}
        BY <2>3, <3>2, <4>1 DEF NoRequest
      <4>3. server'.at = "command" /\ NoRequest(toServer'[k])
        BY <1>5, <2>3, <3>2, <4>1, <4>2, QuietAfter
      <4> QED
        BY <1>8, <2>1, <2>7, <4>3 DEF TextInv, Through, Downloads
    <3>3. ASSUME NEW r \in {"upload", "download"}, toServer[k] = <<r, "rest">>,
                 Text(k) = "null"
          PROVE  Conversation(k)' /\ TextInv'
      <4>1. toServer'[k] = <<>> /\ NoRequest(toServer'[k])
        BY <1>7, <2>3, <3>3, OnePacket, QuietWire
      <4>2. server'.at # "stats" /\ server'.s = "null"
        BY <1>2, <2>1, <2>3, <3>3
      <4> QED
        BY <1>8, <2>1, <2>7, <4>1, <4>2 DEF TextInv, Through, Downloads
    <3> QED
      BY <2>4, <3>1, <3>2, <3>3 DEF Through
  <2> QED
    BY <1>5, <2>5, <2>6, <2>7, Places
<1>10. CASE CommandEnds
  <2>1. /\ ServerStep(k) /\ ClosedTo(k)
        /\ server'.at = "accept" /\ server'.s = server.s
    BY <1>10, CommandEndsDoes
  <2>2. ~Live(k)' /\ toClient'[k] = toClient[k]
    BY <2>1 DEF Live, ClosedTo
  <2> QED
    BY <1>6, <2>1, <2>2, ConversationOver DEF TextInv
<1>11. CASE SendAck
  <2>1. /\ ServerStep(k) /\ GivenTo(k, "ack")
        /\ server.at \in {"ack_upload", "ack_download"}
        /\ server'.at = IF server.at = "ack_upload" THEN "rx" ELSE "tx"
        /\ server'.conn = k /\ server'.s = server.s /\ server'.count = 0
    BY <1>11, SendAckDoes, SendsOrDies
  <2>2. TextInv'
    BY <2>1 DEF TextInv
  <2>3. CASE ~Live(k)' /\ ends[k] # {"client", "server"}
    BY <1>6, <2>1, <2>2, <2>3, ConversationOver DEF GivenTo
  <2>4. CASE Live(k)' /\ client[k].at # "exited"
    <3>1. Live(k) /\ ends[k] = {"client", "server"}
      BY <1>6, <2>1, <2>4, EndsOf
    <3>2. toClient'[k] = With(toClient[k], "ack") /\ toServer'[k] = toServer[k]
      BY <2>1, <3>1 DEF GivenTo
    <3>3. At(k)' = server'.at /\ Text(k)' = server.s
      BY <2>1 DEF At, Text
    <3>4. CASE Downloads(k)
      <4>1. /\ client[k].at = "wait_download" /\ Sent(k) = 0 /\ Text(k) = "null"
            /\ toServer[k] = <<>> /\ server.at = "ack_download"
        BY <1>2, <2>1, <3>1, <3>4 DEF Conversation, Downloading
      <4>2. Got(k) = 0 /\ Len(toClient[k]) = 0
        BY <1>5, <4>1 DEF Sent, Got
      <4>3. Got(k)' = 0 /\ toClient'[k] = <<"ack", "rest">>
        <5>1. toClient[k] = <<>> /\ With(<<>>, "ack") = <<"ack", "rest">>
          <6>1. toClient[k] = <<>>
            BY <1>5, <4>2
          <6>2. With(<<>>, "ack") = <<"ack", "rest">>
            BY <1>7, OnePacket
          <6> QED
            BY <6>1, <6>2
        <5> QED
          BY <1>6, <2>1, <3>2, <4>1, <5>1 DEF Got
      <4>4. Sent(k)' = 2
        BY <1>7, <4>3, OnePacket DEF Sent
      <4>5. 2 <= 2 * MaxPkts + 2 /\ 2 = 2 * 0 + 2 /\ 2 > 0
        BY Sizes
      <4>6. Downloading(k)'
        BY <1>2, <1>6, <2>1, <3>1, <3>2, <3>3, <4>1, <4>4, <4>5 DEF Downloading
      <4> QED
        BY <1>8, <2>1, <2>2, <3>4, <4>6 DEF Downloads
    <3>5. CASE client[k].at \in {"send_upload", "wait_upload", "tx"}
      <4>1. /\ client[k].at = "wait_upload" /\ toClient[k] = <<>> /\ Text(k) = "null"
            /\ toServer[k] = <<>> /\ server.at = "ack_upload" /\ "upload" \in heard[k]
        BY <1>2, <2>1, <3>1, <3>5 DEF Conversation, Uploading
      <4>2. toClient'[k] = <<"ack", "rest">> /\ toClient'[k] # <<>>
        <5>1. With(<<>>, "ack") = <<"ack", "rest">> /\ <<"ack", "rest">> # <<>>
          BY <1>7, OnePacket
        <5> QED
          BY <3>2, <4>1, <5>1
      <4>3. Uploading(k)'
        BY <1>2, <1>6, <2>1, <3>2, <3>3, <4>1, <4>2 DEF Uploading
      <4> QED
        BY <1>8, <2>1, <2>2, <3>5, <4>3 DEF Downloads
    <3>6. CASE client[k].at \in {"stats", "done", "exited"}
      <4>1. NoRequest(toServer[k])
        BY <1>2, <2>1, <3>1, <3>6 DEF Conversation, Through
      <4> QED
        BY <1>8, <2>1, <2>2, <3>2, <3>6, <4>1 DEF Through, Downloads
    <3> QED
      BY <1>5, <3>4, <3>5, <3>6, Places
  <2>5. CASE ~Live(k)' /\ ends[k] = {"client", "server"}
    <3>1. server'.at # "command"
      BY <2>1
    <3> QED
      BY <2>1, <2>5, <3>1 DEF Live, Spins, GivenTo
  <2>6. CASE Live(k)' /\ client[k].at = "exited"
    <3>1. NoRequest(toServer[k])
      BY <1>2, <1>6, <2>1, <2>6 DEF Conversation, Through
    <3> QED
      BY <1>8, <2>1, <2>2, <2>6, <3>1 DEF Through, Downloads, GivenTo
  <2> QED
    BY <2>3, <2>4, <2>5, <2>6
<1>12. CASE SendAckFails
  <2>1. /\ ServerStep(k) /\ Still(k) /\ "client" \notin ends[k]
        /\ server.at \in {"ack_upload", "ack_download"}
        /\ server'.at = IF server.at = "ack_upload" /\ server.s # "null"
                        THEN "stats" ELSE "command"
        /\ server'.conn = k /\ server'.s = server.s
    BY <1>12, SendAckFailsDoes
  <2>2. server'.at = "command" /\ TextInv'
    BY <2>1 DEF TextInv
  <2>3. CASE ~Live(k)'
    BY <1>6, <2>1, <2>2, <2>3, ConversationOver DEF Still
  <2>4. CASE Live(k)'
    <3>1. Live(k)
      BY <1>6, <2>1, <2>4
    <3>2. client[k].at = "exited"
      BY <2>1, <3>1, EndsOf
    <3>3. NoRequest(toServer[k])
      BY <1>2, <2>1, <3>1, <3>2 DEF Conversation, Through
    <3> QED
      BY <1>8, <2>1, <2>2, <3>2, <3>3 DEF Through, Downloads, Still
  <2> QED
    BY <2>3, <2>4
<1>13. CASE ServerRx
  <2>1. server.at = "rx" /\ ServerStep(k) /\ heard'[k] = heard[k] /\ server'.conn = k
    BY <1>13, ServerRxDoes
  <2>2. PICK n \in 1..2 :
          /\ TakenFrom(k, n)
          /\ \E t \in Types(server, n, toServer[k]) :
                IF t = "end" THEN server'.at = "stats" /\ server'.s = "live"
                ELSE server'.at = "rx" /\ server'.s = server.s
    BY <1>13, ServerRxDoes
  <2>3. /\ toServer[k] # <<>> /\ toServer[k][1] \in Packet
        /\ toServer'[k] = After(2, toServer[k])
        /\ toClient'[k] = toClient[k] /\ ends'[k] = ends[k]
        /\ IF toServer[k][1] = "end" THEN server'.at = "stats" /\ server'.s = "live"
           ELSE server'.at = "rx" /\ server'.s = server.s
    BY <1>3, <1>4, <2>2, TakenWhole DEF TakenFrom
  <2>4. TextInv'
    BY <2>3 DEF TextInv
  <2>5. CASE ~Live(k)'
    BY <1>6, <2>1, <2>3, <2>4, <2>5, ConversationOver
  <2>6. CASE Live(k)'
    <3>1. Live(k) /\ Len(toServer[k]) >= 2 /\ 1 \in DOMAIN toServer[k]
      BY <1>4, <1>5, <1>6, <2>1, <2>3, <2>6, FramedAfter
    <3>2. ~Downloads(k)
      BY <1>2, <2>1, <3>1 DEF Conversation, Downloading
    <3>3. CASE client[k].at \in {"send_upload", "wait_upload", "tx"}
      <4>1. /\ client[k].at = "tx" /\ OnlyData(toServer[k]) /\ Text(k) = "null"
            /\ toClient[k] = <<>> /\ "upload" \in heard[k]
        BY <1>2, <2>1, <2>3, <3>1, <3>3 DEF Conversation, Uploading
      <4>2. toServer[k][1] # "end" /\ OnlyData(toServer'[k])
        BY <1>5, <2>3, <3>1, <4>1, QuietAfter DEF OnlyData, Packet
      <4>3. At(k)' = "rx" /\ Text(k)' = "null"
        BY <1>2, <2>1, <2>3, <4>1, <4>2 DEF At, Text
      <4>4. Uploading(k)'
        BY <1>6, <2>1, <2>3, <4>1, <4>2, <4>3 DEF Uploading
      <4> QED
        BY <1>8, <2>1, <2>4, <3>3, <4>4 DEF Downloads
    <3>4. CASE client[k].at \in {"stats", "done", "exited"}
      <4>1. NoRequest(toServer'[k])
        BY <1>2, <1>5, <2>1, <2>3, <3>1, <3>4, QuietAfter DEF Conversation, Through
      <4> QED
        BY <1>8, <2>1, <2>4, <3>4, <4>1 DEF Through, Downloads
    <3> QED
      BY <1>5, <3>2, <3>3, <3>4, Places
  <2> QED
    BY <2>5, <2>6
<1>14. CASE ServerRxCut
  <2>1. /\ server.at = "rx" /\ ServerStep(k)
        /\ server'.at = "stats" /\ server'.conn = k /\ server'.s = "live"
        /\ \/ ClosedTo(k)
           \/ FailedFrom(k) /\ Still(k)
    BY <1>14, ServerRxCutDoes
  <2>2. TextInv'
    BY <2>1 DEF TextInv
  <2>3. CASE ~Live(k)'
    BY <1>6, <2>1, <2>2, <2>3, ConversationOver DEF ClosedTo, Still
  <2>4. CASE Live(k)'
    <3>1. Live(k) /\ FailedFrom(k) /\ Still(k)
      BY <1>6, <2>1, <2>4 DEF Live, ClosedTo
    <3>2. ~Downloads(k)
      BY <1>2, <2>1, <3>1 DEF Conversation, Downloading
    <3>3. client[k].at \notin {"send_upload", "wait_upload", "tx"}
      <4>1. SUFFICES ASSUME client[k].at \in {"send_upload", "wait_upload", "tx"}
                     PROVE  FALSE
        OBVIOUS
      <4>2. "client" \in ends[k] /\ toServer[k] = <<>>
        BY <3>1, <4>1, EndsOf DEF FailedFrom
      <4>3. client[k].at = "wait_upload" /\ toClient[k] = <<>>
        BY <1>3, <3>1, <4>1, <4>2 DEF FailedFrom, ClientRests, Receiving
      <4> QED
        BY <1>2, <1>7, <2>1, <3>1, <4>2, <4>3 DEF Conversation, Uploading
    <3>4. NoRequest(toServer[k])
      BY <1>2, <1>5, <2>1, <3>1, <3>2, <3>3, Places DEF Conversation, Through
    <3> QED
      BY <1>8, <2>1, <2>2, <3>1, <3>2, <3>3, <3>4 DEF Through, Still
  <2> QED
    BY <2>3, <2>4
<1>15. CASE ServerTx
  <2>1. /\ ServerStep(k) /\ server'.conn = k /\ server.at = "tx" /\ server'.s = server.s
        /\ IF server.count + 1 = MaxPkts
           THEN GivenTo(k, "end") /\ server'.at = "command"
           ELSE /\ GivenTo(k, "data") /\ server'.at = "tx"
                /\ server'.count = server.count + 1
    BY <1>15, ServerTxDoes, SendsOrDies
  <2>2. TextInv' /\ toServer'[k] = toServer[k]
    BY <2>1 DEF TextInv, GivenTo
  <2>3. CASE ~Live(k)' /\ ends[k] # {"client", "server"}
    <3>1. toClient'[k] = toClient[k]
      BY <2>1, <2>3 DEF GivenTo
    <3> QED
      BY <1>6, <2>1, <2>2, <2>3, <3>1, ConversationOver
  <2>4. CASE Live(k)' /\ client[k].at # "exited"
    <3>1. Live(k) /\ ends[k] = {"client", "server"}
      BY <1>6, <2>1, <2>4, EndsOf
    <3>2. CASE Downloads(k)
      <4>1. /\ Sent(k) = 2 * server.count + 2 /\ toServer[k] = <<>>
            /\ Text(k) = "null" /\ client[k].at \in {"wait_download", "rx"}
        BY <1>2, <2>1, <3>1, <3>2 DEF Conversation, Downloading
      <4>2. Sent(k)' = Sent(k) + 2
        <5>1. PICK p \in Packet : toClient'[k] = With(toClient[k], p)
          BY <1>7, <2>1, <3>1 DEF GivenTo
        <5>2. Len(toClient'[k]) = Len(toClient[k]) + 2 /\ Got(k)' = Got(k)
          BY <1>5, <1>6, <2>1, <5>1, WithPacket DEF Got
        <5>3. PICK g \in Nat : g = Got(k)
          BY GotTyped
        <5> QED
          BY <1>5, <5>2, <5>3 DEF Sent
      <4>3. server.count < MaxPkts /\ server.count + 1 <= MaxPkts
        BY <1>2, <2>1, Sizes DEF ConnectionInv
      <4>4. Sent(k)' <= 2 * MaxPkts + 2 /\ Sent(k)' > 0
        BY <1>2, <4>1, <4>2, <4>3, Sizes
      <4>5. Text(k)' = "null" /\ At(k)' = server'.at
        BY <1>2, <2>1, <4>1 DEF At, Text
      <4>6. /\ At(k)' \in {"tx", "command"}
            /\ At(k)' = "tx" => Sent(k)' = 2 * server'.count + 2
        BY <1>2, <2>1, <4>1, <4>2, <4>5
      <4>7. Downloading(k)'
        BY <1>6, <2>1, <2>2, <4>1, <4>4, <4>5, <4>6 DEF Downloading
      <4> QED
        BY <1>8, <2>1, <2>2, <3>2, <4>7 DEF Downloads
    <3>3. CASE client[k].at \in {"send_upload", "wait_upload", "tx"}
      BY <1>2, <2>1, <3>1, <3>3 DEF Conversation, Uploading
    <3>4. CASE client[k].at \in {"stats", "done", "exited"}
      <4>1. NoRequest(toServer[k])
        BY <1>2, <2>1, <3>1, <3>4 DEF Conversation, Through
      <4> QED
        BY <1>8, <2>1, <2>2, <3>4, <4>1 DEF Through, Downloads
    <3> QED
      BY <1>5, <3>2, <3>3, <3>4, Places
  <2>5. CASE ~Live(k)' /\ ends[k] = {"client", "server"}
    <3>1. ends'[k] = ends[k]
      BY <2>1 DEF GivenTo
    <3> QED
      BY <2>1, <2>5, <3>1 DEF Live, Spins
  <2>6. CASE Live(k)' /\ client[k].at = "exited"
    <3>1. NoRequest(toServer[k])
      BY <1>2, <1>6, <2>1, <2>6 DEF Conversation, Through
    <3> QED
      BY <1>8, <2>1, <2>2, <2>6, <3>1 DEF Through, Downloads
  <2> QED
    BY <2>3, <2>4, <2>5, <2>6
<1>16. CASE SendSummaryStats
  <2>1. /\ ServerStep(k) /\ GivenTo(k, "stats") /\ server.at = "stats"
        /\ server'.at = "command" /\ server'.conn = k
        /\ server'.s = IF server.s = "live" THEN "freed" ELSE "misused"
    BY <1>16, SendSummaryStatsDoes, SendsOrDies
  <2>2. TextInv' /\ toServer'[k] = toServer[k]
    BY <2>1 DEF TextInv, GivenTo
  <2>3. CASE ~Live(k)' /\ ends[k] # {"client", "server"}
    BY <1>6, <2>1, <2>2, <2>3, ConversationOver DEF GivenTo
  <2>4. CASE Live(k)'
    <3>1. Live(k)
      BY <1>6, <2>1, <2>4
    <3>2. /\ ~Downloads(k)
          /\ client[k].at \notin {"send_upload", "wait_upload", "tx"}
      BY <1>2, <2>1, <3>1 DEF Conversation, Downloading, Uploading
    <3>3. NoRequest(toServer[k])
      BY <1>2, <1>5, <2>1, <3>1, <3>2, Places DEF Conversation, Through
    <3> QED
      BY <1>8, <2>1, <2>2, <3>2, <3>3 DEF Through
  <2>5. CASE ~Live(k)' /\ ends[k] = {"client", "server"}
    BY <2>1, <2>5 DEF Live, Spins, GivenTo
  <2> QED
    BY <2>3, <2>4, <2>5
<1> QED
  BY <1>9, <1>10, <1>11, <1>12, <1>13, <1>14, <1>15, <1>16 DEF ServerNext

\* Every step keeps the conversations in order.
LEMMA SpeedLockstepStep ==
    /\ TypeOK /\ ConnectionInv /\ WholeInv /\ DownloadInv /\ LockstepInv
    /\ [Next]_vars
    => LockstepInv'
<1> SUFFICES ASSUME TypeOK, ConnectionInv, WholeInv, DownloadInv, LockstepInv,
                    [Next]_vars, InOrder'
             PROVE  TextInv' /\ \A d \in Client : Conversation(d)'
  BY DEF LockstepInv
<1>1. ASSUME happened \subseteq happened'
      PROVE  InOrder /\ TextInv /\ \A d \in Client : Conversation(d)
  BY <1>1, InOrderGrows DEF LockstepInv
<1>2. CASE UNCHANGED vars
  <2>1. TextInv /\ \A d \in Client : Conversation(d)
    BY <1>1, <1>2 DEF vars, history
  <2>2. ASSUME NEW d \in Client PROVE Conversation(d)'
    BY <1>2, <2>1, ConversationKept DEF vars, wires, history, Live, Spins, At, Text
  <2> QED
    BY <1>2, <2>1, <2>2 DEF vars, TextInv
<1>3. ASSUME NEW c \in Client, Connect(c)
      PROVE  TextInv' /\ \A d \in Client : Conversation(d)'
  <2>1. /\ client[c].at = "idle" /\ server.conn # c
        /\ toServer[c] = <<>> /\ toClient[c] = <<>>
        /\ client'[c].at \in {"send_download", "done"}
        /\ client'[c].at = "done" => server.at = "dead" /\ ends' = ends
        /\ \A e \in Client : e # c => client'[e] = client[e] /\ ends'[e] = ends[e]
        /\ UNCHANGED <<server, toServer, toClient, heard, happened>>
    BY <1>3, ConnectDoes DEF history
  <2>2. TextInv /\ \A d \in Client : Conversation(d)
    BY <1>1, <2>1
  <2>3. ASSUME NEW d \in Client, d # c PROVE Conversation(d)'
    <3>1. Spins' <=> Spins
      <4>1. CASE server.at = "command"
        <5>1. PICK k \in Client : server.conn = k
          BY <4>1, Served
        <5> QED
          BY <2>1, <5>1 DEF Spins
      <4>2. CASE server.at # "command"
        BY <2>1, <4>2 DEF Spins
      <4> QED
        BY <4>1, <4>2
    <3>2. Live(d)' <=> Live(d)
      BY <2>1, <2>3, <3>1 DEF Live
    <3> QED
      BY <2>1, <2>2, <2>3, <3>2, ConversationKept DEF At, Text
  <2>4. Conversation(c)'
    <3>1. /\ At(c)' = "command" /\ Text(c)' = "null"
          /\ toServer'[c] = <<>> /\ toClient'[c] = <<>>
      BY <2>1 DEF At, Text
    <3>2. CASE client'[c].at = "send_download"
      <4>1. Sent(c)' = 0
        BY <3>1, <3>2 DEF Sent, Got
      <4> QED
        BY <3>1, <3>2, <4>1, Sizes DEF Conversation, Downloading
    <3>3. CASE client'[c].at = "done"
      BY <3>1, <3>3, QuietWire DEF Conversation, Through, Downloads
    <3> QED
      BY <2>1, <3>2, <3>3
  <2> QED
    BY <2>1, <2>2, <2>3, <2>4 DEF TextInv
<1>4. ASSUME NEW c \in Client, ClientNext(c) \/ Quit(c)
      PROVE  TextInv' /\ \A d \in Client : Conversation(d)'
  <2>1. ClientStep(c) /\ server' = server /\ heard' = heard
    BY <1>4, ClientNextStep DEF ClientStep
  <2>2. TextInv /\ \A d \in Client : Conversation(d)
    BY <1>1, <2>1 DEF ClientStep
  <2>3. ASSUME NEW d \in Client, d # c PROVE Conversation(d)'
    BY <2>1, <2>2, <2>3, OthersStay, ClientLives, ConversationKept DEF At, Text
  <2>4. Conversation(c)'
    BY <1>4, <2>2, ClientNextConversation
  <2> QED
    BY <2>1, <2>2, <2>3, <2>4 DEF TextInv
<1>5. CASE Accept
  <2>1. /\ UNCHANGED <<client, toServer, toClient, ends, heard, happened>>
        /\ server.conn = None /\ server.at = "accept"
        /\ server'.at = "command" /\ server'.s = "null"
    BY <1>5, AcceptDoes DEF wires, history
  <2>2. TextInv /\ \A d \in Client : Conversation(d)
    BY <1>1, <2>1
  <2>3. ASSUME NEW d \in Client PROVE Conversation(d)'
    <3>1. /\ At(d) = "command" /\ At(d)' = "command"
          /\ Text(d) = "null" /\ Text(d)' = "null"
      BY <2>1, ClientAssumption DEF At, Text
    <3>2. Live(d)' => Live(d)
      BY <2>1 DEF Live, Spins
    <3> QED
      BY <2>1, <2>2, <3>1, <3>2, ConversationKept
  <2> QED
    BY <2>1, <2>3 DEF TextInv
<1>6. CASE Dying
  <2>1. /\ server'.at = "dead" /\ server'.s = server.s
        /\ UNCHANGED <<client, toClient, heard>> /\ happened \subseteq happened'
        /\ \A c \in Client : "server" \notin ends'[c]
    BY <1>6, DiesDoes DEF Dying
  <2>2. TextInv /\ \A d \in Client : Conversation(d)
    BY <1>1, <2>1
  <2>3. ASSUME NEW d \in Client PROVE Conversation(d)'
    BY <2>1, <2>2, ConversationOver DEF Live
  <2> QED
    BY <2>1, <2>2, <2>3 DEF TextInv
<1>7. CASE ServerNext /\ ~Accept /\ ~Dying
  <2>1. PICK k \in Client : /\ server.conn = k /\ ServerStep(k)
                            /\ server'.conn = k \/ server'.conn = None
    BY <1>7, ServerNextOthers
  <2>2. /\ client' = client /\ k # None /\ happened \subseteq happened' /\ ~Spins
    BY <1>7, <2>1, ClientAssumption, ServerNextAwake DEF ServerStep
  <2>3. TextInv /\ \A d \in Client : Conversation(d)
    BY <1>1, <2>2
  <2>4. ASSUME NEW d \in Client, d # k PROVE Conversation(d)'
    <3>1. /\ At(d) = "command" /\ At(d)' = "command"
          /\ Text(d) = "null" /\ Text(d)' = "null"
      BY <2>1, <2>2, <2>4, ClientAssumption DEF At, Text
    <3>2. Live(d)' => Live(d)
      BY <2>1, <2>2, ServerLives
    <3> QED
      BY <2>1, <2>2, <2>3, <2>4, <3>1, <3>2, OthersWait, ConversationKept
  <2>5. Conversation(k)' /\ TextInv'
    BY <1>7, <2>1, <2>2, <2>3, ServerNextConversation
  <2> QED
    BY <2>4, <2>5
<1> QED
  BY <1>2, <1>3, <1>4, <1>5, <1>6, <1>7, CrashDies DEF Next

LEMMA SpeedLockstep == Spec => []LockstepInv
<1>1. Init => LockstepInv /\ DownloadInv
  <2> SUFFICES ASSUME Init PROVE LockstepInv
    BY SpeedDownloadInit
  <2>1. ASSUME NEW c \in Client PROVE Conversation(c)
    <3>1. /\ client[c].at = "idle" /\ client[c].count = 0 /\ toServer[c] = <<>>
          /\ toClient[c] = <<>> /\ ends[c] = {}
      BY DEF Init
    <3>2. Sent(c) = 0 /\ ~Live(c)
      BY <3>1 DEF Sent, Got, Live
    <3> QED
      BY <3>1, <3>2, Sizes DEF Conversation, Downloading
  <2> QED
    BY <2>1 DEF Init, LockstepInv, TextInv
<1>2. /\ TypeOK /\ ConnectionInv /\ WholeInv /\ DownloadInv /\ LockstepInv
      /\ [Next]_vars
      => LockstepInv' /\ DownloadInv'
  BY SpeedAnswerStep, SpeedLockstepStep
<1> QED
  BY <1>1, <1>2, SpeedWhole, PTL DEF Spec

\* As long as no recv times out early or returns a part of a packet, a client
\* sends its upload only to a server that has read its request for one: the
\* acknowledgement send_ctrl_msg waits for is never left over from a download.
THEOREM SpeedUploadHeard == Spec => []UploadHeard
<1>1. LockstepInv => UploadHeard
  BY DEF LockstepInv, Conversation, Uploading, UploadHeard
<1> QED
  BY <1>1, SpeedLockstep, PTL

\* Under the same condition s_run sends and frees the text of an upload once,
\* even if clients are killed between their requests and the answers.
THEOREM SpeedStatsOnce == Spec => []StatsOnce
<1>1. LockstepInv => StatsOnce
  BY DEF LockstepInv, TextInv, StatsOnce
<1> QED
  BY <1>1, SpeedLockstep, PTL

-----------------------------------------------------------------------------
(* Sends that are read.                                                    *)

\* The server stays with a client from the acknowledgement of its upload on,
\* and afterwards has no other test to run for it.
Attended(c) ==
    /\ client[c].at = "tx" \/ (client[c].at = "wait_upload" /\ toClient[c] # <<>>) =>
            ("server" \in ends[c] => server.conn = c)
    /\ client[c].at \in {"stats", "done"} /\ Live(c) =>
            /\ server.conn = c /\ NoRequest(toServer[c])
            /\ server.at \notin {"ack_upload", "ack_download", "tx"}
    /\ client[c].at = "exited" => "client" \notin ends[c]

AttendInv == InOrder => \A c \in Client : Attended(c)

\* A connection the server serves, and does not spin over, is alive.
LEMMA ServedLives ==
    ASSUME NEW c \in Client, "server" \in ends[c], server.conn = c
    PROVE  Live(c)
BY DEF Live, Spins

\* A client this step is not about.
LEMMA AttendedKept ==
    ASSUME NEW c \in Client, Attended(c), client'[c] = client[c],
           toServer'[c] = toServer[c], toClient'[c] = toClient[c], ends'[c] = ends[c],
           Live(c)' => Live(c),
           server.conn = c => server'.conn = c /\ server'.at = server.at
    PROVE  Attended(c)'
BY DEF Attended

\* The step by c, which goes on to its test only with the server's answer.
LEMMA ClientNextAttended ==
    ASSUME TypeOK, ConnectionInv, NEW c \in Client, Conversation(c), Attended(c),
           ClientNext(c) \/ Quit(c), InOrder'
    PROVE  Attended(c)'
<1>1. /\ ClientStep(c) /\ server' = server /\ happened \subseteq happened'
      /\ Live(c)' <=> Live(c)
      /\ "server" \in ends'[c] <=> "server" \in ends[c]
      /\ ends'[c] \subseteq ends[c]
  BY ClientNextStep, ClientLives DEF ClientStep
<1>2. "slow" \notin happened'
  BY <1>1, InOrderGrows
<1>3. client[c] \in ClientState /\ toServer[c] \in Seq(Part)
  BY TypedParts
<1>4. CASE Ended(c) /\ client'[c].at = "exited"
  BY <1>4 DEF Ended, Attended
<1>5. ASSUME client'[c].at \in {"send_download", "wait_download", "rx", "send_upload"}
      PROVE  Attended(c)'
  BY <1>5 DEF Attended
<1>6. CASE SendCtrlMsg(c) /\ ~(Ended(c) /\ client'[c].at = "exited")
  <2>1. /\ client'[c] = [client[c] EXCEPT !.at = WaitFor(client[c].at)]
        /\ client[c].at \in {"send_download", "send_upload"} /\ toClient'[c] = toClient[c]
    BY <1>6, SendCtrlMsgDoes DEF SendCtrlMsg, SentTo
  <2>2. client'[c].at = WaitFor(client[c].at)
    BY <1>3, <2>1, PlacedClient DEF WaitFor, ClientPlace
  <2>3. CASE client[c].at = "send_download"
    BY <1>5, <2>2, <2>3 DEF WaitFor, Request
  <2>4. CASE client[c].at = "send_upload"
    <3>1. client'[c].at = "wait_upload" /\ toClient'[c] = <<>>
      BY <2>1, <2>2, <2>4 DEF WaitFor, Request, Conversation, Uploading
    <3> QED
      BY <3>1 DEF Attended
  <2> QED
    BY <2>1, <2>3, <2>4
<1>7. CASE CtrlMsgAnswer(c)
  <2>1. /\ client[c].at \in {"wait_download", "wait_upload"}
        /\ client'[c].at \in {Answered(client[c].at), SendAgain(client[c].at)}
    BY <1>7, CtrlMsgAnswerDoes
  <2>2. PICK n \in 1..2 : ReadOff(c, n)
    BY <1>7, CtrlMsgAnswerDoes
  <2>3. toClient[c] # <<>>
    BY <2>2, TypedParts DEF ReadOff
  <2>4. CASE client'[c].at = "tx"
    <3>1. client[c].at = "wait_upload"
      BY <2>1, <2>4 DEF Answered, SendAgain, Request
    <3> QED
      BY <1>1, <2>3, <2>4, <3>1 DEF Attended
  <2> QED
    BY <1>5, <2>1, <2>4 DEF Answered, SendAgain, Request
<1>8. CASE CtrlMsgError(c)
  <2>1. /\ client[c].at \in {"wait_download", "wait_upload"} /\ Quiet(c) /\ Failed(c)
        /\ client'[c].at \in {SendAgain(client[c].at), Refused(client[c].at)}
    BY <1>8, CtrlMsgErrorDoes
  <2>2. ASSUME client'[c].at = "done", Live(c)
        PROVE  /\ server.conn = c /\ toServer[c] = <<>>
               /\ server.at \in {"command", "rx"}
    <3>1. ends[c] = {"client", "server"} /\ server.at # "dead"
      BY <2>1, <2>2, EndsOf
    <3>2. ServerRests(c) /\ ~Spins
      BY <1>2, <2>1, <2>2, <3>1 DEF Failed, Live
    <3> QED
      BY <3>1, <3>2 DEF ServerRests
  <2>3. CASE client'[c].at = "done"
    <3>1. Live(c) => /\ server.conn = c /\ NoRequest(toServer'[c])
                     /\ server.at \in {"command", "rx"}
      BY <2>1, <2>2, <2>3, QuietWire DEF Quiet
    <3> QED
      BY <1>1, <2>3, <3>1 DEF Attended
  <2> QED
    BY <1>5, <2>1, <2>3 DEF SendAgain, Refused, Request
<1>9. CASE ExitOnClose(c) \/ Quit(c)
  BY <1>4, <1>9, ExitOnCloseDoes, QuitDoes
<1>10. CASE ClientRx(c)
  <2>1. PICK n \in 1..2 : \E t \in Types(client[c], n, toClient[c]) :
            /\ t = "end" => client'[c] = Downloaded(c, "end", client[c].count + n)
            /\ t # "end" => client'[c].at = "rx"
    BY <1>10, ClientRxDoes
  <2>2. client[c].count + n \in Nat
    BY TypedParts
  <2> QED
    BY <1>5, <2>1, <2>2, DownloadedClient
<1>11. CASE ClientRxCut(c)
  BY <1>5, <1>11, ClientRxCutDoes, DownloadedClient, TypedParts
<1>12. CASE ClientTx(c) /\ ~(Ended(c) /\ client'[c].at = "exited")
  <2>1. /\ client[c].at = "tx"
        /\ \/ client'[c].at = "tx" /\ SentTo(c, "data")
           \/ client'[c].at = "stats" /\ SentTo(c, "end")
    BY <1>12, ClientTxDoes
  <2>2. "server" \in ends[c] => server.conn = c /\ Live(c)
    BY <2>1, ServedLives DEF Attended
  <2>3. CASE client'[c].at = "tx"
    BY <1>1, <2>2, <2>3 DEF Attended
  <2>4. CASE client'[c].at = "stats" /\ SentTo(c, "end")
    <3>1. SUFFICES ASSUME Live(c)
                   PROVE  /\ server.conn = c /\ NoRequest(toServer'[c])
                          /\ server.at = "rx"
      BY <1>1, <2>4 DEF Attended
    <3>2. ends[c] = {"client", "server"} /\ server.conn = c
      BY <2>1, <2>2, <3>1, EndsOf
    <3>3. OnlyData(toServer[c]) /\ At(c) = "rx"
      BY <2>1, <3>1 DEF Conversation, Uploading
    <3>4. toServer'[c] = With(toServer[c], "end")
      BY <2>4, <3>2 DEF SentTo
    <3> QED
      BY <1>3, <3>2, <3>3, <3>4, DataSent DEF At
  <2> QED
    BY <2>1, <2>3, <2>4
<1>13. CASE ReceiveSummaryStats(c)
  <2>1. /\ client[c].at = "stats" /\ client'[c].at \in {"stats", "done"}
        /\ toServer'[c] = toServer[c]
    BY <1>13, ReceiveSummaryStatsDoes
  <2> QED
    BY <1>1, <2>1 DEF Attended
<1> QED
  BY <1>4, <1>6, <1>7, <1>8, <1>9, <1>10, <1>11, <1>12, <1>13 DEF ClientNext

\* The server's step gives its client what it waits for, and no other.
LEMMA ServerNextAttended ==
    ASSUME TypeOK, ConnectionInv, WholeInv, ServerNext, ~Accept, ~Dying,
           NEW k \in Client, server.conn = k, Attended(k), InOrder',
           happened \subseteq happened'
    PROVE  Attended(k)'
<1>1. /\ "split" \notin happened' /\ "split" \notin happened
  BY InOrderGrows
<1>2. server.cum = 0 /\ Framed(toServer[k]) /\ toServer[k] \in Seq(Part)
  BY <1>1, TypedParts DEF WholeInv
<1>3. ASSUME ServerStep(k), server'.conn = k,
             client[k].at \in {"stats", "done"} /\ Live(k) =>
                    /\ NoRequest(toServer'[k])
                    /\ server'.at \notin {"ack_upload", "ack_download", "tx"}
      PROVE  Attended(k)'
  <2>1. /\ client' = client /\ Live(k)' => Live(k)
        /\ ends'[k] \subseteq ends[k]
    BY <1>3, ServerLives, ServerNextAwake DEF ServerStep
  <2> QED
    BY <1>3, <2>1 DEF Attended, ServerStep
<1>4. CASE Command
  <2>1. ServerStep(k) /\ server'.conn = k /\ "server" \in ends[k]
    BY <1>4, CommandDoes
  <2>2. PICK n \in 1..2 :
          /\ TakenFrom(k, n)
          /\ \E t \in Types(server, n, toServer[k]) :
                server'.at = CASE t = "upload" -> "ack_upload"
                                [] t = "download" -> "ack_download"
                                [] OTHER -> "command"
    BY <1>4, CommandHears
  <2>3. /\ toServer[k] # <<>> /\ Types(server, n, toServer[k]) = {toServer[k][1]}
        /\ toServer'[k] = After(2, toServer[k])
    BY <1>1, <1>2, <2>2, TakenWhole
  <2>4. 1 \in DOMAIN toServer[k] /\ Len(toServer[k]) >= 2
    BY <1>2, <2>3, FramedAfter
  <2>5. ASSUME NoRequest(toServer[k])
        PROVE  server'.at = "command" /\ NoRequest(toServer'[k])
    <3>1. toServer[k][1] \notin {"upload", "download"}
      BY <2>4, <2>5 DEF NoRequest
    <3> QED
      BY <1>2, <2>2, <2>3, <2>4, <2>5, <3>1, QuietAfter
  <2> QED
    BY <1>3, <2>1, <2>5 DEF Attended
<1>5. CASE CommandEnds
  <2>1. ServerStep(k) /\ ClosedTo(k)
    BY <1>5, CommandEndsDoes
  <2>2. "server" \notin ends'[k] /\ ~Live(k)' /\ client' = client
    BY <2>1 DEF ClosedTo, Live, ServerStep
  <2> QED
    BY <2>1, <2>2 DEF Attended, ClosedTo
<1>6. CASE SendAck
  <2>1. /\ ServerStep(k) /\ server.at \in {"ack_upload", "ack_download"}
        /\ server'.conn = k
    BY <1>6, SendAckDoes, SendsOrDies
  <2> QED
    BY <1>3, <2>1 DEF Attended
<1>7. CASE SendAckFails
  <2>1. /\ ServerStep(k) /\ Still(k) /\ server'.conn = k
        /\ server'.at \in {"stats", "command"}
    BY <1>7, SendAckFailsDoes
  <2> QED
    BY <1>3, <2>1 DEF Attended, Still
<1>8. CASE ServerRx
  <2>1. ServerStep(k) /\ server'.conn = k /\ server'.at \in {"rx", "stats"}
    BY <1>8, ServerRxDoes
  <2>2. PICK n \in 1..2 : TakenFrom(k, n)
    BY <1>8, ServerRxDoes
  <2>3. toServer'[k] = After(2, toServer[k]) /\ Len(toServer[k]) >= 2
    <3>1. toServer[k] # <<>> /\ toServer'[k] = After(2, toServer[k])
      BY <1>1, <1>2, <2>2, TakenWhole
    <3> QED
      BY <1>2, <3>1, FramedAfter
  <2> QED
    BY <1>2, <1>3, <2>1, <2>3, QuietAfter DEF Attended
<1>9. CASE ServerRxCut
  <2>1. /\ ServerStep(k) /\ server'.at = "stats" /\ server'.conn = k
        /\ toServer'[k] = <<>> \/ toServer'[k] = toServer[k]
    BY <1>9, ServerRxCutDoes DEF ClosedTo, Still
  <2> QED
    BY <1>3, <2>1, QuietWire DEF Attended
<1>10. CASE ServerTx
  <2>1. ServerStep(k) /\ server.at = "tx" /\ server'.conn = k
    BY <1>10, ServerTxDoes, SendsOrDies
  <2> QED
    BY <1>3, <2>1 DEF Attended
<1>11. CASE SendSummaryStats
  <2>1. /\ ServerStep(k) /\ server'.at = "command" /\ server'.conn = k
        /\ toServer'[k] = toServer[k]
    BY <1>11, SendSummaryStatsDoes, SendsOrDies DEF GivenTo
  <2> QED
    BY <1>3, <2>1 DEF Attended
<1> QED
  BY <1>4, <1>5, <1>6, <1>7, <1>8, <1>9, <1>10, <1>11 DEF ServerNext

LEMMA SpeedAttendStep ==
    /\ TypeOK /\ ConnectionInv /\ WholeInv /\ LockstepInv /\ AttendInv
    /\ [Next]_vars
    => AttendInv'
<1> SUFFICES ASSUME TypeOK, ConnectionInv, WholeInv, LockstepInv, AttendInv,
                    [Next]_vars, InOrder', NEW d \in Client
             PROVE  Attended(d)'
  BY DEF AttendInv
<1>1. ASSUME happened \subseteq happened'
      PROVE  /\ \A c \in Client : Attended(c)
             /\ \A c \in Client : Conversation(c)
  BY <1>1, InOrderGrows DEF AttendInv, LockstepInv
<1>2. CASE UNCHANGED vars
  <2>1. Attended(d) /\ (Live(d)' <=> Live(d))
    BY <1>1, <1>2 DEF vars, wires, history, Live, Spins
  <2> QED
    BY <1>2, <2>1 DEF vars, wires, Attended
<1>3. ASSUME NEW c \in Client, Connect(c) PROVE Attended(d)'
  <2>1. /\ client[c].at = "idle" /\ client'[c].at \in {"send_download", "done"}
        /\ client'[c].at = "done" => server.at = "dead" /\ ends' = ends
        /\ \A e \in Client : e # c => client'[e] = client[e] /\ ends'[e] = ends[e]
        /\ UNCHANGED <<server, toServer, toClient, happened>> /\ server.conn # c
    BY <1>3, ConnectDoes DEF history
  <2>2. CASE d = c
    <3>1. client'[c].at = "done" => "server" \notin ends'[c]
      BY <2>1 DEF ConnectionInv
    <3> QED
      BY <2>1, <2>2, <3>1 DEF Attended, Live
  <2>3. CASE d # c
    <3>1. Spins' <=> Spins
      <4>1. CASE server.at = "command"
        <5>1. PICK k \in Client : server.conn = k
          BY <4>1, Served
        <5> QED
          BY <2>1, <5>1 DEF Spins
      <4>2. CASE server.at # "command"
        BY <2>1, <4>2 DEF Spins
      <4> QED
        BY <4>1, <4>2
    <3>2. Live(d)' => Live(d)
      BY <2>1, <2>3, <3>1 DEF Live
    <3> QED
      BY <1>1, <2>1, <2>3, <3>2, AttendedKept
  <2> QED
    BY <2>2, <2>3
<1>4. ASSUME NEW c \in Client, ClientNext(c) \/ Quit(c) PROVE Attended(d)'
  <2>1. ClientStep(c) /\ server' = server /\ happened \subseteq happened'
    BY <1>4, ClientNextStep DEF ClientStep
  <2>2. CASE d = c
    BY <1>1, <1>4, <2>1, <2>2, ClientNextAttended
  <2>3. CASE d # c
    BY <1>1, <2>1, <2>3, OthersStay, ClientLives, AttendedKept
  <2> QED
    BY <2>2, <2>3
<1>5. CASE Accept
  <2>1. /\ UNCHANGED <<client, toServer, toClient, ends, happened>>
        /\ server.conn = None /\ server.at = "accept" /\ None # d
    BY <1>5, AcceptDoes, ClientAssumption DEF wires, history
  <2>2. Live(d)' => Live(d)
    BY <2>1 DEF Live, Spins
  <2> QED
    BY <1>1, <2>1, <2>2, AttendedKept
<1>6. CASE Dying
  <2>1. /\ UNCHANGED <<client, toClient>> /\ happened \subseteq happened'
        /\ ends'[d] = ends[d] \ {"server"}
    BY <1>6, DiesDoes DEF Dying
  <2> QED
    BY <1>1, <2>1 DEF Attended, Live
<1>7. CASE ServerNext /\ ~Accept /\ ~Dying
  <2>1. PICK k \in Client : server.conn = k /\ ServerStep(k)
    BY <1>7, ServerNextOthers
  <2>2. client' = client /\ happened \subseteq happened' /\ ~Spins
    BY <1>7, <2>1, ServerNextAwake DEF ServerStep
  <2>3. CASE d = k
    BY <1>1, <1>7, <2>1, <2>2, <2>3, ServerNextAttended
  <2>4. CASE d # k
    <3>1. Live(d)' => Live(d)
      BY <2>1, <2>2, ServerLives
    <3> QED
      BY <1>1, <2>1, <2>2, <2>4, <3>1, OthersWait, AttendedKept
  <2> QED
    BY <2>3, <2>4
<1> QED
  BY <1>2, <1>3, <1>4, <1>5, <1>6, <1>7, CrashDies DEF Next

LEMMA AttendedReads ==
    TypeOK /\ LockstepInv /\ AttendInv => SendsAreRead
<1> SUFFICES ASSUME TypeOK, LockstepInv, AttendInv, InOrder, NEW c \in Client,
                    ends[c] = {"client", "server"}
             PROVE  /\ client[c].at = "tx" => server.conn = c /\ server.at = "rx"
                    /\ server.conn = c /\ server.at = "tx" =>
                            client[c].at \in {"wait_download", "rx"}
  BY DEF SendsAreRead
<1>1. Conversation(c) /\ Attended(c)
  BY DEF LockstepInv, AttendInv
<1>2. server.conn = c => Live(c) /\ At(c) = server.at
  BY ServedLives DEF At
<1>3. ASSUME client[c].at = "tx" PROVE server.conn = c /\ server.at = "rx"
  <2>1. server.conn = c
    BY <1>1, <1>3 DEF Attended
  <2> QED
    BY <1>1, <1>2, <1>3, <2>1 DEF Conversation, Uploading
<1>4. ASSUME server.conn = c, server.at = "tx"
      PROVE  client[c].at \in {"wait_download", "rx"}
  <2>1. CASE Downloads(c)
    BY <1>1, <1>2, <1>4, <2>1 DEF Conversation, Downloading
  <2>2. CASE client[c].at \in {"send_upload", "wait_upload", "tx"}
    BY <1>1, <1>2, <1>4, <2>2 DEF Conversation, Uploading
  <2>3. CASE client[c].at \in {"stats", "done", "exited"}
    BY <1>1, <1>2, <1>4, <2>3 DEF Attended
  <2> QED
    BY <2>1, <2>2, <2>3, Places, TypedParts
<1> QED
  BY <1>3, <1>4

\* As long as no recv times out early or returns a part of a packet, a side
\* that sends a test has the other side reading it: client and server never
\* wait for each other in sends, which have no timeout, however small the
\* buffers of the connection are, and whoever is killed meanwhile.
THEOREM SpeedSendsRead == Spec => []SendsAreRead
<1>1. Init => AttendInv
  BY DEF Init, AttendInv, Attended
<1>2. /\ TypeOK /\ ConnectionInv /\ WholeInv /\ LockstepInv /\ AttendInv
      /\ [Next]_vars
      => AttendInv'
  BY SpeedAttendStep
<1> QED
  BY <1>1, <1>2, AttendedReads, SpeedWhole, SpeedLockstep, PTL DEF Spec

=============================================================================
