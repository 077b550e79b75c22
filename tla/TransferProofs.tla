--------------------------- MODULE TransferProofs ---------------------------
(***************************************************************************)
(* What the transfer of UdpTransfer guarantees on a patient network, one   *)
(* that loses datagrams but neither repeats nor delays them beyond the     *)
(* timer: scripts are executed whole, the heap is not damaged, success     *)
(* means execution, and UdpTransfer implements TransferService.            *)
(***************************************************************************)
EXTENDS UdpTransferProofs, FiniteSetTheorems

USE BoundAssumption

\* A patient network and patient users: no late datagram, no probe while a
\* task runs, and no two tasks in one second.  Losses, stops and restarts
\* remain.
PatientNetwork == Env \intersect {"late", "detect", "samesecond"} = {}

\* The datagrams of n's task, and the packet n would retransmit.
Tracks(n) == Around(n) \union {q \in resend_packet[n] : Live(n)}

\* What n sent last, under uuid u.
Sent(n, u) == DataTo(n, target_ip[n], u, send_index[n], Size[send_data[n]])

\* The task whose fragment a data packet carries.
TaskOf(p) == p.chunk[1]

\* If the buffer is there, it is as long as the script and has the first i
\* fragments of task t.
Holds(b, t, k, i) ==
    b # NoBuffer => DOMAIN b = 0..(k - 1) /\ \A j \in 0..(i - 1) : b[j] = <<t, j>>

Ran(t) == \E m \in Node : \E j \in DOMAIN executed[m] : executed[m][j] = Whole(t)

-----------------------------------------------------------------------------
\* No probe holds the main thread, and only the handler of an acknowledgement
\* holds one.
Handling(n) ==
    /\ pc[n] \in {"idle", "begin", "ack"}
    /\ pc[n] # "idle" => is_tasking[n]
    /\ pc[n] # "ack" => held[n] = {}
    /\ \A p \in held[n] : p.type = "ack" /\ p.dst = n

\* Stop and wait: a task has at most one datagram on its way, and none while
\* n begins the next or handles an acknowledgement.
StopAndWait(n) ==
    /\ \A p, r \in InNet(n) : p = r
    /\ pc[n] # "idle" => InNet(n) = {}

\* A live task retransmits what it sent last, and has nothing around but that
\* or its acknowledgement.
KeepsSent(n) ==
    Live(n) =>
        /\ target_ip[n] \in Node
        /\ send_index[n] \in 0..(Size[send_data[n]] - 1)
        /\ \E u \in 0..(clock - 1) :
            /\ resend_packet[n] = {Sent(n, u)}
            /\ Around(n) \subseteq {Sent(n, u), AckFor(target_ip[n], Sent(n, u))}

\* When a fragment arrives, those before it are in the buffer, if there still
\* is one; when an acknowledgement arrives, the fragment it acknowledges too.
Filled(n, p) ==
    IF p.type = "data"
    THEN p.index > 0 => Holds(recv_data_map[p.dst][p.uuid], TaskOf(p), p.total, p.index)
    ELSE Live(n) => Holds(recv_data_map[p.src][p.uuid], send_data[n], p.total, p.index)

\* The last acknowledgement of a task comes after its execution.
AckedRan(n) ==
    \A p \in Around(n) : Live(n) /\ p.type = "ack" /\ p.index >= p.total
                            => Ran(send_data[n])

NodeInv(n) ==
    /\ Handling(n) /\ StopAndWait(n) /\ KeepsSent(n) /\ AckedRan(n)
    /\ \A p \in Tracks(n) : Filled(n, p)
    /\ is_tasking[n] => send_data[n] \in 1..begun

\* A data packet carries the fragment of its index, of a task that began.
Carries(p) ==
    p.type = "data" =>
        /\ TaskOf(p) \in 1..begun
        /\ p.chunk = <<TaskOf(p), p.index>>
        /\ p.total = Size[TaskOf(p)] /\ p.index < p.total

\* Every transfer has its own uuid.
UuidInv ==
    \A n \in Node :
        /\ \A p \in Tracks(n) : p.uuid < clock
        /\ \A m \in Node \ {n} : \A p \in Tracks(n), r \in Tracks(m) : p.uuid # r.uuid

WholeInv ==
    /\ \A n \in Node : NodeInv(n)
    /\ \A p \in net : Carries(p)
    /\ UuidInv
    /\ DeliveredWhole /\ NoHeapFault /\ SuccessMeansDelivered

-----------------------------------------------------------------------------
\* A step of n's task: other nodes' tasks, their datagrams, and the buffers
\* that are not of its uuid stay, or a buffer is given up with its process.
OwnStep(n) ==
    /\ \A m \in Node \ {n} :
        /\ is_tasking'[m] = is_tasking[m] /\ pc'[m] = pc[m] /\ held'[m] = held[m]
        /\ send_index'[m] = send_index[m] /\ send_data'[m] = send_data[m]
        /\ target_ip'[m] = target_ip[m] /\ resend_packet'[m] = resend_packet[m]
    /\ \A p : Owner(p) # n => (p \in net' <=> p \in net)
    /\ \A m \in Node : \A u \in Uuid :
        \/ recv_data_map'[m][u] = recv_data_map[m][u]
        \/ recv_data_map'[m][u] = NoBuffer
        \/ \E p \in Tracks(n) : p.uuid = u

\* What such a step leaves of n's task, if it keeps the invariant.
OwnKept(n) ==
    /\ NodeInv(n)'
    /\ \A p \in Tracks(n)' :
        /\ p.uuid < clock'
        /\ p.uuid = clock \/ \E r \in Tracks(n) : p.uuid = r.uuid
    /\ \A p \in net' : p \in net \/ Carries(p)'

\* What has happened stays so.
Later ==
    /\ clock <= clock' /\ begun <= begun'
    /\ \A m \in Node : \A j \in DOMAIN executed[m] :
            j \in DOMAIN executed'[m] /\ executed'[m][j] = executed[m][j]
    /\ \A m \in Node : \A t \in reported'[m] : t \in reported[m] \/ Ran(t)'

LEMMA CountersType ==
    ASSUME TypeOK
    PROVE  begun \in Nat /\ begun <= MaxTasks /\ clock \in Nat
<1>1. begun \in 0..MaxTasks
  BY DEF TypeOK, HistoryTypeOK
<1>2. clock \in 0..MaxTasks
  BY DEF TypeOK, NetTypeOK, Uuid
<1> QED
  BY <1>1, <1>2

LEMMA TracksType ==
    ASSUME TypeOK, NEW n \in Node, NEW p \in Tracks(n)
    PROVE  /\ p \in DataPacket \/ p \in AckPacket
           /\ p \in DataPacket => p.type = "data"
           /\ p \in AckPacket => p.type = "ack"
           /\ p.src \in Node /\ p.dst \in Node /\ p.uuid \in Uuid
BY DEF Tracks, Around, InNet, TypeOK, TimerTypeOK, NetTypeOK, DataPacket, AckPacket

\* The tasks of the other nodes are as they were.
LEMMA OthersStay ==
    ASSUME TypeOK, NEW n \in Node, OwnStep(n), NEW m \in Node \ {n}
    PROVE  /\ InNet(m)' = InNet(m) /\ Around(m)' = Around(m)
           /\ Live(m)' = Live(m) /\ Tracks(m)' = Tracks(m)
<1>1. InNet(m)' = InNet(m)
  BY DEF InNet, OwnStep
<1>2. held'[m] = held[m] /\ resend_packet'[m] = resend_packet[m]
  BY DEF OwnStep
<1>3. Live(m)' = Live(m)
  BY DEF Live, OwnStep
<1> QED
  BY <1>1, <1>2, <1>3 DEF Around, Tracks

LEMMA RanStays ==
    ASSUME Later, NEW t, Ran(t)
    PROVE  Ran(t)'
BY DEF Later, Ran, Whole

\* A shorter buffer holds nothing, so a transfer whose buffer stays or goes
\* keeps what it holds.
LEMMA OthersFilled ==
    ASSUME TypeInv, WholeInv, NEW n \in Node, OwnStep(n), NEW m \in Node \ {n},
           NEW p \in Tracks(m)
    PROVE  Filled(m, p)'
<1>1. /\ p.src \in Node /\ p.dst \in Node /\ p.uuid \in Uuid
      /\ p.type = "data" \/ p.type = "ack"
  BY TracksType DEF TypeInv
<1>2. \A r \in Tracks(n) : r.uuid # p.uuid
  BY DEF WholeInv, UuidInv
<1>3. \A k \in Node : \/ recv_data_map'[k][p.uuid] = recv_data_map[k][p.uuid]
                      \/ recv_data_map'[k][p.uuid] = NoBuffer
  BY <1>1, <1>2 DEF OwnStep
<1>4. Filled(m, p)
  BY DEF WholeInv, NodeInv
<1>5. Live(m)' = Live(m) /\ send_data'[m] = send_data[m]
  BY OthersStay DEF TypeInv, OwnStep
<1>6. CASE p.type = "data"
  <2>1. ASSUME p.index > 0
        PROVE  Holds(recv_data_map'[p.dst][p.uuid], TaskOf(p), p.total, p.index)
    BY <1>1, <1>3, <1>4, <1>6, <2>1 DEF Filled, Holds
  <2> QED
    BY <1>6, <2>1 DEF Filled, Holds, TaskOf
<1>7. CASE p.type = "ack"
  <2>1. ASSUME Live(m)
        PROVE  Holds(recv_data_map'[p.src][p.uuid], send_data[m], p.total, p.index)
    BY <1>1, <1>3, <1>4, <1>7, <2>1 DEF Filled, Holds
  <2> QED
    BY <1>5, <1>7, <2>1 DEF Filled, Holds
<1> QED
  BY <1>1, <1>6, <1>7

\* So a step of n's task that keeps n's part keeps the other nodes' parts.
LEMMA OthersKept ==
    ASSUME TypeInv, TypeInv', WholeInv, NEW n \in Node, OwnStep(n), Later,
           NEW m \in Node \ {n}
    PROVE  NodeInv(m)'
<1> USE DEF TypeInv, TypeOK
<1>0. NodeInv(m)
  BY DEF WholeInv
<1>1. /\ InNet(m)' = InNet(m) /\ Around(m)' = Around(m)
      /\ Live(m)' = Live(m) /\ Tracks(m)' = Tracks(m)
  BY OthersStay
<1>2. /\ is_tasking'[m] = is_tasking[m] /\ pc'[m] = pc[m] /\ held'[m] = held[m]
      /\ send_index'[m] = send_index[m] /\ send_data'[m] = send_data[m]
      /\ target_ip'[m] = target_ip[m] /\ resend_packet'[m] = resend_packet[m]
  BY DEF OwnStep
<1>3. Handling(m)' /\ StopAndWait(m)'
  BY <1>0, <1>1, <1>2 DEF NodeInv, Handling, StopAndWait
<1>4. KeepsSent(m)'
  <2>1. \A u \in 0..(clock - 1) : Sent(m, u)' = Sent(m, u)
    BY <1>2 DEF Sent, DataTo, FragmentOf
  <2>2. \A k, p : AckFor(k, p)' = AckFor(k, p)
    BY DEF AckFor
  <2>3. 0..(clock - 1) \subseteq 0..(clock' - 1)
    BY DEF Later, NetTypeOK, Uuid
  <2> HIDE DEF TypeInv, TypeOK
  <2> SUFFICES ASSUME Live(m)' PROVE KeepsSent(m)'
    BY DEF KeepsSent
  <2>4. Live(m) /\ KeepsSent(m)
    BY <1>0, <1>1 DEF NodeInv
  <2>5. PICK u \in 0..(clock - 1) :
            /\ resend_packet[m] = {Sent(m, u)}
            /\ Around(m) \subseteq {Sent(m, u), AckFor(target_ip[m], Sent(m, u))}
    BY <2>4 DEF KeepsSent
  <2>6. /\ target_ip'[m] \in Node
        /\ send_index'[m] \in 0..(Size[send_data'[m]] - 1)
    BY <1>2, <2>4 DEF KeepsSent
  <2>7. /\ u \in 0..(clock' - 1)
        /\ resend_packet'[m] = {Sent(m, u)'}
        /\ Around(m)' \subseteq {Sent(m, u)', AckFor(target_ip[m], Sent(m, u))'}
    <3>1. AckFor(target_ip[m], Sent(m, u))' = AckFor(target_ip[m], Sent(m, u))
      BY <1>2, <2>1 DEF AckFor
    <3> QED
      BY <1>1, <1>2, <2>1, <2>3, <2>5, <3>1
  <2> QED
    BY <2>6, <2>7 DEF KeepsSent
<1>5. AckedRan(m)'
  BY <1>0, <1>1, <1>2, RanStays DEF NodeInv, AckedRan
<1>6. \A p \in Tracks(m)' : Filled(m, p)'
  BY <1>1, OthersFilled
<1>7. is_tasking'[m] => send_data'[m] \in 1..begun'
  <2>1. begun' \in 0..MaxTasks /\ begun \in 0..MaxTasks
    BY DEF HistoryTypeOK
  <2>2. is_tasking[m] => send_data[m] \in 1..begun
    BY <1>0 DEF NodeInv
  <2>3. begun <= begun'
    BY DEF Later
  <2> HIDE DEF TypeInv, TypeOK
  <2> QED
    BY <1>2, <2>1, <2>2, <2>3
<1> QED
  BY <1>3, <1>4, <1>5, <1>6, <1>7 DEF NodeInv

\* The parts of the invariant that are about two nodes, or about history.
LEMMA OwnStepKeepsInv ==
    ASSUME TypeInv, TypeInv', WholeInv, NEW n \in Node, OwnStep(n), OwnKept(n),
           Later, DeliveredWhole', NoHeapFault'
    PROVE  WholeInv'
<1>1. \A m \in Node : NodeInv(m)'
  BY OthersKept DEF OwnKept
<1>2. \A p \in net' : Carries(p)'
  <2>1. ASSUME NEW p \in net', p \in net PROVE Carries(p)'
    <3>1. Carries(p)
      BY <2>1 DEF WholeInv
    <3>2. begun \in Nat /\ begun' \in Nat /\ begun <= begun'
      <4>1. begun \in Nat
        BY CountersType DEF TypeInv
      <4>2. begun' \in Nat
        <5>1. begun' \in 0..MaxTasks
          BY DEF TypeInv, TypeOK, HistoryTypeOK
        <5> QED
          BY <5>1
      <4> QED
        BY <4>1, <4>2 DEF Later
    <3> QED
      BY <3>1, <3>2 DEF Carries, TaskOf
  <2> QED
    BY <2>1 DEF OwnKept
<1>3. UuidInv'
  <2>0. clock \in Nat /\ clock' \in Nat /\ clock <= clock'
    BY DEF TypeInv, TypeOK, NetTypeOK, Uuid, Later
  <2>1. \A m \in Node \ {n} : Tracks(m)' = Tracks(m)
    BY OthersStay DEF TypeInv
  <2>2. \A m \in Node \ {n} : \A p \in Tracks(m) : p.uuid \in Nat /\ p.uuid < clock
    BY TracksType DEF WholeInv, UuidInv, TypeInv, Uuid
  <2>3. \A m \in Node : \A p \in Tracks(m)' : p.uuid < clock'
    BY <2>0, <2>1, <2>2 DEF OwnKept
  <2>4. \A m \in Node \ {n} : \A p \in Tracks(n)', r \in Tracks(m) : p.uuid # r.uuid
    BY <2>2, <2>0 DEF WholeInv, UuidInv, OwnKept
  <2>5. \A m \in Node : \A k \in Node \ {m} :
            \A p \in Tracks(m), r \in Tracks(k) : p.uuid # r.uuid
    BY DEF WholeInv, UuidInv
  <2>6. ASSUME NEW k \in Node, NEW m \in Node, m # k,
               NEW p \in Tracks(k)', NEW r \in Tracks(m)'
        PROVE  p.uuid # r.uuid
    <3>1. CASE k = n
      BY <3>1, <2>1, <2>4, <2>6
    <3>2. CASE m = n
      BY <3>2, <2>1, <2>4, <2>6
    <3>3. CASE k # n /\ m # n
      BY <3>3, <2>1, <2>5, <2>6
    <3> QED
      BY <3>1, <3>2, <3>3
  <2> QED
    BY <2>3, <2>6 DEF UuidInv
<1>4. SuccessMeansDelivered'
  <2>1. ASSUME NEW m \in Node, NEW t \in reported'[m] PROVE Ran(t)'
    <3>1. t \in reported[m] => Ran(t)
      BY DEF WholeInv, SuccessMeansDelivered, Ran
    <3> QED
      BY <3>1, RanStays DEF Later
  <2> QED
    BY <2>1 DEF SuccessMeansDelivered, Ran
<1> QED
  BY <1>1, <1>2, <1>3, <1>4 DEF WholeInv

-----------------------------------------------------------------------------
\* What n sent last, field by field.
LEMMA SentFields ==
    ASSUME TypeOK, NEW n \in Node, NEW u, send_data[n] \in Task,
           send_index[n] \in 0..(Size[send_data[n]] - 1)
    PROVE  LET q == Sent(n, u)
           IN  /\ q.type = "data" /\ q.src = n /\ q.dst = target_ip[n] /\ q.uuid = u
               /\ q.index = send_index[n] /\ q.total = Size[send_data[n]]
               /\ q.chunk = <<send_data[n], send_index[n]>> /\ TaskOf(q) = send_data[n]
               /\ Owner(q) = n /\ q.index < q.total
<1>1. send_index[n] < Size[send_data[n]]
  BY SizeAssumption DEF Task
<1>2. FragmentOf(n, send_index[n]) = <<send_data[n], send_index[n]>>
  BY <1>1 DEF FragmentOf
<1> QED
  BY <1>1, <1>2 DEF Sent, DataTo, TaskOf, Owner

LEMMA AckFields ==
    ASSUME NEW m, NEW p
    PROVE  LET a == AckFor(m, p)
           IN  /\ a.type = "ack" /\ a.src = m /\ a.dst = p.src /\ a.uuid = p.uuid
               /\ a.index = p.index + 1 /\ a.total = p.total
               /\ Owner(a) = p.src
BY DEF AckFor, Owner

\* On a patient network nothing is read twice, and whoever begins or times
\* out has nothing around.
LEMMA ConsumeOnce ==
    ASSUME PatientNetwork, NEW p, NEW replies, Consume(p, replies)
    PROVE  net' = (net \ {p}) \union replies
BY DEF PatientNetwork, Consume

LEMMA PatientIsAlone ==
    ASSUME PatientNetwork, TypeInv, WholeInv, NEW n \in Node, Patient(n)
    PROVE  pc[n] = "idle" /\ InNet(n) = {} /\ Around(n) = {}
<1>1. \A m \in Node : pc[m] # "probe"
  BY DEF WholeInv, NodeInv, Handling
<1>2. \A p \in net : p.dst \in Node
  BY DEF TypeInv, TypeOK, NetTypeOK, DataPacket, AckPacket
<1>3. Quiet(n)
  BY <1>1, <1>2 DEF Patient, HeldUp, PatientNetwork
<1>4. pc[n] = "idle"
  BY <1>1, <1>3 DEF Quiet
<1>5. InNet(n) = {}
  BY <1>3 DEF InNet, Quiet, Owner
<1>6. held[n] = {}
  BY <1>4 DEF WholeInv, NodeInv, Handling
<1> QED
  BY <1>4, <1>5, <1>6 DEF Around

\* What is executed and whose heap is damaged stays.
LEMMA NothingRuns ==
    ASSUME TypeInv, TypeInv', WholeInv, UNCHANGED <<executed, reported>>,
           clock <= clock', begun <= begun'
    PROVE  Later /\ DeliveredWhole'
<1>1. Later
  BY DEF Later
<1>2. 1..begun \subseteq 1..begun'
  <2>1. begun \in 0..MaxTasks /\ begun' \in 0..MaxTasks
    BY DEF TypeInv, TypeOK, HistoryTypeOK
  <2> QED
    BY <2>1
<1>3. DeliveredWhole'
  <2>1. DeliveredWhole
    BY DEF WholeInv
  <2> QED
    BY <1>2, <2>1 DEF DeliveredWhole, Whole
<1> QED
  BY <1>1, <1>3

LEMMA BeginTaskKeepsWhole ==
    ASSUME PatientNetwork, TypeInv, TypeInv', WholeInv, NEW n \in Node, NEW m \in Node,
           BeginTask(n, m)
    PROVE  WholeInv'
<1> USE DEF TypeInv, TypeOK, TaskTypeOK, TimerTypeOK
<1>1. Around(n) = {} /\ InNet(n) = {}
  BY PatientIsAlone DEF BeginTask
<1>2. UNCHANGED <<net, held, resend_packet, executed, recv_data_map, fault, reported, clock>>
  BY DEF BeginTask, receiverVars
<1>3. Around(n)' = {} /\ InNet(n)' = {}
  BY <1>1, <1>2 DEF Around, InNet
<1>4. pc'[n] = "begin" /\ is_tasking'[n] /\ send_data'[n] = begun + 1 /\ begun' = begun + 1
  BY DEF BeginTask
<1>5. ~Live(n)'
  BY <1>4 DEF Live
<1>6. Tracks(n)' = {}
  BY <1>3, <1>5 DEF Tracks
<1>7. OwnStep(n)
  BY <1>2 DEF OwnStep, BeginTask
<1>8. NodeInv(n)'
  <2>1. Handling(n)'
    BY <1>2, <1>3, <1>4 DEF Handling, Around
  <2>2. StopAndWait(n)' /\ AckedRan(n)' /\ KeepsSent(n)'
    BY <1>3, <1>5 DEF StopAndWait, AckedRan, KeepsSent
  <2>3. send_data'[n] \in 1..begun'
    BY <1>4, CountersType
  <2> QED
    BY <1>6, <2>1, <2>2, <2>3 DEF NodeInv
<1>9. OwnKept(n)
  BY <1>2, <1>6, <1>8 DEF OwnKept
<1>10. Later /\ DeliveredWhole'
  <2>1. clock <= clock' /\ begun <= begun'
    BY <1>2, <1>4, CountersType
  <2> QED
    BY <1>2, <2>1, NothingRuns
<1>11. NoHeapFault'
  BY <1>2 DEF WholeInv, NoHeapFault
<1> QED
  BY <1>7, <1>9, <1>10, <1>11, OwnStepKeepsInv

LEMMA BeginSendKeepsWhole ==
    ASSUME PatientNetwork, TypeInv, TypeInv', WholeInv, NEW n \in Node, BeginSend(n)
    PROVE  WholeInv'
<1> USE DEF TypeInv, TypeOK, TaskTypeOK, TimerTypeOK
<1>0. PICK u, q : u = clock /\ q = DataTo(n, target_ip[n], u, 0, Size[send_data[n]])
  OBVIOUS
<1>1. /\ net' = net \union {q} /\ resend_packet' = [resend_packet EXCEPT ![n] = {q}]
      /\ send_index' = [send_index EXCEPT ![n] = 0] /\ pc' = [pc EXCEPT ![n] = "idle"]
      /\ UNCHANGED <<is_tasking, send_data, target_ip, held, executed, recv_data_map,
                     fault, reported, begun>>
  BY <1>0 DEF BeginSend, receiverVars, historyVars
<1>2. clock' = clock + 1
  BY DEF BeginSend, PatientNetwork
<1>3. pc[n] = "begin" /\ is_tasking[n] /\ InNet(n) = {} /\ held[n] = {}
  BY DEF BeginSend, WholeInv, NodeInv, Handling, StopAndWait
<1>4. send_data[n] \in 1..begun /\ send_data[n] \in Task /\ target_ip[n] \in Node
  BY <1>3 DEF WholeInv, NodeInv, BegunWell
<1>5. q = Sent(n, u)'
  BY <1>0, <1>1 DEF Sent, DataTo, FragmentOf
<1>6. Size[send_data[n]] \in 1..MaxFrags
  BY <1>4, SizeAssumption DEF Task
<1>7. /\ q.type = "data" /\ q.uuid = clock /\ q.index = 0 /\ Owner(q) = n
      /\ q.total = Size[send_data[n]] /\ q.chunk = <<send_data[n], 0>>
      /\ TaskOf(q) = send_data[n] /\ q.index < q.total
  BY <1>0, <1>4, <1>6 DEF DataTo, FragmentOf, Owner, TaskOf
<1>8. InNet(n)' = {q} /\ Around(n)' = {q}
  BY <1>1, <1>3, <1>7 DEF InNet, Around
<1>9. Live(n)' /\ Tracks(n)' = {q}
  BY <1>1, <1>3, <1>8 DEF Live, Tracks
<1>10. OwnStep(n)
  BY <1>1, <1>7 DEF OwnStep
<1>11. NodeInv(n)'
  <2>1. Handling(n)' /\ StopAndWait(n)'
    BY <1>1, <1>3, <1>8 DEF Handling, StopAndWait
  <2>2. KeepsSent(n)'
    <3>1. u \in 0..(clock' - 1)
      BY <1>0, <1>2, CountersType
    <3>2. target_ip'[n] \in Node /\ send_index'[n] \in 0..(Size[send_data'[n]] - 1)
      BY <1>1, <1>4, <1>6
    <3>3. resend_packet'[n] = {Sent(n, u)'}
      BY <1>1, <1>5
    <3>4. Around(n)' \subseteq {Sent(n, u)'}
      BY <1>5, <1>8
    <3> QED
      BY <3>1, <3>2, <3>3, <3>4 DEF KeepsSent
  <2>3. AckedRan(n)'
    BY <1>7, <1>8 DEF AckedRan
  <2>4. \A p \in Tracks(n)' : Filled(n, p)'
    BY <1>7, <1>9 DEF Filled
  <2>5. send_data'[n] \in 1..begun'
    BY <1>1, <1>4
  <2> QED
    BY <2>1, <2>2, <2>3, <2>4, <2>5 DEF NodeInv
<1>12. OwnKept(n)
  <2>1. Carries(q)'
    BY <1>1, <1>4, <1>7 DEF Carries, TaskOf
  <2>2. clock < clock'
    BY <1>2, CountersType
  <2> QED
    BY <1>1, <1>7, <1>9, <1>11, <2>1, <2>2 DEF OwnKept
<1>13. Later /\ DeliveredWhole'
  <2>1. clock <= clock' /\ begun <= begun'
    BY <1>1, <1>2, CountersType
  <2> QED
    BY <1>1, <2>1, NothingRuns
<1>14. NoHeapFault'
  BY <1>1 DEF WholeInv, NoHeapFault
<1> QED
  BY <1>10, <1>12, <1>13, <1>14, OwnStepKeepsInv

-----------------------------------------------------------------------------
\* Where nothing new is sent, what is around was around.
LEMMA FewerTracks ==
    ASSUME NEW n \in Node, net' \subseteq net, held'[n] \subseteq held[n],
           resend_packet'[n] = resend_packet[n] \/ ~Live(n)', Live(n)' => Live(n)
    PROVE  /\ InNet(n)' \subseteq InNet(n) /\ Around(n)' \subseteq Around(n)
           /\ Tracks(n)' \subseteq Tracks(n)
<1>1. InNet(n)' \subseteq InNet(n)
  BY DEF InNet
<1>2. Around(n)' \subseteq Around(n)
  BY <1>1 DEF Around
<1> QED
  BY <1>1, <1>2 DEF Tracks

\* A step that ends n's task, or is taken when n has none.
LEMMA TaskOverKeepsWhole ==
    ASSUME TypeInv, TypeInv', WholeInv, NEW n \in Node, OwnStep(n),
           ~is_tasking'[n], pc'[n] = "idle", held'[n] = {}, net' \subseteq net,
           UNCHANGED <<executed, clock, begun>>,
           \A m \in Node : \A u \in Uuid : \/ recv_data_map'[m][u] = recv_data_map[m][u]
                                           \/ recv_data_map'[m][u] = NoBuffer,
           \A m \in Node : \A t \in reported'[m] : t \in reported[m] \/ Ran(t),
           NoHeapFault'
    PROVE  WholeInv'
<1> USE DEF TypeInv
<1>1. ~Live(n)'
  BY DEF Live
<1>2. InNet(n)' \subseteq InNet(n) /\ Tracks(n)' \subseteq Tracks(n)
  BY <1>1, FewerTracks
<1>3. Tracks(n)' = InNet(n)' /\ Around(n)' = InNet(n)'
  BY <1>1 DEF Tracks, Around
<1>4. NodeInv(n)'
  <2>1. Handling(n)' /\ KeepsSent(n)' /\ AckedRan(n)'
    BY <1>1 DEF Handling, KeepsSent, AckedRan
  <2>2. StopAndWait(n)'
    BY <1>2 DEF WholeInv, NodeInv, StopAndWait
  <2>3. ASSUME NEW p \in Tracks(n)' PROVE Filled(n, p)'
    <3>1. p \in Tracks(n) /\ Filled(n, p)
      BY <1>2 DEF WholeInv, NodeInv
    <3>2. p.dst \in Node /\ p.uuid \in Uuid
      BY <3>1, TracksType
    <3> QED
      BY <1>1, <3>1, <3>2 DEF Filled, Holds, TaskOf
  <2> QED
    BY <2>1, <2>2, <2>3 DEF NodeInv
<1>5. OwnKept(n)
  <2>1. clock' = clock
    OBVIOUS
  <2>2. \A p \in Tracks(n) : p.uuid < clock
    BY DEF WholeInv, UuidInv
  <2> QED
    BY <1>2, <1>4, <2>1, <2>2 DEF OwnKept
<1>6. Later /\ DeliveredWhole'
  <2>1. clock <= clock' /\ begun <= begun'
    BY CountersType
  <2>2. \A t : Ran(t)' = Ran(t)
    BY DEF Ran, Whole
  <2>3. DeliveredWhole'
    BY DEF WholeInv, DeliveredWhole, Whole
  <2> QED
    BY <2>1, <2>2, <2>3 DEF Later
<1> QED
  BY <1>5, <1>6, OwnStepKeepsInv

\* Losing or ignoring a datagram of n's task.
LEMMA LostKeepsWhole ==
    ASSUME TypeInv, TypeInv', WholeInv, NEW n \in Node, net' \subseteq net,
           \A p \in net \ net' : Owner(p) = n,
           UNCHANGED <<senderVars, receiverVars, historyVars, clock>>
    PROVE  WholeInv'
<1> USE DEF TypeInv
<1>0. UNCHANGED <<is_tasking, send_index, resend_packet, send_data, target_ip, pc, held,
                  recv_data_map, executed, reported, fault, begun, clock>>
  BY DEF senderVars, receiverVars, historyVars
<1>1. OwnStep(n)
  BY <1>0 DEF OwnStep
<1>2. Live(n)' = Live(n)
  BY <1>0 DEF Live
<1>3. /\ InNet(n)' \subseteq InNet(n) /\ Around(n)' \subseteq Around(n)
      /\ Tracks(n)' \subseteq Tracks(n)
  BY <1>0, <1>2, FewerTracks
<1>4. NodeInv(n)'
  <2>0. NodeInv(n)
    BY DEF WholeInv
  <2>1. Handling(n)' /\ StopAndWait(n)'
    BY <1>0, <1>3, <2>0 DEF NodeInv, Handling, StopAndWait
  <2>2. AckedRan(n)'
    BY <1>0, <1>2, <1>3, <2>0 DEF NodeInv, AckedRan, Ran, Whole
  <2>3. KeepsSent(n)'
    <3>1. \A u : Sent(n, u)' = Sent(n, u)
      BY <1>0 DEF Sent, DataTo, FragmentOf
    <3>2. \A u : AckFor(target_ip[n], Sent(n, u))' = AckFor(target_ip[n], Sent(n, u))
      BY <1>0, <3>1 DEF AckFor
    <3> QED
      BY <1>0, <1>2, <1>3, <2>0, <3>1, <3>2 DEF NodeInv, KeepsSent
  <2>4. \A p \in Tracks(n)' : Filled(n, p)'
    BY <1>0, <1>2, <1>3, <2>0 DEF NodeInv, Filled, Holds, TaskOf
  <2>5. is_tasking'[n] => send_data'[n] \in 1..begun'
    BY <1>0, <2>0 DEF NodeInv
  <2> QED
    BY <2>1, <2>2, <2>3, <2>4, <2>5 DEF NodeInv
<1>5. OwnKept(n)
  <2>1. \A p \in Tracks(n) : p.uuid < clock
    BY DEF WholeInv, UuidInv
  <2> QED
    BY <1>0, <1>3, <1>4, <2>1 DEF OwnKept
<1>6. Later /\ DeliveredWhole'
  <2>1. clock <= clock' /\ begun <= begun'
    BY <1>0, CountersType
  <2> QED
    BY <1>0, <2>1, NothingRuns
<1>7. NoHeapFault'
  BY <1>0 DEF WholeInv, NoHeapFault
<1> QED
  BY <1>1, <1>5, <1>6, <1>7, OwnStepKeepsInv

LEMMA LoseKeepsWhole ==
    ASSUME TypeInv, TypeInv', WholeInv, Lose
    PROVE  WholeInv'
<1>1. PICK p \in net : net' = net \ {p}
  BY DEF Lose
<1>2. Owner(p) \in Node
  BY DEF TypeInv, TypeOK, NetTypeOK, DataPacket, AckPacket, Owner
<1> QED
  BY <1>1, <1>2, LostKeepsWhole DEF Lose

\* The user's other clicks, and a process that starts again.
LEMMA UserKeepsWhole ==
    ASSUME PatientNetwork, TypeInv, TypeInv', WholeInv, NEW n \in Node, User(n)
    PROVE  WholeInv'
<1> USE DEF TypeInv, TypeOK, TaskTypeOK, TimerTypeOK
<1>0. pc[n] = "idle" => held[n] = {}
  BY DEF WholeInv, NodeInv, Handling
<1>1. ASSUME NEW m \in Targets(n), BeginTask(n, m) PROVE WholeInv'
  BY <1>1, BeginTaskKeepsWhole DEF Targets
<1>2. ASSUME NEW m, RefuseTask(n, m) PROVE WholeInv'
  <2>1. /\ pc[n] = "idle" /\ ~is_tasking[n]
        /\ UNCHANGED <<is_tasking, send_index, resend_packet, pc, held, recv_data_map,
                       executed, reported, fault, begun, net, clock>>
        /\ target_ip' = [target_ip EXCEPT ![n] = m]
        /\ send_data' = [send_data EXCEPT ![n] = NoScript]
    BY <1>2 DEF RefuseTask, receiverVars, historyVars
  <2>2. OwnStep(n)
    BY <2>1 DEF OwnStep
  <2>3. NoHeapFault'
    BY <2>1 DEF WholeInv, NoHeapFault
  <2> QED
    BY <1>0, <2>1, <2>2, <2>3, TaskOverKeepsWhole
<1>3. CASE StopTask(n)
  <2>1. /\ pc[n] = "idle" /\ is_tasking' = [is_tasking EXCEPT ![n] = FALSE]
        /\ UNCHANGED <<send_index, resend_packet, send_data, target_ip, pc, held,
                       recv_data_map, executed, reported, fault, begun, net, clock>>
    BY <1>3 DEF StopTask, receiverVars, historyVars
  <2>2. OwnStep(n)
    BY <2>1 DEF OwnStep
  <2>3. NoHeapFault'
    BY <2>1 DEF WholeInv, NoHeapFault
  <2> QED
    BY <1>0, <2>1, <2>2, <2>3, TaskOverKeepsWhole
<1>4. ASSUME NEW m, DetectNet(n, m) PROVE WholeInv'
  BY <1>4 DEF DetectNet, PatientNetwork
<1> QED
  BY <1>1, <1>2, <1>3, <1>4 DEF User

LEMMA BootKeepsWhole ==
    ASSUME TypeInv, TypeInv', WholeInv, NEW n \in Node, Boot(n),
           UNCHANGED <<reported, begun, net, clock>>
    PROVE  WholeInv'
<1> USE DEF TypeInv, TypeOK, TaskTypeOK, TimerTypeOK
<1>1. \A m \in Node : \A u \in Uuid : \/ recv_data_map'[m][u] = recv_data_map[m][u]
                                      \/ recv_data_map'[m][u] = NoBuffer
  BY DEF Boot, ReceiverTypeOK
<1>2. OwnStep(n)
  BY <1>1 DEF OwnStep, Boot, BootSender
<1>3. NoHeapFault'
  BY DEF Boot, WholeInv, NoHeapFault, HistoryTypeOK
<1>4. ~is_tasking'[n] /\ pc'[n] = "idle" /\ held'[n] = {} /\ executed' = executed
  BY DEF Boot, BootSender
<1> QED
  BY <1>1, <1>2, <1>3, <1>4, TaskOverKeepsWhole

LEMMA TimeoutKeepsWhole ==
    ASSUME PatientNetwork, TypeInv, TypeInv', WholeInv, NEW n \in Node, Timeout(n)
    PROVE  WholeInv'
<1> USE DEF TypeInv, TypeOK, TaskTypeOK, TimerTypeOK
<1>1. pc[n] = "idle" /\ held[n] = {} /\ InNet(n) = {} /\ Around(n) = {}
  BY PatientIsAlone DEF Timeout, WholeInv, NodeInv, Handling
<1>2. UNCHANGED <<send_index, resend_packet, send_data, target_ip, pc, held,
                  recv_data_map, executed, reported, fault, begun, clock>>
  BY DEF Timeout, receiverVars
<1>3. NoHeapFault'
  BY <1>2 DEF WholeInv, NoHeapFault
<1>4. CASE LateAlarm(n) \/ GiveUp(n)
  <2>1. net' = net /\ ~is_tasking'[n]
    BY <1>4 DEF LateAlarm, GiveUp
  <2>2. \A m \in Node \ {n} : is_tasking'[m] = is_tasking[m]
    BY <1>4 DEF LateAlarm, GiveUp
  <2>3. OwnStep(n)
    BY <1>2, <2>1, <2>2 DEF OwnStep
  <2> QED
    BY <1>1, <1>2, <1>3, <2>1, <2>3, TaskOverKeepsWhole
<1>5. CASE Retransmit(n)
  <2>1. is_tasking[n] /\ is_tasking' = is_tasking
    BY <1>5 DEF Retransmit
  <2>2. Live(n) /\ Live(n)' /\ send_data[n] \in Task
    BY <1>1, <1>2, <2>1 DEF Live, BegunWell
  <2>3. /\ target_ip[n] \in Node
        /\ send_index[n] \in 0..(Size[send_data[n]] - 1)
    BY <2>2 DEF WholeInv, NodeInv, KeepsSent
  <2>4. PICK u \in 0..(clock - 1) : resend_packet[n] = {Sent(n, u)}
    BY <2>2 DEF WholeInv, NodeInv, KeepsSent
  <2>5. PICK q : q = Sent(n, u)
    OBVIOUS
  <2>6. /\ q.type = "data" /\ q.uuid = u /\ Owner(q) = n /\ q.index < q.total
        /\ q.index = send_index[n] /\ q.total = Size[send_data[n]]
        /\ q.chunk = <<send_data[n], send_index[n]>> /\ TaskOf(q) = send_data[n]
    BY <2>2, <2>3, <2>5, SentFields
  <2>7. [q EXCEPT !.dst = target_ip[n]] = q
    BY <2>5 DEF Sent, DataTo
  <2>8. net' = net \union {q}
    BY <1>5, <2>3, <2>4, <2>5, <2>7 DEF Retransmit
  <2>9. q = Sent(n, u)'
    BY <1>2, <2>5 DEF Sent, DataTo, FragmentOf
  <2>10. /\ InNet(n)' = {q} /\ Around(n)' = {q}
         /\ Tracks(n)' = {q} /\ Tracks(n) = {q}
    <3>1. InNet(n)' = {q}
      BY <1>1, <2>6, <2>8 DEF InNet
    <3>2. Around(n)' = {q}
      BY <3>1, <1>1, <1>2 DEF Around
    <3> QED
      BY <1>1, <1>2, <2>2, <2>4, <2>5, <3>1, <3>2 DEF Tracks
  <2>11. OwnStep(n)
    BY <1>2, <2>1, <2>6, <2>8 DEF OwnStep
  <2>12. NodeInv(n)'
    <3>0. NodeInv(n)
      BY DEF WholeInv
    <3>1. Handling(n)' /\ StopAndWait(n)'
      BY <1>1, <1>2, <2>1, <2>10 DEF Handling, StopAndWait
    <3>2. KeepsSent(n)'
      BY <1>2, <2>3, <2>4, <2>5, <2>9, <2>10 DEF KeepsSent
    <3>3. AckedRan(n)'
      BY <2>6, <2>10 DEF AckedRan
    <3>4. \A p \in Tracks(n)' : Filled(n, p)'
      BY <1>2, <2>6, <2>10, <3>0 DEF NodeInv, Filled, Holds, TaskOf
    <3>5. is_tasking'[n] => send_data'[n] \in 1..begun'
      BY <1>2, <2>1, <3>0 DEF NodeInv
    <3> QED
      BY <3>1, <3>2, <3>3, <3>4, <3>5 DEF NodeInv
  <2>13. OwnKept(n)
    <3>1. Carries(q)'
      <4>1. send_data[n] \in 1..begun
        BY <2>1 DEF WholeInv, NodeInv
      <4> QED
        BY <1>2, <2>6, <4>1 DEF Carries, TaskOf
    <3>2. \A p \in Tracks(n) : p.uuid < clock
      BY DEF WholeInv, UuidInv
    <3> QED
      BY <1>2, <2>8, <2>10, <2>12, <3>1, <3>2 DEF OwnKept
  <2>14. Later /\ DeliveredWhole'
    <3>1. clock <= clock' /\ begun <= begun'
      BY <1>2, CountersType
    <3> QED
      BY <1>2, <3>1, NothingRuns
  <2> QED
    BY <1>3, <2>11, <2>13, <2>14, OwnStepKeepsInv
<1> QED
  BY <1>4, <1>5 DEF Timeout

-----------------------------------------------------------------------------
LEMMA ReceiveAckKeepsWhole ==
    ASSUME PatientNetwork, TypeInv, TypeInv', WholeInv, NEW n \in Node, ReceiveAck(n)
    PROVE  WholeInv'
<1> USE DEF TypeInv, TypeOK, TaskTypeOK, TimerTypeOK
<1>1. PICK p \in net : /\ p.type = "ack" /\ p.dst = n /\ Consume(p, {})
                       /\ DropAck(n, p) \/ TakeAck(n, p)
  BY DEF ReceiveAck
<1>2. net' = net \ {p} /\ Owner(p) = n
  BY <1>1, ConsumeOnce DEF Owner
<1>3. /\ pc[n] = "idle"
      /\ UNCHANGED <<is_tasking, send_index, resend_packet, send_data, target_ip,
                     recv_data_map, executed, reported, fault, begun, clock>>
  BY DEF ReceiveAck, receiverVars, historyVars
<1>4. held[n] = {} /\ NodeInv(n)
  BY <1>3 DEF WholeInv, NodeInv, Handling
<1>5. NoHeapFault'
  BY <1>3 DEF WholeInv, NoHeapFault
<1>6. CASE DropAck(n, p)
  <2>1. UNCHANGED <<pc, held>> /\ ~is_tasking[n]
    BY <1>6 DEF DropAck
  <2>2. OwnStep(n)
    BY <1>2, <1>3, <2>1 DEF OwnStep
  <2> QED
    BY <1>2, <1>3, <1>4, <1>5, <2>1, <2>2, TaskOverKeepsWhole
<1>7. CASE TakeAck(n, p)
  <2>1. /\ is_tasking[n] /\ pc' = [pc EXCEPT ![n] = "ack"]
        /\ held' = [held EXCEPT ![n] = {p}]
    BY <1>7 DEF TakeAck
  <2>2. OwnStep(n)
    BY <1>2, <1>3, <2>1 DEF OwnStep
  <2>3. InNet(n) = {p}
    BY <1>1, <1>2, <1>4 DEF NodeInv, StopAndWait, InNet
  <2>4. InNet(n)' = {} /\ Around(n)' = {p} /\ Around(n) = {p}
    BY <1>2, <1>4, <2>1, <2>3 DEF InNet, Around
  <2>5. Live(n) /\ Live(n)' /\ Tracks(n)' = Tracks(n)
    BY <1>3, <2>1, <2>4 DEF Live, Tracks
  <2>6. NodeInv(n)'
    <3>1. Handling(n)' /\ StopAndWait(n)'
      BY <1>1, <1>3, <2>1, <2>4 DEF Handling, StopAndWait
    <3>2. KeepsSent(n)'
      <4>1. \A u : Sent(n, u)' = Sent(n, u)
        BY <1>3 DEF Sent, DataTo, FragmentOf
      <4>2. \A u : AckFor(target_ip[n], Sent(n, u))' = AckFor(target_ip[n], Sent(n, u))
        BY <1>3, <4>1 DEF AckFor
      <4> QED
        BY <1>3, <1>4, <2>4, <2>5, <4>1, <4>2 DEF NodeInv, KeepsSent
    <3>3. AckedRan(n)'
      BY <1>3, <1>4, <2>4, <2>5 DEF NodeInv, AckedRan, Ran, Whole
    <3>4. \A r \in Tracks(n)' : Filled(n, r)'
      BY <1>3, <1>4, <2>5 DEF NodeInv, Filled, Holds, TaskOf
    <3>5. is_tasking'[n] => send_data'[n] \in 1..begun'
      BY <1>3, <1>4 DEF NodeInv
    <3> QED
      BY <3>1, <3>2, <3>3, <3>4, <3>5 DEF NodeInv
  <2>7. OwnKept(n)
    <3>1. \A r \in Tracks(n) : r.uuid < clock
      BY DEF WholeInv, UuidInv
    <3> QED
      BY <1>2, <1>3, <2>5, <2>6, <3>1 DEF OwnKept
  <2>8. Later /\ DeliveredWhole'
    <3>1. clock <= clock' /\ begun <= begun'
      BY <1>3, CountersType
    <3> QED
      BY <1>3, <3>1, NothingRuns
  <2> QED
    BY <1>5, <2>2, <2>7, <2>8, OwnStepKeepsInv
<1> QED
  BY <1>1, <1>6, <1>7

\* The acknowledgement a task handles is that of its last packet, which it
\* has kept: it is never stale, and nothing is deleted twice.
LEMMA HeldIsAwaited ==
    ASSUME TypeInv, WholeInv, NEW n \in Node, pc[n] = "ack"
    PROVE  /\ Live(n) /\ InNet(n) = {} /\ resend_packet[n] # {}
           /\ target_ip[n] \in Node /\ send_data[n] \in Task /\ send_data[n] \in 1..begun
           /\ send_index[n] \in 0..(Size[send_data[n]] - 1)
           /\ \A p \in held[n] :
                /\ p.type = "ack" /\ p.src = target_ip[n]
                /\ p.index = send_index[n] + 1 /\ p.total = Size[send_data[n]]
                /\ \E u \in 0..(clock - 1) : p.uuid = u /\ resend_packet[n] = {Sent(n, u)}
<1>1. NodeInv(n)
  BY DEF WholeInv
<1>2. is_tasking[n] /\ Live(n) /\ InNet(n) = {}
  BY <1>1 DEF NodeInv, Handling, StopAndWait, Live
<1>3. /\ target_ip[n] \in Node /\ send_index[n] \in 0..(Size[send_data[n]] - 1)
      /\ send_data[n] \in Task /\ send_data[n] \in 1..begun
  BY <1>1, <1>2 DEF NodeInv, KeepsSent, TypeInv, BegunWell
<1>4. PICK u \in 0..(clock - 1) :
            /\ resend_packet[n] = {Sent(n, u)}
            /\ Around(n) \subseteq {Sent(n, u), AckFor(target_ip[n], Sent(n, u))}
  BY <1>1, <1>2 DEF NodeInv, KeepsSent
<1>5. ASSUME NEW p \in held[n]
      PROVE  /\ p.type = "ack" /\ p.src = target_ip[n] /\ p.uuid = u
             /\ p.index = send_index[n] + 1 /\ p.total = Size[send_data[n]]
  <2>1. p.type = "ack"
    BY <1>1 DEF NodeInv, Handling
  <2>2. Sent(n, u).type = "data"
    BY DEF Sent, DataTo
  <2>3. p = AckFor(target_ip[n], Sent(n, u))
    BY <1>4, <2>1, <2>2 DEF Around
  <2> QED
    BY <1>3, <2>3, SentFields, AckFields DEF TypeInv
<1> QED
  BY <1>2, <1>3, <1>4, <1>5

LEMMA NextFragmentKeepsWhole ==
    ASSUME TypeInv, TypeInv', WholeInv, NEW n \in Node, pc[n] = "ack",
           NEW p \in held[n], NextFragment(n, p),
           pc' = [pc EXCEPT ![n] = "idle"], held' = [held EXCEPT ![n] = {}],
           UNCHANGED <<send_data, target_ip, receiverVars, begun, clock, fault>>
    PROVE  WholeInv'
<1> USE DEF TypeInv, TypeOK, TaskTypeOK, TimerTypeOK
<1>0. /\ Live(n) /\ InNet(n) = {} /\ is_tasking[n]
      /\ target_ip[n] \in Node /\ send_data[n] \in Task /\ send_data[n] \in 1..begun
      /\ p.src = target_ip[n] /\ p.index = send_index[n] + 1
      /\ p.total = Size[send_data[n]] /\ p.type = "ack"
  BY HeldIsAwaited DEF Live
<1>1. PICK u \in 0..(clock - 1) : p.uuid = u /\ resend_packet[n] = {Sent(n, u)}
  BY HeldIsAwaited
<1>2. PICK q : q = DataTo(n, target_ip[n], u, send_index[n] + 1, Size[send_data[n]])
  OBVIOUS
<1>3. /\ net' = net \union {q} /\ resend_packet' = [resend_packet EXCEPT ![n] = {q}]
      /\ send_index' = [send_index EXCEPT ![n] = @ + 1]
      /\ UNCHANGED <<is_tasking, reported>>
      /\ p.index < p.total
  BY <1>0, <1>1, <1>2 DEF NextFragment
<1>4. /\ send_index[n] \in 0..(Size[send_data[n]] - 1)
      /\ Size[send_data[n]] \in 1..MaxFrags
  BY <1>0, SizeAssumption, HeldIsAwaited DEF Task
<1>5. send_index'[n] = send_index[n] + 1 /\ send_index'[n] \in 0..(Size[send_data[n]] - 1)
  BY <1>0, <1>3, <1>4
<1>6. q = Sent(n, u)'
  BY <1>2, <1>3, <1>5 DEF Sent, DataTo, FragmentOf
<1>7. /\ q.type = "data" /\ q.src = n /\ q.dst = target_ip[n] /\ q.uuid = u
      /\ Owner(q) = n /\ q.index = send_index[n] + 1 /\ q.total = Size[send_data[n]]
      /\ q.index < q.total /\ q.chunk = <<send_data[n], send_index[n] + 1>>
      /\ TaskOf(q) = send_data[n]
  <2>1. send_index[n] + 1 < Size[send_data[n]]
    BY <1>0, <1>3
  <2> QED
    BY <1>0, <1>2, <2>1 DEF DataTo, FragmentOf, Owner, TaskOf
<1>8. InNet(n)' = {q} /\ Around(n)' = {q}
  BY <1>0, <1>3, <1>7 DEF InNet, Around
<1>9. Live(n)' /\ Tracks(n)' = {q}
  BY <1>0, <1>3, <1>8 DEF Live, Tracks
<1>10. OwnStep(n)
  BY <1>3, <1>7 DEF OwnStep, receiverVars
<1>11. NodeInv(n)'
  <2>0. NodeInv(n) /\ p \in Tracks(n)
    BY DEF WholeInv, Tracks, Around
  <2>1. Handling(n)' /\ StopAndWait(n)'
    BY <1>8 DEF Handling, StopAndWait
  <2>2. KeepsSent(n)'
    BY <1>0, <1>3, <1>5, <1>6, <1>8 DEF KeepsSent
  <2>3. AckedRan(n)'
    BY <1>7, <1>8 DEF AckedRan
  <2>4. Filled(n, q)'
    <3>1. Holds(recv_data_map[target_ip[n]][u], send_data[n], p.total, p.index)
      BY <1>0, <1>1, <2>0 DEF NodeInv, Filled
    <3> QED
      BY <1>0, <1>7, <3>1 DEF Filled, TaskOf, Holds, receiverVars
  <2>5. send_data'[n] \in 1..begun'
    BY <1>0
  <2> QED
    BY <1>9, <2>1, <2>2, <2>3, <2>4, <2>5 DEF NodeInv
<1>12. OwnKept(n)
  <2>1. Carries(q)'
    BY <1>0, <1>7 DEF Carries, TaskOf
  <2>2. p \in Tracks(n) /\ p.uuid = u /\ u < clock
    <3>1. p \in Tracks(n) /\ p.uuid = u
      BY <1>1 DEF Tracks, Around
    <3> QED
      BY <3>1 DEF WholeInv, UuidInv
  <2> QED
    BY <1>3, <1>7, <1>9, <1>11, <2>1, <2>2 DEF OwnKept
<1>13. Later /\ DeliveredWhole'
  <2>1. clock <= clock' /\ begun <= begun'
    BY CountersType
  <2> QED
    BY <1>3, <2>1, NothingRuns DEF receiverVars
<1>14. NoHeapFault'
  BY DEF WholeInv, NoHeapFault
<1> QED
  BY <1>10, <1>12, <1>13, <1>14, OwnStepKeepsInv

LEMMA HandleAckKeepsWhole ==
    ASSUME TypeInv, TypeInv', WholeInv, NEW n \in Node, HandleAck(n)
    PROVE  WholeInv'
<1> USE DEF TypeInv, TypeOK, TaskTypeOK, TimerTypeOK
<1>1. pc[n] = "ack" /\ UNCHANGED <<begun, clock>>
  BY DEF HandleAck
<1>2. ~DoubleFree(n)
  BY <1>1, HeldIsAwaited DEF DoubleFree
<1>3. PICK p \in held[n] : StaleAck(n, p) \/ FinalAck(n, p) \/ NextFragment(n, p)
  BY <1>2 DEF HandleAck
<1>4. /\ fault' = fault
      /\ pc' = [pc EXCEPT ![n] = "idle"] /\ held' = [held EXCEPT ![n] = {}]
      /\ UNCHANGED <<send_data, target_ip, receiverVars>>
  BY <1>2 DEF HandleAck
<1>5. ~StaleAck(n, p)
  BY <1>1, HeldIsAwaited DEF StaleAck
<1>6. CASE FinalAck(n, p)
  <2>1. /\ is_tasking' = [is_tasking EXCEPT ![n] = FALSE] /\ net' = net
        /\ send_index' = [send_index EXCEPT ![n] = -100]
        /\ resend_packet' = [resend_packet EXCEPT ![n] = {}]
        /\ reported' = [reported EXCEPT ![n] = @ \union {send_data[n]}]
        /\ p.index >= p.total
    BY <1>6 DEF FinalAck
  <2>2. Live(n) /\ p.type = "ack"
    BY <1>1, HeldIsAwaited
  <2>3. Ran(send_data[n])
    BY <2>1, <2>2 DEF WholeInv, NodeInv, AckedRan, Around
  <2>4. OwnStep(n)
    BY <1>4, <2>1 DEF OwnStep, receiverVars
  <2>5. \A m \in Node : \A t \in reported'[m] : t \in reported[m] \/ Ran(t)
    <3>1. reported \in [Node -> SUBSET (0..MaxTasks)]
      BY DEF HistoryTypeOK
    <3> HIDE DEF TypeInv, TypeOK
    <3>2. \A m \in Node : reported'[m] \subseteq reported[m] \union {send_data[n]}
      BY <2>1, <3>1
    <3>3. \A m \in Node \ {n} : reported'[m] = reported[m]
      BY <2>1, <3>1
    <3> QED
      BY <2>3, <3>2, <3>3
  <2>6. NoHeapFault'
    BY <1>4 DEF WholeInv, NoHeapFault
  <2> QED
    BY <1>1, <1>4, <2>1, <2>4, <2>5, <2>6, TaskOverKeepsWhole DEF receiverVars
<1>7. CASE NextFragment(n, p)
  BY <1>1, <1>4, <1>7, NextFragmentKeepsWhole
<1> QED
  BY <1>3, <1>5, <1>6, <1>7

-----------------------------------------------------------------------------
\* Storing p where its predecessors are makes the buffer hold it too, and at
\* the end the whole script.
LEMMA StoredHolds ==
    ASSUME TypeOK, NEW m \in Node, NEW p \in DataPacket, Acceptable(m, p), Carries(p),
           p.index > 0 => Holds(recv_data_map[m][p.uuid], TaskOf(p), p.total, p.index)
    PROVE  /\ DOMAIN Stored(m, p) = 0..(p.total - 1)
           /\ \A j \in 0..p.index : Stored(m, p)[j] = <<TaskOf(p), j>>
           /\ ~Overrun(m, p)
<1>1. p.index \in Nat /\ p.total \in Nat /\ p.index < p.total /\ p.type = "data"
  BY DEF DataPacket, Acceptable, Index
<1>2. p.chunk = <<TaskOf(p), p.index>>
  BY <1>1 DEF Carries
<1>3. /\ DOMAIN BufferFor(m, p) = 0..(p.total - 1)
      /\ \A j \in 0..(p.index - 1) : BufferFor(m, p)[j] = <<TaskOf(p), j>>
  <2>1. CASE p.index = 0
    BY <2>1 DEF BufferFor
  <2>2. CASE p.index # 0
    BY <1>1, <2>2 DEF BufferFor, Acceptable, Holds
  <2> QED
    BY <2>1, <2>2
<1>4. Stored(m, p) = [i \in 0..(p.total - 1) |->
                        IF i = p.index THEN p.chunk ELSE BufferFor(m, p)[i]]
  BY <1>3 DEF Stored
<1>5. \A j \in 0..p.index : Stored(m, p)[j] = <<TaskOf(p), j>>
  <2>1. ASSUME NEW j \in 0..p.index PROVE Stored(m, p)[j] = <<TaskOf(p), j>>
    <3>1. CASE j = p.index
      BY <1>1, <1>2, <1>4, <3>1
    <3>2. CASE j # p.index
      BY <1>1, <1>3, <1>4, <3>2
    <3> QED
      BY <3>1, <3>2
  <2> QED
    BY <2>1
<1>6. ~Overrun(m, p)
  BY <1>1, <1>3 DEF Overrun
<1> QED
  BY <1>4, <1>5, <1>6

LEMMA MergedIsWhole ==
    ASSUME TypeOK, NEW m \in Node, NEW p \in DataPacket, Carries(p), p.index = p.total - 1,
           DOMAIN Stored(m, p) = 0..(p.total - 1),
           \A j \in 0..p.index : Stored(m, p)[j] = <<TaskOf(p), j>>
    PROVE  Merged(Stored(m, p), p.total) = Whole(TaskOf(p))
<1>1. p.type = "data" /\ p.total = Size[TaskOf(p)]
  BY DEF DataPacket, Carries
<1>2. PICK s : s = Stored(m, p)
  OBVIOUS
<1>3. \A j \in 0..(p.total - 1) : j \in DOMAIN s /\ s[j] = <<TaskOf(p), j>>
  BY <1>2
<1> QED
  BY <1>1, <1>2, <1>3 DEF Merged, Whole

LEMMA AppendStays ==
    ASSUME NEW s \in Seq(Buffer), NEW e
    PROVE  /\ DOMAIN Append(s, e) = DOMAIN s \union {Len(s) + 1}
           /\ \A j \in DOMAIN s : Append(s, e)[j] = s[j]
           /\ Append(s, e)[Len(s) + 1] = e
OBVIOUS

\* What an arriving packet does to what is executed: nothing, or one whole
\* script more at the receiver.
LEMMA StoreRuns ==
    ASSUME TypeInv, WholeInv, NEW m \in Node, NEW p \in net, p.type = "data", p.dst = m,
           StoreData(m, p)
    PROVE  /\ p.index = p.total - 1 =>
                executed' = [executed EXCEPT ![m] = Append(@, Whole(TaskOf(p)))]
           /\ p.index # p.total - 1 => executed' = executed
           /\ fault' = fault
           /\ recv_data_map' = [recv_data_map EXCEPT ![m][p.uuid] = Stored(m, p)]
           /\ DOMAIN Stored(m, p) = 0..(p.total - 1)
           /\ \A j \in 0..p.index : Stored(m, p)[j] = <<TaskOf(p), j>>
<1> USE DEF TypeInv
<1>1. p \in DataPacket
  BY DEF TypeOK, NetTypeOK, AckPacket
<1>2. Carries(p) /\ p.src \in Node /\ p \in Tracks(p.src)
  BY <1>1 DEF WholeInv, Tracks, Around, InNet, Owner, DataPacket
<1>3. Filled(p.src, p)
  BY <1>2 DEF WholeInv, NodeInv
<1>4. Acceptable(m, p)
  BY DEF StoreData
<1>5. /\ DOMAIN Stored(m, p) = 0..(p.total - 1)
      /\ \A j \in 0..p.index : Stored(m, p)[j] = <<TaskOf(p), j>>
      /\ ~Overrun(m, p)
  BY <1>1, <1>2, <1>3, <1>4, StoredHolds DEF Filled
<1>6. p.index = p.total - 1 => Merged(Stored(m, p), p.total) = Whole(TaskOf(p))
  BY <1>1, <1>2, <1>5, MergedIsWhole
<1> QED
  BY <1>5, <1>6 DEF StoreData, AddSyncDatabase

LEMMA ReceiveDataKeepsWhole ==
    ASSUME PatientNetwork, TypeInv, TypeInv', WholeInv, NEW m \in Node, ReceiveData(m)
    PROVE  WholeInv'
<1> USE DEF TypeInv, TypeOK
<1>1. PICK p \in net : /\ p.type = "data" /\ p.dst = m
                       /\ IgnoreData(m, p) \/ StoreData(m, p)
  BY DEF ReceiveData
<1>2. PICK n \in Node : n = p.src /\ Owner(p) = n
  BY <1>1 DEF NetTypeOK, DataPacket, AckPacket, Owner
<1>3. UNCHANGED <<is_tasking, send_index, resend_packet, send_data, target_ip, pc, held,
                  reported, begun, clock>>
  BY DEF ReceiveData, senderVars
<1>4. p \in DataPacket /\ Carries(p) /\ NodeInv(n)
  BY <1>1 DEF NetTypeOK, AckPacket, WholeInv
<1>5. CASE IgnoreData(m, p)
  <2>1. net' = net \ {p}
    BY <1>5, ConsumeOnce DEF IgnoreData
  <2>2. UNCHANGED <<senderVars, receiverVars, historyVars, clock>>
    BY <1>5 DEF ReceiveData, IgnoreData, historyVars
  <2> QED
    BY <1>2, <2>1, <2>2, LostKeepsWhole
<1>6. CASE StoreData(m, p)
  <2>1. PICK a : a = AckFor(m, p)
    OBVIOUS
  <2>2. net' = (net \ {p}) \union {a}
    BY <1>6, <2>1, ConsumeOnce DEF StoreData
  <2>3. /\ a.type = "ack" /\ a.src = m /\ a.dst = n /\ a.uuid = p.uuid
        /\ a.index = p.index + 1 /\ a.total = p.total /\ Owner(a) = n
    BY <1>2, <2>1, AckFields
  <2>4. /\ p.index = p.total - 1 =>
                executed' = [executed EXCEPT ![m] = Append(@, Whole(TaskOf(p)))]
        /\ p.index # p.total - 1 => executed' = executed
        /\ fault' = fault
        /\ recv_data_map' = [recv_data_map EXCEPT ![m][p.uuid] = Stored(m, p)]
        /\ DOMAIN Stored(m, p) = 0..(p.total - 1)
        /\ \A j \in 0..p.index : Stored(m, p)[j] = <<TaskOf(p), j>>
    BY <1>1, <1>6, StoreRuns
  <2>5. p \in InNet(n) /\ InNet(n) = {p} /\ pc[n] = "idle" /\ held[n] = {}
    <3>1. p \in InNet(n)
      BY <1>2 DEF InNet
    <3>2. pc[n] = "idle" /\ InNet(n) = {p}
      BY <1>4, <3>1 DEF NodeInv, StopAndWait
    <3> QED
      BY <1>4, <3>1, <3>2 DEF NodeInv, Handling
  <2>6. InNet(n)' = {a} /\ Around(n)' = {a}
    BY <1>3, <2>2, <2>3, <2>5 DEF InNet, Around
  <2>7. Live(n)' = Live(n)
    BY <1>3 DEF Live
  <2>8. ASSUME Live(n)
        PROVE  \E u \in 0..(clock - 1) :
                    /\ p = Sent(n, u) /\ resend_packet[n] = {p}
                    /\ m = target_ip[n] /\ target_ip[n] \in Node
                    /\ send_index[n] \in 0..(Size[send_data[n]] - 1)
                    /\ TaskOf(p) = send_data[n] /\ send_data[n] \in Task
    <3>1. /\ target_ip[n] \in Node /\ send_data[n] \in Task
          /\ send_index[n] \in 0..(Size[send_data[n]] - 1)
      BY <1>4, <2>8 DEF NodeInv, KeepsSent, Live, BegunWell
    <3>2. PICK u \in 0..(clock - 1) :
            /\ resend_packet[n] = {Sent(n, u)}
            /\ Around(n) \subseteq {Sent(n, u), AckFor(target_ip[n], Sent(n, u))}
      BY <1>4, <2>8 DEF NodeInv, KeepsSent
    <3>3. p = Sent(n, u)
      BY <1>1, <2>5, <3>2, AckFields DEF Around
    <3> QED
      BY <1>1, <3>1, <3>2, <3>3, SentFields
  <2>9. Tracks(n)' \subseteq {a, p} /\ Tracks(n)' \subseteq {a} \union Tracks(n)
    BY <1>3, <2>6, <2>7, <2>8 DEF Tracks
  <2>10. p \in Tracks(n) /\ p.uuid \in Uuid
    BY <1>4, <2>5 DEF Tracks, Around, DataPacket
  <2>11. OwnStep(n)
    <3>1. \A k \in Node : \A u \in Uuid : u # p.uuid =>
              recv_data_map'[k][u] = recv_data_map[k][u]
      BY <2>4 DEF ReceiverTypeOK
    <3>2. \A r : Owner(r) # n => (r \in net' <=> r \in net)
      BY <1>2, <2>2, <2>3
    <3> QED
      BY <1>3, <2>10, <3>1, <3>2 DEF OwnStep
  <2>12. recv_data_map'[m][p.uuid] = Stored(m, p)
    BY <2>4, <2>10 DEF ReceiverTypeOK
  <2>13. Later
    <3>1. \A k \in Node : \A j \in DOMAIN executed[k] :
              j \in DOMAIN executed'[k] /\ executed'[k][j] = executed[k][j]
      <4>1. PICK w : w = Whole(TaskOf(p))
        OBVIOUS
      <4>2. \/ executed' = executed
            \/ executed' = [executed EXCEPT ![m] = Append(@, w)]
        BY <2>4, <4>1
      <4>3. executed \in [Node -> Seq(Buffer)]
        BY DEF ReceiverTypeOK
      <4>4. CASE executed' = executed
        BY <4>4
      <4>5. CASE executed' = [executed EXCEPT ![m] = Append(@, w)]
        <5>1. /\ executed'[m] = Append(executed[m], w)
              /\ \A k \in Node \ {m} : executed'[k] = executed[k]
          BY <4>3, <4>5
        <5>2. \A j \in DOMAIN executed[m] : j \in DOMAIN Append(executed[m], w)
                                           /\ Append(executed[m], w)[j] = executed[m][j]
          <6>1. executed[m] \in Seq(Buffer)
            BY <4>3
          <6> QED
            BY <6>1, AppendStays
        <5> QED
          BY <5>1, <5>2
      <4> QED
        BY <4>2, <4>4, <4>5
    <3>2. clock <= clock' /\ begun <= begun'
      BY <1>3, CountersType
    <3> QED
      BY <1>3, <3>1, <3>2 DEF Later
  <2>14. p.index = p.total - 1 => Ran(TaskOf(p))'
    <3>1. ASSUME p.index = p.total - 1
          PROVE  Ran(TaskOf(p))'
      <4>1. PICK w : w = Whole(TaskOf(p))
        OBVIOUS
      <4>2. /\ Len(executed[m]) + 1 \in DOMAIN executed'[m]
            /\ executed'[m][Len(executed[m]) + 1] = w
        BY <2>4, <3>1, <4>1, AppendStays DEF ReceiverTypeOK
      <4>3. Whole(TaskOf(p))' = Whole(TaskOf(p))
        BY DEF Whole, TaskOf
      <4> QED
        BY <4>1, <4>2, <4>3 DEF Ran, TaskOf
    <3> QED
      BY <3>1
  <2>15. NodeInv(n)'
    <3>1. Handling(n)' /\ StopAndWait(n)'
      BY <1>3, <2>5, <2>6 DEF Handling, StopAndWait
    <3>2. KeepsSent(n)'
      <4>1. \A u : Sent(n, u)' = Sent(n, u)
        BY <1>3 DEF Sent, DataTo, FragmentOf
      <4>2. \A u : AckFor(target_ip[n], Sent(n, u))' = AckFor(target_ip[n], Sent(n, u))
        BY <1>3, <4>1 DEF AckFor
      <4> SUFFICES ASSUME Live(n)' PROVE KeepsSent(n)'
        BY DEF KeepsSent
      <4>3. PICK u \in 0..(clock - 1) :
                    /\ p = Sent(n, u) /\ resend_packet[n] = {p}
                    /\ m = target_ip[n] /\ target_ip[n] \in Node
                    /\ send_index[n] \in 0..(Size[send_data[n]] - 1)
        BY <2>7, <2>8
      <4> QED
        BY <1>3, <2>1, <2>6, <4>1, <4>2, <4>3 DEF KeepsSent
    <3>3. AckedRan(n)'
      <4> SUFFICES ASSUME Live(n)', a.index >= a.total PROVE Ran(send_data[n])'
        BY <2>6 DEF AckedRan
      <4>1. p.index = p.total - 1
        <5>1. p.index \in Nat /\ p.total \in Nat /\ p.index < p.total
          BY <1>1, <1>4 DEF DataPacket, Index, Carries
        <5> QED
          BY <2>3, <5>1
      <4>2. TaskOf(p) = send_data[n]
        BY <2>7, <2>8
      <4> QED
        BY <1>3, <2>14, <4>1, <4>2 DEF Ran, Whole, TaskOf
    <3>4. Filled(n, a)'
      <4> SUFFICES ASSUME Live(n)'
                   PROVE  Holds(Stored(m, p), send_data[n], p.total, p.index + 1)
        BY <1>3, <2>3, <2>12 DEF Filled, Holds
      <4>1. TaskOf(p) = send_data[n]
        BY <2>7, <2>8
      <4>2. p.index \in Nat
        BY <1>4 DEF DataPacket, Index
      <4> QED
        BY <2>4, <4>1, <4>2 DEF Holds
    <3>5. Filled(n, p)'
      <4>1. p.index \in Nat
        BY <1>4 DEF DataPacket, Index
      <4>2. Holds(Stored(m, p), TaskOf(p), p.total, p.index)
        BY <2>4, <4>1 DEF Holds
      <4> QED
        BY <1>1, <2>12, <4>2 DEF Filled, Holds, TaskOf
    <3>6. is_tasking'[n] => send_data'[n] \in 1..begun'
      BY <1>3, <1>4 DEF NodeInv
    <3> QED
      BY <2>9, <3>1, <3>2, <3>3, <3>4, <3>5, <3>6 DEF NodeInv
  <2>16. OwnKept(n)
    <3>1. Carries(a)'
      BY <2>3 DEF Carries
    <3>2. \A r \in Tracks(n) : r.uuid < clock
      BY DEF WholeInv, UuidInv
    <3> QED
      BY <1>3, <2>2, <2>3, <2>9, <2>10, <2>15, <3>1, <3>2 DEF OwnKept
  <2>17. DeliveredWhole'
    <3>1. DeliveredWhole /\ TaskOf(p) \in 1..begun
      BY <1>1, <1>4 DEF WholeInv, Carries
    <3>2. CASE p.index # p.total - 1
      BY <1>3, <2>4, <3>1, <3>2 DEF DeliveredWhole, Whole
    <3>3. CASE p.index = p.total - 1
      <4>1. PICK w : w = Whole(TaskOf(p))
        OBVIOUS
      <4>2. /\ DOMAIN executed'[m] = DOMAIN executed[m] \union {Len(executed[m]) + 1}
            /\ \A j \in DOMAIN executed[m] : executed'[m][j] = executed[m][j]
            /\ executed'[m][Len(executed[m]) + 1] = w
            /\ \A k \in Node \ {m} : executed'[k] = executed[k]
        BY <2>4, <3>3, <4>1, AppendStays DEF ReceiverTypeOK
      <4>3. \A t : Whole(t)' = Whole(t)
        BY DEF Whole
      <4> QED
        BY <1>3, <3>1, <4>1, <4>2, <4>3 DEF DeliveredWhole
    <3> QED
      BY <3>2, <3>3
  <2>18. NoHeapFault'
    BY <2>4 DEF WholeInv, NoHeapFault
  <2> QED
    BY <2>11, <2>13, <2>16, <2>17, <2>18, OwnStepKeepsInv
<1> QED
  BY <1>1, <1>5, <1>6

-----------------------------------------------------------------------------
LEMMA WholeInit == Init => WholeInv
<1> SUFFICES ASSUME Init PROVE WholeInv
  OBVIOUS
<1>1. \A n \in Node : Tracks(n) = {} /\ Around(n) = {} /\ InNet(n) = {} /\ ~Live(n)
  BY DEF Init, Tracks, Around, InNet, Live
<1>2. \A n \in Node : NodeInv(n)
  BY <1>1 DEF Init, NodeInv, Handling, StopAndWait, KeepsSent, AckedRan
<1>3. UuidInv
  BY <1>1 DEF UuidInv
<1> QED
  BY <1>2, <1>3 DEF Init, WholeInv, DeliveredWhole, NoHeapFault, SuccessMeansDelivered

LEMMA WholeStutters ==
    ASSUME WholeInv, UNCHANGED vars
    PROVE  WholeInv'
<1>1. UNCHANGED <<is_tasking, send_index, resend_packet, send_data, target_ip, pc, held,
                  recv_data_map, executed, reported, fault, net, begun, clock>>
  BY DEF vars, senderVars, receiverVars, historyVars
<1>2. ASSUME NEW n \in Node PROVE NodeInv(n)'
  <2>1. InNet(n)' = InNet(n) /\ Around(n)' = Around(n) /\ Live(n)' = Live(n)
    BY <1>1 DEF InNet, Around, Live
  <2>2. Tracks(n)' = Tracks(n)
    BY <1>1, <2>1 DEF Tracks
  <2>3. NodeInv(n)
    BY DEF WholeInv
  <2>4. \A u : Sent(n, u)' = Sent(n, u)
    BY <1>1 DEF Sent, DataTo, FragmentOf
  <2>5. \A u : AckFor(target_ip[n], Sent(n, u))' = AckFor(target_ip[n], Sent(n, u))
    BY <1>1, <2>4 DEF AckFor
  <2>6. Handling(n)' /\ StopAndWait(n)' /\ KeepsSent(n)'
    BY <1>1, <2>1, <2>3, <2>4, <2>5 DEF NodeInv, Handling, StopAndWait, KeepsSent
  <2>7. AckedRan(n)' /\ \A p \in Tracks(n)' : Filled(n, p)'
    BY <1>1, <2>1, <2>2, <2>3 DEF NodeInv, AckedRan, Ran, Whole, Filled, Holds, TaskOf
  <2> QED
    BY <1>1, <2>3, <2>6, <2>7 DEF NodeInv
<1>3. \A n \in Node : Tracks(n)' = Tracks(n)
  BY <1>1 DEF Tracks, Around, InNet, Live
<1>4. UuidInv'
  BY <1>1, <1>3 DEF WholeInv, UuidInv
<1>5. \A p \in net' : Carries(p)'
  BY <1>1 DEF WholeInv, Carries, TaskOf
<1>6. DeliveredWhole'
  BY <1>1 DEF WholeInv, DeliveredWhole, Whole
<1>7. NoHeapFault'
  BY <1>1 DEF WholeInv, NoHeapFault
<1>8. SuccessMeansDelivered'
  BY <1>1 DEF WholeInv, SuccessMeansDelivered, Whole
<1> QED
  BY <1>2, <1>4, <1>5, <1>6, <1>7, <1>8 DEF WholeInv

LEMMA WholeInductive ==
    PatientNetwork /\ TypeInv /\ TypeInv' /\ WholeInv /\ [Next]_vars => WholeInv'
<1> SUFFICES ASSUME PatientNetwork, TypeInv, TypeInv', WholeInv, [Next]_vars PROVE WholeInv'
  OBVIOUS
<1>1. CASE UNCHANGED vars
  BY <1>1, WholeStutters
<1>2. CASE Lose
  BY <1>2, LoseKeepsWhole
<1>3. ASSUME NEW n \in Node, Restart(n) PROVE WholeInv'
  BY <1>3, BootKeepsWhole DEF Restart
<1>4. ASSUME NEW n \in Node, HeapCrash(n) PROVE WholeInv'
  BY <1>4 DEF HeapCrash, WholeInv, NoHeapFault
<1>5. ASSUME NEW n \in Node, ProbeEnds(n) PROVE WholeInv'
  BY <1>5 DEF ProbeEnds, WholeInv, NodeInv, Handling
<1>6. ASSUME NEW n \in Node, User(n) \/ Process(n) PROVE WholeInv'
  BY <1>5, <1>6, UserKeepsWhole, BeginSendKeepsWhole, TimeoutKeepsWhole,
     ReceiveAckKeepsWhole, HandleAckKeepsWhole, ReceiveDataKeepsWhole DEF Process
<1> QED
  BY <1>1, <1>2, <1>3, <1>4, <1>6 DEF Next

LEMMA WholeAlways == ASSUME PatientNetwork PROVE Spec => [](TypeInv /\ WholeInv)
<1>1. TypeInv /\ [Next]_vars => TypeInv'
  BY TypeInductive
<1>2. TypeInv /\ WholeInv /\ [Next]_vars => WholeInv'
  BY <1>1, WholeInductive
<1> QED
  BY <1>1, <1>2, TypeInit, WholeInit, PTL DEF Spec

\* On a patient network what a destination executes is one user's script,
\* whole, whatever is lost, stopped or restarted.
THEOREM ScriptsWhole == PatientNetwork => (Spec => []DeliveredWhole)
<1> SUFFICES ASSUME PatientNetwork PROVE Spec => []DeliveredWhole
  OBVIOUS
<1>1. Spec => [](TypeInv /\ WholeInv)
  BY WholeAlways
<1> QED
  BY <1>1, PTL DEF WholeInv

\* ... no packet is deleted twice and no buffer written past its end ...
THEOREM HeapUnharmed == PatientNetwork => (Spec => []NoHeapFault)
<1> SUFFICES ASSUME PatientNetwork PROVE Spec => []NoHeapFault
  OBVIOUS
<1>1. Spec => [](TypeInv /\ WholeInv)
  BY WholeAlways
<1> QED
  BY <1>1, PTL DEF WholeInv

\* ... and "transferred" on the console means that the script was executed.
THEOREM SuccessIsDelivery == PatientNetwork => (Spec => []SuccessMeansDelivered)
<1> SUFFICES ASSUME PatientNetwork PROVE Spec => []SuccessMeansDelivered
  OBVIOUS
<1>1. Spec => [](TypeInv /\ WholeInv)
  BY WholeAlways
<1> QED
  BY <1>1, PTL DEF WholeInv

-----------------------------------------------------------------------------
\* The tasks n runs, or has a data packet of on its way.
Uses(n) ==
    {t \in Task : \/ is_tasking[n] /\ send_data[n] = t
                  \/ \E p \in InNet(n) : p.type = "data" /\ TaskOf(p) = t}

Running(t) == \E n \in Node : is_tasking[n] /\ send_data[n] = t
Reported(t) == \E n \in Node : t \in reported[n]

\* A task is one node's, and not yet reported while it runs.
ApartInv ==
    /\ \A n \in Node, m \in Node : n # m => Uses(n) \intersect Uses(m) = {}
    /\ \A t \in Task : Running(t) => ~Reported(t)

HistoryInv ==
    /\ \A t \in Task : /\ Reported(t) => t <= begun
                       /\ t > begun => resent[t] = 0
    /\ \A n \in Node : Len(executed[n]) <= MaxExec

\* The last fragment of a script, whose arrival executes it.
Last(p) == p.type = "data" /\ p.index = p.total - 1

\* The last fragment of n's task has not been sent.
Before(n) == pc[n] = "begin" \/ send_index[n] < Size[send_data[n]] - 1

\* A script has run no more often than its task was transmitted; the last
\* fragment on its way has not run, and before it is sent nothing has.
CountInv ==
    /\ \A t \in Task :
        /\ IsFiniteSet(Executions(t))
        /\ Cardinality(Executions(t)) <= 1 + resent[t]
        /\ t > begun => Executions(t) = {}
    /\ \A p \in net : Last(p) => Cardinality(Executions(TaskOf(p))) <= resent[TaskOf(p)]
    /\ \A n \in Node : is_tasking[n] /\ Before(n) => Executions(send_data[n]) = {}

ServiceInv == ApartInv /\ HistoryInv /\ CountInv

-----------------------------------------------------------------------------
\* How a step looks to the service, task by task.
Sends(t) == IF t > begun THEN 0 ELSE 1 + resent[t]

LEMMA ShowsNothing ==
    ASSUME \A t \in Task : /\ Status(t)' = Status(t) /\ Sends(t)' = Sends(t)
                           /\ Executions(t)' = Executions(t)
    PROVE  [Service!Next]_(Service!vars)
BY DEF Service!vars, Sends

LEMMA ShowsStart ==
    ASSUME NEW t0 \in Task, Status(t0) = "unborn", Status(t0)' = "running", Sends(t0)' = 1,
           \A t \in Task \ {t0} : Status(t)' = Status(t) /\ Sends(t)' = Sends(t),
           \A t \in Task : Executions(t)' = Executions(t)
    PROVE  [Service!Next]_(Service!vars)
<1>1. Service!Start(t0)
  BY DEF Service!Start, Sends
<1> QED
  BY <1>1 DEF Service!Next

LEMMA ShowsRetry ==
    ASSUME NEW t0 \in Task, Status(t0) = "running", Sends(t0)' = Sends(t0) + 1,
           \A t \in Task \ {t0} : Sends(t)' = Sends(t),
           \A t \in Task : Status(t)' = Status(t) /\ Executions(t)' = Executions(t)
    PROVE  [Service!Next]_(Service!vars)
<1>1. Service!Retry(t0)
  BY DEF Service!Retry, Sends
<1> QED
  BY <1>1 DEF Service!Next

LEMMA ShowsRun ==
    ASSUME NEW t0 \in Task, Cardinality(Executions(t0)) < Sends(t0),
           Cardinality(Executions(t0)') = Cardinality(Executions(t0)) + 1,
           \A t \in Task \ {t0} : Executions(t)' = Executions(t),
           \A t \in Task : Status(t)' = Status(t) /\ Sends(t)' = Sends(t)
    PROVE  [Service!Next]_(Service!vars)
<1>1. Service!Run(t0)
  BY DEF Service!Run, Sends
<1> QED
  BY <1>1 DEF Service!Next

LEMMA ShowsEnd ==
    ASSUME NEW t0 \in Task, Status(t0) = "running",
           \/ Status(t0)' = "failed"
           \/ Status(t0)' = "succeeded" /\ Cardinality(Executions(t0)) > 0,
           \A t \in Task \ {t0} : Status(t)' = Status(t),
           \A t \in Task : Sends(t)' = Sends(t) /\ Executions(t)' = Executions(t)
    PROVE  [Service!Next]_(Service!vars)
<1>1. Service!Fail(t0) \/ Service!Succeed(t0)
  BY DEF Service!Fail, Service!Succeed, Sends
<1> QED
  BY <1>1 DEF Service!Next

-----------------------------------------------------------------------------
LEMMA StatusStays ==
    ASSUME NEW t \in Task, begun' = begun, Reported(t)' <=> Reported(t),
           Running(t)' <=> Running(t)
    PROVE  Status(t)' = Status(t)
BY DEF Status, Running, Reported

LEMMA ExecutionsStay ==
    ASSUME executed' = executed
    PROVE  \A t \in Task : Executions(t)' = Executions(t)
BY DEF Executions, Whole

\* Two scripts are never the same: they differ in their first fragment.
LEMMA ScriptsDiffer ==
    ASSUME NEW t \in Task, NEW s \in Task, Whole(t) = Whole(s)
    PROVE  t = s
<1>1. Size[t] \in 1..MaxFrags /\ Size[s] \in 1..MaxFrags
  BY SizeAssumption DEF Task
<1>2. Whole(t)[0] = <<t, 0>> /\ Whole(s)[0] = <<s, 0>>
  BY <1>1 DEF Whole
<1> QED
  BY <1>2

\* Whatever n uses or runs has begun.
LEMMA UsesBegun ==
    ASSUME TypeInv, WholeInv, NEW n \in Node, NEW t \in Uses(n)
    PROVE  t \in Task /\ t <= begun
<1>1. CASE is_tasking[n] /\ send_data[n] = t
  BY <1>1, CountersType DEF WholeInv, NodeInv, Uses, TypeInv
<1>2. CASE \E p \in InNet(n) : p.type = "data" /\ TaskOf(p) = t
  BY <1>2, CountersType DEF WholeInv, Carries, InNet, Uses, TypeInv
<1> QED
  BY <1>1, <1>2 DEF Uses

LEMMA RunningUses ==
    ASSUME TypeInv, NEW n \in Node, is_tasking[n]
    PROVE  send_data[n] \in Task /\ send_data[n] \in Uses(n)
BY DEF TypeInv, BegunWell, Uses

LEMMA RunningStatus ==
    ASSUME TypeInv, WholeInv, ApartInv, NEW n \in Node, is_tasking[n]
    PROVE  /\ send_data[n] \in Task /\ send_data[n] <= begun
           /\ Status(send_data[n]) = "running" /\ ~Reported(send_data[n])
<1>1. send_data[n] \in Task /\ send_data[n] <= begun /\ begun \in Nat
  BY RunningUses, UsesBegun, CountersType DEF TypeInv
<1>2. Running(send_data[n])
  BY DEF Running
<1>3. ~Reported(send_data[n])
  BY <1>1, <1>2 DEF ApartInv
<1>4. ~(send_data[n] > begun)
  BY <1>1 DEF Task
<1> QED
  BY <1>1, <1>2, <1>3, <1>4 DEF Status, Running, Reported

\* Nobody else runs what n runs.
LEMMA RunsAlone ==
    ASSUME TypeInv, ApartInv, NEW n \in Node, is_tasking[n], NEW m \in Node \ {n}
    PROVE  send_data[n] \notin Uses(m) /\ ~(is_tasking[m] /\ send_data[m] = send_data[n])
BY RunningUses DEF ApartInv, Uses

\* A step of n's task that executes nothing: what it may do to the task.
LEMMA ServiceKept ==
    ASSUME TypeInv, TypeInv', WholeInv, ServiceInv, NEW n \in Node, OwnStep(n),
           executed' = executed, begun <= begun',
           is_tasking'[n] => \/ is_tasking[n] /\ send_data'[n] = send_data[n]
                             \/ send_data'[n] > begun,
           \A p \in InNet(n)' : p.type = "data" => TaskOf(p) \in Uses(n),
           \A t \in Task : resent[t] <= resent'[t] /\ (t > begun' => resent'[t] = 0),
           \A t \in Task : Reported(t)' => Reported(t) \/ (t \in Uses(n) /\ ~Running(t)'),
           \A p \in net' : \/ p \in net
                           \/ Last(p) => Cardinality(Executions(TaskOf(p))) <= resent'[TaskOf(p)],
           is_tasking'[n] /\ Before(n)' => Executions(send_data'[n]) = {}
    PROVE  ServiceInv'
<1>0. begun \in Nat /\ begun' \in Nat
  <2>1. begun' \in 0..MaxTasks
    BY DEF TypeInv, TypeOK, HistoryTypeOK
  <2> QED
    BY <2>1, CountersType DEF TypeInv
<1>1. \A m \in Node \ {n} : InNet(m)' = InNet(m)
  BY OthersStay DEF TypeInv
<1>2. \A m \in Node \ {n} : Uses(m)' = Uses(m)
  <2>1. ASSUME NEW m \in Node \ {n} PROVE Uses(m)' = Uses(m)
    <3>1. InNet(m)' = InNet(m) /\ is_tasking'[m] = is_tasking[m] /\ send_data'[m] = send_data[m]
      BY <1>1 DEF OwnStep
    <3> QED
      BY <3>1 DEF Uses, TaskOf
  <2> QED
    BY <2>1
<1>3. \A t \in Uses(n)' : t \in Uses(n) \/ t > begun
  BY DEF Uses, TaskOf
<1>4. ApartInv'
  <2>1. \A m \in Node : \A t \in Uses(m) : t \in Nat /\ t <= begun
    BY UsesBegun DEF Task
  <2>2. \A m \in Node \ {n} : Uses(n)' \intersect Uses(m)' = {}
    BY <1>0, <1>2, <1>3, <2>1 DEF ServiceInv, ApartInv
  <2>3. ASSUME NEW k \in Node, NEW m \in Node, k # m
        PROVE  Uses(k)' \intersect Uses(m)' = {}
    BY <1>2, <2>2, <2>3 DEF ServiceInv, ApartInv
  <2>4. ASSUME NEW t \in Task, Running(t)', Reported(t)' PROVE FALSE
    <3>1. Reported(t) /\ t <= begun /\ ~Running(t)
      BY <2>4 DEF ServiceInv, ApartInv, HistoryInv
    <3>2. PICK m \in Node : is_tasking'[m] /\ send_data'[m] = t
      BY <2>4 DEF Running
    <3>3. m = n
      BY <3>1, <3>2 DEF OwnStep, Running
    <3> QED
      BY <1>0, <3>1, <3>2, <3>3 DEF Running, Task
  <2> QED
    BY <2>3, <2>4 DEF ApartInv
<1>5. HistoryInv'
  <2>1. ASSUME NEW t \in Task, Reported(t)' PROVE t <= begun'
    <3>1. t <= begun
      BY <2>1, UsesBegun DEF ServiceInv, HistoryInv
    <3> QED
      BY <1>0, <3>1 DEF Task
  <2>2. \A m \in Node : Len(executed'[m]) <= MaxExec
    BY DEF ServiceInv, HistoryInv
  <2> QED
    BY <2>1, <2>2 DEF HistoryInv
<1>6. CountInv'
  <2>0. \A t \in Task : Executions(t)' = Executions(t)
    BY ExecutionsStay
  <2>1. \A t \in Task : resent[t] \in Nat /\ resent'[t] \in Nat
    BY DEF TypeInv, TypeOK, HistoryTypeOK
  <2>2. \A t \in Task : IsFiniteSet(Executions(t)) /\ Cardinality(Executions(t)) \in Nat
    BY FS_CardinalityType DEF ServiceInv, CountInv
  <2>3. ASSUME NEW t \in Task
        PROVE  /\ IsFiniteSet(Executions(t)')
               /\ Cardinality(Executions(t)') <= 1 + resent'[t]
               /\ t > begun' => Executions(t)' = {}
    <3>1. Cardinality(Executions(t)') <= 1 + resent'[t]
      <4>1. Cardinality(Executions(t)) <= 1 + resent[t]
        BY DEF ServiceInv, CountInv
      <4> QED
        BY <2>0, <2>1, <2>2, <4>1
    <3>2. t > begun' => t > begun
      BY <1>0 DEF Task
    <3> QED
      BY <2>0, <2>2, <3>1, <3>2 DEF ServiceInv, CountInv
  <2>4. ASSUME NEW p \in net', Last(p)
        PROVE  Cardinality(Executions(TaskOf(p))') <= resent'[TaskOf(p)]
    <3>1. CASE p \in net
      <4>1. TaskOf(p) \in Task
        <5>1. TaskOf(p) \in 1..begun
          BY <2>4, <3>1 DEF WholeInv, Carries, Last
        <5> QED
          BY <5>1, CountersType DEF Task, TypeInv
      <4>2. Cardinality(Executions(TaskOf(p))) <= resent[TaskOf(p)]
        BY <2>4, <3>1 DEF ServiceInv, CountInv
      <4> QED
        BY <2>0, <2>1, <2>2, <4>1, <4>2
    <3>2. CASE p \notin net
      <4>1. TaskOf(p) \in Task
        <5>1. p \in InNet(n)'
          BY <3>2 DEF InNet, OwnStep
        <5> QED
          BY <5>1, <2>4 DEF Last, Uses
      <4> QED
        BY <2>0, <2>4, <3>2, <4>1
    <3> QED
      BY <3>1, <3>2
  <2>5. ASSUME NEW m \in Node, is_tasking'[m], Before(m)'
        PROVE  Executions(send_data[m])' = {}
    <3>0. send_data'[m] \in Task
      BY <2>5 DEF TypeInv, BegunWell
    <3>1. CASE m = n
      BY <2>0, <2>5, <3>0, <3>1, ExecutionsStay DEF Executions, Whole
    <3>2. CASE m # n
      <4>1. /\ is_tasking[m] /\ send_data'[m] = send_data[m] /\ Before(m)
        BY <2>5, <3>2 DEF OwnStep, Before
      <4>2. Executions(send_data[m]) = {}
        BY <4>1 DEF ServiceInv, CountInv
      <4> QED
        BY <4>1, <4>2 DEF Executions, Whole
    <3> QED
      BY <3>1, <3>2
  <2> QED
    BY <2>3, <2>4, <2>5 DEF CountInv, Last, TaskOf
<1> QED
  BY <1>4, <1>5, <1>6 DEF ServiceInv

LEMMA InNetUses ==
    ASSUME TypeInv, WholeInv, NEW n \in Node, NEW p \in InNet(n), p.type = "data"
    PROVE  TaskOf(p) \in Task /\ TaskOf(p) \in Uses(n)
<1>1. TaskOf(p) \in 1..begun
  BY DEF WholeInv, Carries, InNet
<1>2. TaskOf(p) \in Task
  BY <1>1, CountersType DEF Task, TypeInv
<1> QED
  BY <1>2 DEF Uses

LEMMA CountsAre ==
    ASSUME TypeInv, NEW t \in Task
    PROVE  resent[t] \in Nat
BY DEF TypeInv, TypeOK, HistoryTypeOK

\* A step in which n goes on running what it ran, or goes on running nothing.
LEMMA NothingShown ==
    ASSUME TypeInv, TypeInv', WholeInv, ServiceInv, NEW n \in Node, OwnStep(n),
           UNCHANGED <<executed, begun, resent, reported>>,
           is_tasking'[n] = is_tasking[n], is_tasking[n] => send_data'[n] = send_data[n],
           \A p \in net' : \/ p \in net
                           \/ /\ p.type = "data" => TaskOf(p) \in Uses(n)
                              /\ Last(p) => Cardinality(Executions(TaskOf(p))) <= resent[TaskOf(p)],
           is_tasking[n] /\ Before(n)' => Executions(send_data[n]) = {}
    PROVE  ServiceInv' /\ [Service!Next]_(Service!vars)
<1>1. \A t \in Task : Reported(t)' <=> Reported(t)
  BY DEF Reported
<1>2. \A p \in InNet(n)' : p.type = "data" => TaskOf(p) \in Uses(n)
  BY InNetUses DEF InNet
<1>3. \A t \in Task : resent[t] <= resent'[t] /\ (t > begun' => resent'[t] = 0)
  BY CountsAre DEF ServiceInv, HistoryInv
<1>4. begun <= begun'
  BY CountersType DEF TypeInv
<1>5. ServiceInv'
  BY <1>1, <1>2, <1>3, <1>4, ServiceKept
<1>6. ASSUME NEW t \in Task PROVE Status(t)' = Status(t)
  <2>1. \A m \in Node : (is_tasking'[m] /\ send_data'[m] = t)
                            <=> (is_tasking[m] /\ send_data[m] = t)
    BY DEF OwnStep
  <2>2. Running(t)' <=> Running(t)
    BY <2>1 DEF Running
  <2> QED
    BY <1>1, <2>2, StatusStays
<1>7. \A t \in Task : Sends(t)' = Sends(t)
  BY DEF Sends
<1> QED
  BY <1>5, <1>6, <1>7, ExecutionsStay, ShowsNothing

\* The task of n ends without success.
LEMMA TaskFails ==
    ASSUME TypeInv, TypeInv', WholeInv, ServiceInv, NEW n \in Node, OwnStep(n),
           UNCHANGED <<executed, begun, resent, reported>>, net' \subseteq net,
           is_tasking[n], ~is_tasking'[n]
    PROVE  ServiceInv' /\ [Service!Next]_(Service!vars)
<1>1. \A t \in Task : Reported(t)' <=> Reported(t)
  BY DEF Reported
<1>2. \A p \in InNet(n)' : p.type = "data" => TaskOf(p) \in Uses(n)
  BY InNetUses DEF InNet
<1>3. \A t \in Task : resent[t] <= resent'[t] /\ (t > begun' => resent'[t] = 0)
  BY CountsAre DEF ServiceInv, HistoryInv
<1>4. begun <= begun'
  BY CountersType DEF TypeInv
<1>5. ServiceInv'
  BY <1>1, <1>2, <1>3, <1>4, ServiceKept
<1>6. /\ send_data[n] \in Task /\ send_data[n] <= begun
      /\ Status(send_data[n]) = "running" /\ ~Reported(send_data[n])
  BY RunningStatus DEF ServiceInv
<1>7. ASSUME NEW t \in Task, t # send_data[n] PROVE Status(t)' = Status(t)
  <2>1. Running(t)' <=> Running(t)
    BY <1>7 DEF Running, OwnStep
  <2> QED
    BY <1>1, <2>1, StatusStays
<1>8. PICK t0 : t0 = send_data[n]
  OBVIOUS
<1>9. Status(t0)' = "failed"
  <2>1. ~Running(t0)'
    BY <1>8, RunsAlone DEF ServiceInv, Running, OwnStep
  <2>2. ~Reported(t0)'
    BY <1>1, <1>6, <1>8
  <2>3. ~(t0 > begun')
    BY <1>6, <1>8, CountersType DEF TypeInv, Task
  <2> QED
    BY <2>1, <2>2, <2>3 DEF Status, Running, Reported
<1>10. \A t \in Task : Sends(t)' = Sends(t)
  BY DEF Sends
<1> QED
  BY <1>5, <1>6, <1>7, <1>8, <1>9, <1>10, ExecutionsStay, ShowsEnd

LEMMA BeginTaskShows ==
    ASSUME PatientNetwork, TypeInv, TypeInv', WholeInv, ServiceInv,
           NEW n \in Node, NEW m \in Node, BeginTask(n, m)
    PROVE  ServiceInv' /\ [Service!Next]_(Service!vars)
<1> USE DEF TypeInv, TypeOK, TaskTypeOK, TimerTypeOK
<1>1. /\ UNCHANGED <<net, held, resend_packet, executed, recv_data_map, reported, resent>>
      /\ begun' = begun + 1 /\ is_tasking'[n] /\ send_data'[n] = begun + 1
      /\ ~is_tasking[n] /\ begun < MaxTasks
  BY DEF BeginTask, receiverVars
<1>2. OwnStep(n)
  BY <1>1 DEF OwnStep, BeginTask
<1>3. begun + 1 \in Task /\ begun \in Nat
  BY <1>1, CountersType DEF Task
<1>4. \A t \in Task : Reported(t)' <=> Reported(t)
  BY <1>1 DEF Reported
<1>5. \A p \in InNet(n)' : p.type = "data" => TaskOf(p) \in Uses(n)
  BY <1>1, InNetUses DEF InNet
<1>6. \A t \in Task : resent[t] <= resent'[t] /\ (t > begun' => resent'[t] = 0)
  BY <1>1, <1>3, CountsAre DEF ServiceInv, HistoryInv, Task
<1>7. Executions(begun + 1) = {}
  BY <1>3 DEF ServiceInv, CountInv
<1>8. ServiceInv'
  BY <1>1, <1>2, <1>3, <1>4, <1>5, <1>6, <1>7, ServiceKept
<1>9. PICK t0 \in Task : t0 = begun + 1
  BY <1>3
<1>10. ~Reported(t0) /\ ~Reported(t0)' /\ resent[t0] = 0
  BY <1>3, <1>4, <1>9 DEF ServiceInv, HistoryInv
<1>11. Status(t0) = "unborn" /\ Status(t0)' = "running" /\ Sends(t0)' = 1
  <2>1. t0 > begun /\ ~(t0 > begun')
    BY <1>1, <1>3, <1>9
  <2>2. Running(t0)'
    BY <1>1, <1>9 DEF Running
  <2> QED
    BY <1>1, <1>10, <2>1, <2>2 DEF Status, Sends, Running, Reported
<1>12. ASSUME NEW t \in Task \ {t0} PROVE Status(t)' = Status(t) /\ Sends(t)' = Sends(t)
  <2>1. t > begun' <=> t > begun
    BY <1>1, <1>3, <1>9 DEF Task
  <2>2. Running(t)' <=> Running(t)
    BY <1>1, <1>2, <1>9 DEF Running, OwnStep
  <2> QED
    BY <1>1, <1>4, <2>1, <2>2 DEF Status, Sends, Running, Reported
<1> QED
  BY <1>1, <1>8, <1>11, <1>12, ExecutionsStay, ShowsStart

LEMMA UserShows ==
    ASSUME PatientNetwork, TypeInv, TypeInv', WholeInv, ServiceInv, NEW n \in Node, User(n)
    PROVE  ServiceInv' /\ [Service!Next]_(Service!vars)
<1> USE DEF TypeInv, TypeOK, TaskTypeOK, TimerTypeOK
<1>1. ASSUME NEW m \in Targets(n), BeginTask(n, m)
      PROVE  ServiceInv' /\ [Service!Next]_(Service!vars)
  BY <1>1, BeginTaskShows DEF Targets
<1>2. ASSUME NEW m, RefuseTask(n, m) PROVE ServiceInv' /\ [Service!Next]_(Service!vars)
  <2>1. /\ ~is_tasking[n]
        /\ UNCHANGED <<is_tasking, send_index, resend_packet, pc, held, recv_data_map,
                       executed, reported, resent, begun, net>>
        /\ target_ip' = [target_ip EXCEPT ![n] = m]
        /\ send_data' = [send_data EXCEPT ![n] = NoScript]
    BY <1>2 DEF RefuseTask, receiverVars, historyVars
  <2>2. OwnStep(n)
    BY <2>1 DEF OwnStep
  <2> HIDE DEF TypeInv, TypeOK
  <2> QED
    BY <2>1, <2>2, NothingShown
<1>3. CASE StopTask(n)
  <2>1. /\ is_tasking' = [is_tasking EXCEPT ![n] = FALSE]
        /\ UNCHANGED <<send_index, resend_packet, send_data, target_ip, pc, held,
                       recv_data_map, executed, reported, resent, begun, net>>
    BY <1>3 DEF StopTask, receiverVars, historyVars
  <2>2. OwnStep(n) /\ ~is_tasking'[n]
    BY <2>1 DEF OwnStep
  <2>3. /\ UNCHANGED <<executed, begun, resent, reported, net>>
        /\ is_tasking[n] \in BOOLEAN /\ is_tasking'[n] = FALSE
    BY <2>1
  <2> HIDE DEF TypeInv, TypeOK
  <2>4. CASE is_tasking[n]
    BY <2>2, <2>3, <2>4, TaskFails
  <2>5. CASE ~is_tasking[n]
    <3>1. is_tasking'[n] = is_tasking[n]
      BY <2>3, <2>5
    <3> QED
      BY <2>2, <2>3, <2>5, <3>1, NothingShown
  <2> QED
    BY <2>4, <2>5
<1>4. ASSUME NEW m, DetectNet(n, m) PROVE FALSE
  BY <1>4 DEF DetectNet, PatientNetwork
<1> QED
  BY <1>1, <1>2, <1>3, <1>4 DEF User

LEMMA BootShows ==
    ASSUME TypeInv, TypeInv', WholeInv, ServiceInv, NEW n \in Node, Boot(n),
           UNCHANGED <<reported, begun, resent, net>>
    PROVE  ServiceInv' /\ [Service!Next]_(Service!vars)
<1> USE DEF TypeInv, TypeOK, TaskTypeOK, TimerTypeOK
<1>1. \A m \in Node : \A u \in Uuid : \/ recv_data_map'[m][u] = recv_data_map[m][u]
                                      \/ recv_data_map'[m][u] = NoBuffer
  BY DEF Boot, ReceiverTypeOK
<1>2. OwnStep(n)
  BY <1>1 DEF OwnStep, Boot, BootSender
<1>3. ~is_tasking'[n] /\ is_tasking[n] \in BOOLEAN /\ executed' = executed
  BY DEF Boot, BootSender
<1>4. is_tasking'[n] = FALSE
  BY DEF Boot, BootSender
<1> HIDE DEF TypeInv, TypeOK
<1>5. CASE is_tasking[n]
  BY <1>2, <1>3, <1>5, TaskFails
<1>6. CASE ~is_tasking[n]
  <2>1. is_tasking'[n] = is_tasking[n]
    BY <1>3, <1>4, <1>6
  <2> QED
    BY <1>2, <1>3, <1>6, <2>1, NothingShown
<1> QED
  BY <1>5, <1>6

LEMMA BeginSendShows ==
    ASSUME PatientNetwork, TypeInv, TypeInv', WholeInv, ServiceInv, NEW n \in Node,
           BeginSend(n)
    PROVE  ServiceInv' /\ [Service!Next]_(Service!vars)
<1> USE DEF TypeInv, TypeOK, TaskTypeOK, TimerTypeOK
<1>0. PICK q : q = DataTo(n, target_ip[n], clock, 0, Size[send_data[n]])
  OBVIOUS
<1>1. /\ net' = net \union {q} /\ resend_packet' = [resend_packet EXCEPT ![n] = {q}]
      /\ send_index' = [send_index EXCEPT ![n] = 0] /\ pc' = [pc EXCEPT ![n] = "idle"]
      /\ UNCHANGED <<is_tasking, send_data, target_ip, held, executed, recv_data_map,
                     reported, begun, resent>>
  BY <1>0 DEF BeginSend, receiverVars, historyVars
<1>2. pc[n] = "begin" /\ is_tasking[n]
  BY DEF BeginSend, WholeInv, NodeInv, Handling
<1>3. send_data[n] \in Task /\ send_data[n] \in Uses(n)
  BY <1>2, RunningUses
<1>4. Size[send_data[n]] \in 1..MaxFrags
  BY <1>3, SizeAssumption DEF Task
<1>5. q.type = "data" /\ Owner(q) = n /\ TaskOf(q) = send_data[n]
  BY <1>0, <1>3, <1>4 DEF DataTo, FragmentOf, Owner, TaskOf
<1>6. Executions(send_data[n]) = {}
  BY <1>2 DEF ServiceInv, CountInv, Before
<1>7. Cardinality(Executions(send_data[n])) <= resent[send_data[n]]
  BY <1>3, <1>6, CountsAre, FS_EmptySet
<1>8. OwnStep(n)
  BY <1>1, <1>5 DEF OwnStep
<1> HIDE DEF TypeInv, TypeOK
<1> QED
  BY <1>1, <1>3, <1>5, <1>6, <1>7, <1>8, NothingShown

LEMMA RetransmitShows ==
    ASSUME PatientNetwork, TypeInv, TypeInv', WholeInv, ServiceInv, NEW n \in Node,
           Timeout(n), Retransmit(n)
    PROVE  ServiceInv' /\ [Service!Next]_(Service!vars)
<1> USE DEF TypeInv, TypeOK, TaskTypeOK, TimerTypeOK
<1>1. /\ UNCHANGED <<is_tasking, send_index, resend_packet, send_data, target_ip, pc, held,
                     recv_data_map, executed, reported, begun>>
      /\ resent' = [resent EXCEPT ![send_data[n]] = @ + 1]
      /\ is_tasking[n] /\ pc[n] = "idle"
  BY PatientIsAlone DEF Timeout, Retransmit, receiverVars
<1>2. /\ send_data[n] \in Task /\ send_data[n] <= begun
      /\ Status(send_data[n]) = "running" /\ send_data[n] \in Uses(n)
  BY <1>1, RunningStatus, RunningUses DEF ServiceInv
<1>3. PICK u, q : resend_packet[n] = {q} /\ q = Sent(n, u) /\ target_ip[n] \in Node
  BY <1>1 DEF WholeInv, NodeInv, KeepsSent, Live
<1>4. net' = net \union {q}
  <2>1. [q EXCEPT !.dst = target_ip[n]] = q
    BY <1>3 DEF Sent, DataTo
  <2> QED
    BY <1>3, <2>1 DEF Retransmit
<1>5. q.type = "data" /\ Owner(q) = n /\ TaskOf(q) = send_data[n]
  <2>1. send_index[n] \in 0..(Size[send_data[n]] - 1)
    BY <1>1 DEF WholeInv, NodeInv, KeepsSent, Live
  <2> QED
    BY <1>2, <1>3, <2>1, SentFields
<1>6. OwnStep(n)
  BY <1>1, <1>4, <1>5 DEF OwnStep
<1>7. \A t \in Task : resent[t] \in Nat /\ resent'[t] \in Nat
  BY CountsAre DEF HistoryTypeOK
<1>8. /\ resent'[send_data[n]] = resent[send_data[n]] + 1
      /\ \A t \in Task \ {send_data[n]} : resent'[t] = resent[t]
  BY <1>1, <1>2 DEF HistoryTypeOK
<1> HIDE DEF TypeInv, TypeOK
<1>9. \A t \in Task : Reported(t)' <=> Reported(t)
  BY <1>1 DEF Reported
<1>10. \A p \in InNet(n)' : p.type = "data" => TaskOf(p) \in Uses(n)
  BY <1>2, <1>4, <1>5, InNetUses DEF InNet
<1>11. \A t \in Task : resent[t] <= resent'[t] /\ (t > begun' => resent'[t] = 0)
  <2>1. ~(send_data[n] > begun')
    BY <1>1, <1>2, CountersType DEF TypeInv, Task
  <2> QED
    BY <1>1, <1>7, <1>8, <2>1 DEF ServiceInv, HistoryInv
<1>12. Cardinality(Executions(TaskOf(q))) <= resent'[TaskOf(q)]
  <2>1. Cardinality(Executions(send_data[n])) <= 1 + resent[send_data[n]]
    BY <1>2 DEF ServiceInv, CountInv
  <2> QED
    BY <1>2, <1>5, <1>7, <1>8, <2>1
<1>13. is_tasking'[n] /\ Before(n)' => Executions(send_data'[n]) = {}
  BY <1>1 DEF Before, ServiceInv, CountInv
<1>14. begun <= begun'
  BY <1>1, CountersType DEF TypeInv
<1>15. ServiceInv'
  BY <1>1, <1>4, <1>6, <1>9, <1>10, <1>11, <1>12, <1>13, <1>14, ServiceKept
<1>16. \A t \in Task : Status(t)' = Status(t)
  BY <1>1, <1>9, StatusStays DEF Running
<1>17. /\ Sends(send_data[n])' = Sends(send_data[n]) + 1
       /\ \A t \in Task \ {send_data[n]} : Sends(t)' = Sends(t)
  <2>1. ~(send_data[n] > begun)
    BY <1>2, CountersType DEF TypeInv, Task
  <2> QED
    BY <1>1, <1>2, <1>7, <1>8, <2>1 DEF Sends
<1>18. PICK t0 \in Task : t0 = send_data[n] /\ Sends(t0)' = Sends(t0) + 1
  <2>1. send_data'[n] = send_data[n]
    BY <1>1
  <2> QED
    BY <1>2, <1>17, <2>1 DEF Sends
<1> QED
  BY <1>1, <1>2, <1>15, <1>16, <1>17, <1>18, ExecutionsStay, ShowsRetry

LEMMA TimeoutShows ==
    ASSUME PatientNetwork, TypeInv, TypeInv', WholeInv, ServiceInv, NEW n \in Node, Timeout(n)
    PROVE  ServiceInv' /\ [Service!Next]_(Service!vars)
<1>1. UNCHANGED <<send_index, resend_packet, send_data, target_ip, pc, held,
                  recv_data_map, executed, reported, begun>>
  BY DEF Timeout, receiverVars
<1>2. CASE LateAlarm(n)
  <2>1. UNCHANGED <<is_tasking, net, resent>> /\ ~is_tasking[n]
    BY <1>2 DEF LateAlarm
  <2>2. OwnStep(n)
    BY <1>1, <2>1 DEF OwnStep
  <2> QED
    BY <1>1, <2>1, <2>2, NothingShown
<1>3. CASE GiveUp(n)
  <2>1. /\ UNCHANGED <<net, resent>> /\ is_tasking[n]
        /\ is_tasking' = [is_tasking EXCEPT ![n] = FALSE]
    BY <1>3 DEF GiveUp
  <2>2. OwnStep(n) /\ ~is_tasking'[n]
    BY <1>1, <2>1 DEF OwnStep, TypeInv, TypeOK, TaskTypeOK
  <2> QED
    BY <1>1, <2>1, <2>2, TaskFails
<1> QED
  BY <1>2, <1>3, RetransmitShows DEF Timeout

LEMMA ReceiveAckShows ==
    ASSUME PatientNetwork, TypeInv, TypeInv', WholeInv, ServiceInv, NEW n \in Node,
           ReceiveAck(n)
    PROVE  ServiceInv' /\ [Service!Next]_(Service!vars)
<1>1. PICK p \in net : /\ p.type = "ack" /\ p.dst = n /\ Consume(p, {})
                       /\ DropAck(n, p) \/ TakeAck(n, p)
  BY DEF ReceiveAck
<1>2. net' = net \ {p} /\ Owner(p) = n
  BY <1>1, ConsumeOnce DEF Owner
<1>3. UNCHANGED <<is_tasking, send_index, resend_packet, send_data, target_ip,
                  recv_data_map, executed, reported, begun, resent>>
  BY DEF ReceiveAck, receiverVars, historyVars
<1>4. \A m \in Node \ {n} : pc'[m] = pc[m] /\ held'[m] = held[m]
  BY <1>1 DEF DropAck, TakeAck, TypeInv, TypeOK, TimerTypeOK
<1>5. OwnStep(n)
  BY <1>2, <1>3, <1>4 DEF OwnStep
<1>6. pc'[n] # "begin"
  BY <1>1 DEF ReceiveAck, DropAck, TakeAck, TypeInv, TypeOK, TimerTypeOK
<1>7. is_tasking[n] /\ Before(n)' => Executions(send_data[n]) = {}
  BY <1>3, <1>6 DEF Before, ServiceInv, CountInv
<1> QED
  BY <1>2, <1>3, <1>5, <1>7, NothingShown

LEMMA HandleAckShows ==
    ASSUME TypeInv, TypeInv', WholeInv, ServiceInv, NEW n \in Node, HandleAck(n)
    PROVE  ServiceInv' /\ [Service!Next]_(Service!vars)
<1> USE DEF TypeInv, TypeOK, TaskTypeOK, TimerTypeOK
<1>1. pc[n] = "ack" /\ UNCHANGED <<begun, resent>>
  BY DEF HandleAck
<1>2. ~DoubleFree(n)
  BY <1>1, HeldIsAwaited DEF DoubleFree
<1>3. PICK p \in held[n] : StaleAck(n, p) \/ FinalAck(n, p) \/ NextFragment(n, p)
  BY <1>2 DEF HandleAck
<1>4. /\ pc' = [pc EXCEPT ![n] = "idle"] /\ held' = [held EXCEPT ![n] = {}]
      /\ UNCHANGED <<send_data, target_ip, recv_data_map, executed>>
  BY <1>2 DEF HandleAck, receiverVars
<1>5. ~StaleAck(n, p)
  BY <1>1, HeldIsAwaited DEF StaleAck
<1>6. /\ Live(n) /\ is_tasking[n] /\ p.type = "ack" /\ p.src = target_ip[n]
      /\ p.index = send_index[n] + 1 /\ p.total = Size[send_data[n]]
      /\ send_index[n] \in 0..(Size[send_data[n]] - 1)
  BY <1>1, HeldIsAwaited DEF Live
<1>7. /\ send_data[n] \in Task /\ send_data[n] <= begun /\ send_data[n] \in Uses(n)
      /\ Status(send_data[n]) = "running" /\ ~Reported(send_data[n])
  BY <1>6, RunningStatus, RunningUses DEF ServiceInv
<1>8. CASE FinalAck(n, p)
  <2>1. /\ is_tasking' = [is_tasking EXCEPT ![n] = FALSE] /\ net' = net
        /\ send_index' = [send_index EXCEPT ![n] = -100]
        /\ resend_packet' = [resend_packet EXCEPT ![n] = {}]
        /\ reported' = [reported EXCEPT ![n] = @ \union {send_data[n]}]
        /\ p.index >= p.total
    BY <1>8 DEF FinalAck
  <2>2. OwnStep(n) /\ ~is_tasking'[n]
    BY <1>4, <2>1 DEF OwnStep
  <2>3. PICK t0 \in Task : t0 = send_data[n]
    BY <1>7
  <2>4. Ran(t0)
    BY <1>6, <2>1, <2>3 DEF WholeInv, NodeInv, AckedRan, Around
  <2>5. \A t \in Task : Reported(t)' <=> Reported(t) \/ t = t0
    <3>0. reported \in [Node -> SUBSET (0..MaxTasks)]
      BY DEF HistoryTypeOK
    <3> HIDE DEF TypeInv, TypeOK
    <3>1. \A m \in Node \ {n} : reported'[m] = reported[m]
      BY <2>1, <3>0
    <3>2. reported'[n] = reported[n] \union {t0}
      BY <2>1, <2>3, <3>0
    <3> QED
      BY <3>1, <3>2 DEF Reported
  <2> HIDE DEF TypeInv, TypeOK
  <2>6. ~Running(t0)'
    BY <1>6, <2>2, <2>3, RunsAlone DEF ServiceInv, Running, OwnStep
  <2>7. \A r \in InNet(n)' : r.type = "data" => TaskOf(r) \in Uses(n)
    BY <2>1, InNetUses DEF InNet
  <2>8. \A t \in Task : resent[t] <= resent'[t] /\ (t > begun' => resent'[t] = 0)
    BY <1>1, CountsAre DEF ServiceInv, HistoryInv
  <2>9. begun <= begun'
    BY <1>1, CountersType DEF TypeInv
  <2>10. ServiceInv'
    BY <1>4, <1>7, <2>1, <2>2, <2>3, <2>5, <2>6, <2>7, <2>8, <2>9, ServiceKept
  <2>11. Status(t0)' = "succeeded"
    <3>1. ~(t0 > begun')
      BY <1>1, <1>7, <2>3, CountersType DEF TypeInv, Task
    <3> QED
      BY <2>3, <2>5, <3>1 DEF Status, Reported
  <2>12. Cardinality(Executions(t0)) > 0
    <3>1. IsFiniteSet(Executions(t0))
      BY DEF ServiceInv, CountInv
    <3>2. Executions(t0) # {}
      <4>1. PICK m \in Node : \E j \in DOMAIN executed[m] : executed[m][j] = Whole(t0)
        BY <2>4 DEF Ran
      <4>2. PICK j \in DOMAIN executed[m] : executed[m][j] = Whole(t0)
        BY <4>1
      <4>3. j \in 1..MaxExec
        <5>1. executed[m] \in Seq(Buffer) /\ Len(executed[m]) <= MaxExec
          BY DEF ServiceInv, HistoryInv, TypeInv, TypeOK, ReceiverTypeOK
        <5> QED
          BY <4>2, <5>1
      <4>4. PICK w : w = Whole(t0)
        OBVIOUS
      <4>5. <<m, j>> \in {x \in Node \X (1..MaxExec) :
                x[2] \in DOMAIN executed[x[1]] /\ executed[x[1]][x[2]] = w}
        BY <4>1, <4>2, <4>3, <4>4
      <4> QED
        BY <4>4, <4>5 DEF Executions
    <3> QED
      BY <3>1, <3>2, FS_EmptySet, FS_CardinalityType
  <2>13. ASSUME NEW t \in Task \ {t0} PROVE Status(t)' = Status(t)
    <3>1. Running(t)' <=> Running(t)
      BY <2>2, <2>3, <1>4 DEF Running, OwnStep
    <3> QED
      BY <1>1, <2>5, <3>1, StatusStays
  <2>14. \A t \in Task : Sends(t)' = Sends(t)
    BY <1>1 DEF Sends
  <2> QED
    BY <1>4, <1>7, <2>3, <2>10, <2>11, <2>12, <2>13, <2>14, ExecutionsStay, ShowsEnd
<1>9. CASE NextFragment(n, p)
  <2>1. PICK q : q = DataTo(n, p.src, p.uuid, p.index, p.total)
    OBVIOUS
  <2>2. /\ net' = net \union {q} /\ resend_packet' = [resend_packet EXCEPT ![n] = {q}]
        /\ send_index' = [send_index EXCEPT ![n] = @ + 1]
        /\ UNCHANGED <<is_tasking, reported>> /\ p.index < p.total
    BY <1>9, <2>1 DEF NextFragment
  <2>3. q.type = "data" /\ Owner(q) = n /\ TaskOf(q) = send_data[n]
    BY <1>6, <1>7, <2>1, <2>2 DEF DataTo, FragmentOf, Owner, TaskOf
  <2>4. Size[send_data[n]] \in 1..MaxFrags
    BY <1>7, SizeAssumption DEF Task
  <2>5. Executions(send_data[n]) = {}
    <3>1. Before(n)
      BY <1>6, <2>2, <2>4 DEF Before
    <3> QED
      BY <1>6, <3>1 DEF ServiceInv, CountInv
  <2>6. Cardinality(Executions(send_data[n])) <= resent[send_data[n]]
    BY <1>7, <2>5, CountsAre, FS_EmptySet
  <2>7. OwnStep(n)
    BY <1>4, <2>2, <2>3 DEF OwnStep
  <2> HIDE DEF TypeInv, TypeOK
  <2> QED
    BY <1>1, <1>4, <1>7, <2>2, <2>3, <2>5, <2>6, <2>7, NothingShown
<1> QED
  BY <1>3, <1>5, <1>8, <1>9

\* What is executed once more, and what that does to the counts.
LEMMA RunCounts ==
    ASSUME TypeInv, ServiceInv, NEW m \in Node, NEW t0 \in Task,
           Len(executed[m]) < MaxExec,
           executed' = [executed EXCEPT ![m] = Append(@, Whole(t0))]
    PROVE  /\ IsFiniteSet(Executions(t0)')
           /\ Cardinality(Executions(t0)') = Cardinality(Executions(t0)) + 1
           /\ \A t \in Task \ {t0} : Executions(t)' = Executions(t)
<1>0. PICK w, l : w = Whole(t0) /\ l = Len(executed[m]) + 1
  OBVIOUS
<1>1. executed \in [Node -> Seq(Buffer)]
  BY DEF TypeInv, TypeOK, ReceiverTypeOK
<1>2. executed[m] \in Seq(Buffer) /\ l \in 1..MaxExec /\ l \notin DOMAIN executed[m]
  BY <1>0, <1>1
<1>3. /\ DOMAIN executed'[m] = DOMAIN executed[m] \union {l}
      /\ \A j \in DOMAIN executed[m] : executed'[m][j] = executed[m][j]
      /\ executed'[m][l] = w
      /\ \A k \in Node \ {m} : executed'[k] = executed[k]
  <2>1. executed'[m] = Append(executed[m], w) /\ \A k \in Node \ {m} : executed'[k] = executed[k]
    BY <1>0, <1>1
  <2> QED
    BY <1>0, <1>2, <2>1, AppendStays
<1>4. \A t \in Task : Whole(t)' = Whole(t)
  BY DEF Whole
<1>5. \A t \in Task \ {t0} : Whole(t) # w
  BY <1>0, ScriptsDiffer
<1>6. ASSUME NEW t \in Task \ {t0} PROVE Executions(t)' = Executions(t)
  <2>1. ASSUME NEW x \in Node \X (1..MaxExec)
        PROVE  (x[2] \in DOMAIN executed'[x[1]] /\ executed'[x[1]][x[2]] = Whole(t))
                <=> (x[2] \in DOMAIN executed[x[1]] /\ executed[x[1]][x[2]] = Whole(t))
    BY <1>3, <1>5
  <2> QED
    BY <1>4, <2>1 DEF Executions
<1>7. Executions(t0)' = Executions(t0) \union {<<m, l>>}
  <2>1. ASSUME NEW x \in Node \X (1..MaxExec)
        PROVE  (x[2] \in DOMAIN executed'[x[1]] /\ executed'[x[1]][x[2]] = w)
                <=> \/ x[2] \in DOMAIN executed[x[1]] /\ executed[x[1]][x[2]] = w
                    \/ x = <<m, l>>
    <3>1. CASE x[1] = m /\ x[2] = l
      BY <1>3, <3>1
    <3>2. CASE ~(x[1] = m /\ x[2] = l)
      <4>1. x # <<m, l>>
        BY <3>2
      <4>2. x[1] = m => x[2] # l
        BY <3>2
      <4> QED
        BY <1>3, <4>1, <4>2
    <3> QED
      BY <3>1, <3>2
  <2>2. <<m, l>> \in Node \X (1..MaxExec)
    BY <1>2
  <2>3. Executions(t0) = {x \in Node \X (1..MaxExec) :
                x[2] \in DOMAIN executed[x[1]] /\ executed[x[1]][x[2]] = w}
    BY <1>0 DEF Executions
  <2>4. Executions(t0)' = {x \in Node \X (1..MaxExec) :
                x[2] \in DOMAIN executed'[x[1]] /\ executed'[x[1]][x[2]] = w}
    BY <1>0, <1>4 DEF Executions
  <2> QED
    BY <2>1, <2>2, <2>3, <2>4
<1>8. <<m, l>> \notin Executions(t0) /\ IsFiniteSet(Executions(t0))
  BY <1>2 DEF Executions, ServiceInv, CountInv
<1> QED
  BY <1>6, <1>7, <1>8, FS_AddElement

\* The last fragment of a script arrives: one execution more, and one last
\* fragment fewer on its way.
LEMMA RunShows ==
    ASSUME TypeInv, TypeInv', WholeInv, ServiceInv, NEW n \in Node, OwnStep(n),
           NEW m \in Node, NEW p \in InNet(n), NEW a, p.type = "data", Last(p),
           a.type = "ack", net' = (net \ {p}) \union {a},
           UNCHANGED <<senderVars, begun, resent, reported>>,
           Len(executed[m]) < MaxExec,
           executed' = [executed EXCEPT ![m] = Append(@, Whole(TaskOf(p)))]
    PROVE  ServiceInv' /\ [Service!Next]_(Service!vars)
<1>0. PICK t0 \in Task : t0 = TaskOf(p) /\ t0 \in Uses(n) /\ t0 <= begun
  BY InNetUses, UsesBegun
<1>1. /\ IsFiniteSet(Executions(t0)')
      /\ Cardinality(Executions(t0)') = Cardinality(Executions(t0)) + 1
      /\ \A t \in Task \ {t0} : Executions(t)' = Executions(t)
  BY <1>0, RunCounts
<1>2. \A t \in Task : IsFiniteSet(Executions(t)) /\ Cardinality(Executions(t)) \in Nat
  BY FS_CardinalityType DEF ServiceInv, CountInv
<1>3. Cardinality(Executions(t0)) <= resent[t0]
  BY <1>0 DEF ServiceInv, CountInv, InNet
<1>4. UNCHANGED <<is_tasking, send_data, send_index, pc>>
  BY DEF senderVars
<1>5. InNet(n) = {p} /\ InNet(n)' \subseteq {a}
  <2>1. InNet(n) = {p}
    BY DEF WholeInv, NodeInv, StopAndWait
  <2> QED
    BY <2>1 DEF InNet
<1>6. ApartInv'
  <2>1. \A k \in Node : Uses(k)' \subseteq Uses(k)
    <3>1. ASSUME NEW k \in Node, NEW r \in InNet(k)', r.type = "data"
          PROVE  r \in InNet(k)
      BY <3>1 DEF InNet
    <3> QED
      BY <1>4, <3>1 DEF Uses, TaskOf
  <2>2. \A t \in Task : /\ Running(t)' <=> Running(t)
                        /\ Reported(t)' <=> Reported(t)
    BY <1>4 DEF Running, Reported
  <2> QED
    BY <2>1, <2>2 DEF ServiceInv, ApartInv
<1>7. HistoryInv'
  <2>1. \A t \in Task : Reported(t)' <=> Reported(t)
    BY DEF Reported
  <2>2. \A k \in Node : Len(executed'[k]) <= MaxExec
    <3>1. executed \in [Node -> Seq(Buffer)]
      BY DEF TypeInv, TypeOK, ReceiverTypeOK
    <3>2. PICK w : w = Whole(TaskOf(p))
      OBVIOUS
    <3>3. executed'[m] = Append(executed[m], w) /\ executed[m] \in Seq(Buffer)
      BY <3>1, <3>2
    <3>4. Len(executed'[m]) <= MaxExec
      BY <3>3
    <3>5. \A k \in Node \ {m} : executed'[k] = executed[k]
      BY <3>1
    <3> QED
      BY <3>4, <3>5 DEF ServiceInv, HistoryInv
  <2> QED
    BY <2>1, <2>2 DEF ServiceInv, HistoryInv
<1>8. CountInv'
  <2>1. ASSUME NEW t \in Task
        PROVE  /\ IsFiniteSet(Executions(t)')
               /\ Cardinality(Executions(t)') <= 1 + resent'[t]
               /\ t > begun' => Executions(t)' = {}
    <3>1. CASE t = t0
      <4>1. ~(t0 > begun') /\ resent[t0] \in Nat
        BY <1>0, CountersType, CountsAre DEF TypeInv, Task
      <4>2. Cardinality(Executions(t0)') <= 1 + resent'[t0]
        BY <1>1, <1>2, <1>3, <4>1
      <4> QED
        BY <1>1, <3>1, <4>1, <4>2 DEF Executions
    <3>2. CASE t # t0
      BY <1>1, <3>2 DEF ServiceInv, CountInv
    <3> QED
      BY <3>1, <3>2
  <2>2. ASSUME NEW r \in net', Last(r)
        PROVE  Cardinality(Executions(TaskOf(r))') <= resent'[TaskOf(r)]
    <3>1. r \in net /\ r # p /\ r.type = "data"
      BY <2>2 DEF Last
    <3>2. PICK k \in Node : r \in InNet(k) /\ k # n
      <4>1. Owner(r) \in Node
        BY <3>1 DEF TypeInv, TypeOK, NetTypeOK, DataPacket, AckPacket, Owner
      <4> QED
        BY <1>5, <3>1, <4>1 DEF InNet
    <3>3. TaskOf(r) \in Task /\ TaskOf(r) # t0
      BY <1>0, <3>1, <3>2, InNetUses DEF ServiceInv, ApartInv
    <3> QED
      BY <1>1, <2>2, <3>1, <3>3 DEF ServiceInv, CountInv
  <2>3. ASSUME NEW k \in Node, is_tasking'[k], Before(k)'
        PROVE  Executions(send_data[k])' = {}
    <3>1. is_tasking[k] /\ Before(k) /\ send_data[k] \in Task
      BY <1>4, <2>3, RunningUses DEF Before
    <3>2. send_data[k] # t0
      <4>1. CASE k # n
        BY <1>0, <3>1, <4>1, RunningUses DEF ServiceInv, ApartInv
      <4>2. CASE k = n
        <5>1. Live(n) /\ pc[n] = "idle"
          BY <1>5, <3>1, <4>2 DEF WholeInv, NodeInv, StopAndWait, Handling, Live
        <5>2. PICK u : p \in {Sent(n, u), AckFor(target_ip[n], Sent(n, u))}
          BY <5>1 DEF WholeInv, NodeInv, KeepsSent, Around
        <5>3. p = Sent(n, u)
          BY <5>2, AckFields
        <5>4. p.index = send_index[n] /\ p.total = Size[send_data[n]]
          BY <5>3 DEF Sent, DataTo
        <5>5. send_index[n] \in 0..(Size[send_data[n]] - 1)
          BY <5>1 DEF WholeInv, NodeInv, KeepsSent
        <5>6. Size[send_data[n]] \in 1..MaxFrags
          BY <3>1, <4>2, SizeAssumption DEF Task
        <5>7. ~Before(n)
          BY <5>1, <5>4, <5>5, <5>6 DEF Last, Before
        <5> QED
          BY <3>1, <4>2, <5>7
      <4> QED
        BY <4>1, <4>2
    <3>3. Executions(send_data[k]) = {}
      BY <3>1 DEF ServiceInv, CountInv
    <3>4. PICK t \in Task : t = send_data[k]
      BY <3>1
    <3>5. Executions(t)' = {}
      BY <1>1, <3>2, <3>3, <3>4
    <3> QED
      BY <1>4, <3>4, <3>5 DEF Executions, Whole
  <2> QED
    BY <2>1, <2>2, <2>3 DEF CountInv, Last, TaskOf
<1>9. ServiceInv'
  BY <1>6, <1>7, <1>8 DEF ServiceInv
<1>10. \A t \in Task : Status(t)' = Status(t) /\ Sends(t)' = Sends(t)
  <2>1. \A t \in Task : Status(t)' = Status(t)
    BY <1>4, StatusStays DEF Running, Reported
  <2> QED
    BY <2>1 DEF Sends
<1>11. Cardinality(Executions(t0)) < Sends(t0)
  <2>1. ~(t0 > begun) /\ resent[t0] \in Nat
    BY <1>0, CountersType, CountsAre DEF TypeInv, Task
  <2> QED
    BY <1>2, <1>3, <2>1 DEF Sends
<1> QED
  BY <1>1, <1>9, <1>10, <1>11, ShowsRun

LEMMA ReceiveDataShows ==
    ASSUME PatientNetwork, TypeInv, TypeInv', WholeInv, ServiceInv, NEW m \in Node,
           ReceiveData(m)
    PROVE  ServiceInv' /\ [Service!Next]_(Service!vars)
<1>1. PICK p \in net : /\ p.type = "data" /\ p.dst = m
                       /\ IgnoreData(m, p) \/ StoreData(m, p)
  BY DEF ReceiveData
<1>2. PICK n \in Node : n = p.src /\ Owner(p) = n
  BY <1>1 DEF Owner, TypeInv, TypeOK, NetTypeOK, DataPacket, AckPacket
<1>3. p \in DataPacket /\ p \in InNet(n)
  BY <1>1, <1>2 DEF InNet, TypeInv, TypeOK, NetTypeOK, AckPacket
<1>4. /\ UNCHANGED <<is_tasking, send_index, resend_packet, send_data, target_ip, pc, held,
                     reported, begun, resent>>
      /\ UNCHANGED senderVars
  BY DEF ReceiveData, senderVars
<1>5. is_tasking[n] /\ Before(n)' => Executions(send_data[n]) = {}
  BY <1>4 DEF Before, ServiceInv, CountInv
<1>6. CASE IgnoreData(m, p)
  <2>1. net' = net \ {p} /\ UNCHANGED <<recv_data_map, executed>>
    BY <1>6, ConsumeOnce DEF IgnoreData, receiverVars
  <2>2. OwnStep(n)
    BY <1>2, <1>4, <2>1 DEF OwnStep
  <2> QED
    BY <1>4, <1>5, <2>1, <2>2, NothingShown
<1>7. CASE StoreData(m, p)
  <2>1. PICK a : a = AckFor(m, p)
    OBVIOUS
  <2>2. net' = (net \ {p}) \union {a}
    BY <1>7, <2>1, ConsumeOnce DEF StoreData
  <2>3. a.type = "ack" /\ Owner(a) = n
    BY <1>2, <2>1, AckFields
  <2>4. /\ p.index = p.total - 1 =>
                executed' = [executed EXCEPT ![m] = Append(@, Whole(TaskOf(p)))]
        /\ p.index # p.total - 1 => executed' = executed
        /\ recv_data_map' = [recv_data_map EXCEPT ![m][p.uuid] = Stored(m, p)]
    BY <1>1, <1>7, StoreRuns
  <2>5. OwnStep(n)
    <3>1. p \in Tracks(n) /\ p.uuid \in Uuid
      BY <1>3 DEF Tracks, Around, DataPacket
    <3>2. \A k \in Node : \A u \in Uuid : u # p.uuid =>
              recv_data_map'[k][u] = recv_data_map[k][u]
      BY <2>4 DEF TypeInv, TypeOK, ReceiverTypeOK
    <3> QED
      BY <1>2, <1>4, <2>2, <2>3, <3>1, <3>2 DEF OwnStep
  <2>6. CASE p.index # p.total - 1
    BY <1>4, <1>5, <2>2, <2>3, <2>4, <2>5, <2>6, NothingShown DEF Last
  <2>7. CASE p.index = p.total - 1
    <3>1. Len(executed[m]) < MaxExec
      BY <1>7, <2>7 DEF StoreData
    <3> QED
      BY <1>1, <1>3, <1>4, <2>2, <2>3, <2>4, <2>5, <2>7, <3>1, RunShows DEF Last
  <2> QED
    BY <2>6, <2>7
<1> QED
  BY <1>1, <1>6, <1>7

-----------------------------------------------------------------------------
LEMMA ServiceInit == Init => ServiceInv /\ Service!Init
<1> SUFFICES ASSUME Init PROVE ServiceInv /\ Service!Init
  OBVIOUS
<1>1. \A t \in Task : t > begun /\ ~Running(t) /\ ~Reported(t) /\ resent[t] = 0
  BY DEF Init, Task, Running, Reported
<1>2. \A t \in Task : Executions(t) = {}
  BY DEF Init, Executions
<1>3. \A n \in Node : Uses(n) = {}
  BY DEF Init, Uses, InNet
<1>4. ApartInv
  BY <1>1, <1>3 DEF ApartInv
<1>5. HistoryInv
  BY <1>1 DEF Init, HistoryInv
<1>6. CountInv
  <2>1. \A t \in Task : /\ IsFiniteSet(Executions(t))
                        /\ Cardinality(Executions(t)) <= 1 + resent[t]
    BY <1>1, <1>2, FS_EmptySet
  <2>2. net = {} /\ \A n \in Node : ~is_tasking[n]
    BY DEF Init
  <2> QED
    BY <1>2, <2>1, <2>2 DEF CountInv
<1>7. Service!Init
  BY <1>1, <1>2, FS_EmptySet DEF Service!Init, Status
<1> QED
  BY <1>4, <1>5, <1>6, <1>7 DEF ServiceInv

LEMMA LoseShows ==
    ASSUME TypeInv, TypeInv', WholeInv, ServiceInv, Lose
    PROVE  ServiceInv' /\ [Service!Next]_(Service!vars)
<1>1. PICK p \in net : net' = net \ {p}
  BY DEF Lose
<1>2. PICK n \in Node : Owner(p) = n
  BY DEF TypeInv, TypeOK, NetTypeOK, DataPacket, AckPacket, Owner
<1>3. UNCHANGED <<is_tasking, send_index, resend_packet, send_data, target_ip, pc, held,
                  recv_data_map, executed, reported, begun, resent>>
  BY DEF Lose, senderVars, receiverVars, historyVars
<1>4. OwnStep(n)
  BY <1>1, <1>2, <1>3 DEF OwnStep
<1>5. is_tasking[n] /\ Before(n)' => Executions(send_data[n]) = {}
  BY <1>3 DEF Before, ServiceInv, CountInv
<1> QED
  BY <1>1, <1>3, <1>4, <1>5, NothingShown

LEMMA StutterShows ==
    ASSUME ServiceInv, UNCHANGED vars
    PROVE  ServiceInv' /\ [Service!Next]_(Service!vars)
<1>1. UNCHANGED <<is_tasking, send_index, send_data, pc, executed, reported, net, begun,
                  resent>>
  BY DEF vars, senderVars, receiverVars, historyVars
<1>2. \A t \in Task : Executions(t)' = Executions(t)
  BY <1>1, ExecutionsStay
<1>3. \A t \in Task : /\ Running(t)' <=> Running(t)
                      /\ Reported(t)' <=> Reported(t)
  BY <1>1 DEF Running, Reported
<1>4. \A n \in Node : Uses(n)' = Uses(n)
  BY <1>1 DEF Uses, InNet, TaskOf
<1>5. ApartInv'
  BY <1>3, <1>4 DEF ServiceInv, ApartInv
<1>6. HistoryInv'
  BY <1>1, <1>3 DEF ServiceInv, HistoryInv
<1>7. CountInv'
  BY <1>1 DEF ServiceInv, CountInv, Executions, Whole, Last, TaskOf, Before
<1>8. \A t \in Task : Status(t)' = Status(t) /\ Sends(t)' = Sends(t)
  <2>1. \A t \in Task : Status(t)' = Status(t)
    BY <1>1, <1>3, StatusStays
  <2> QED
    BY <1>1, <2>1 DEF Sends
<1> QED
  BY <1>2, <1>5, <1>6, <1>7, <1>8, ShowsNothing DEF ServiceInv

\* Every step of the protocol is one of the service, or none of its business.
LEMMA ServiceStep ==
    PatientNetwork /\ TypeInv /\ TypeInv' /\ WholeInv /\ ServiceInv /\ [Next]_vars
        => ServiceInv' /\ [Service!Next]_(Service!vars)
<1> SUFFICES ASSUME PatientNetwork, TypeInv, TypeInv', WholeInv, ServiceInv, [Next]_vars
             PROVE  ServiceInv' /\ [Service!Next]_(Service!vars)
  OBVIOUS
<1>1. CASE UNCHANGED vars
  BY <1>1, StutterShows
<1>2. CASE Lose
  BY <1>2, LoseShows
<1>3. ASSUME NEW n \in Node, Restart(n)
      PROVE  ServiceInv' /\ [Service!Next]_(Service!vars)
  BY <1>3, BootShows DEF Restart
<1>4. ASSUME NEW n \in Node, HeapCrash(n) \/ ProbeEnds(n) PROVE FALSE
  BY <1>4 DEF HeapCrash, ProbeEnds, WholeInv, NoHeapFault, NodeInv, Handling
<1>5. ASSUME NEW n \in Node, User(n) \/ Process(n)
      PROVE  ServiceInv' /\ [Service!Next]_(Service!vars)
  BY <1>4, <1>5, UserShows, BeginSendShows, TimeoutShows, ReceiveAckShows,
     HandleAckShows, ReceiveDataShows DEF Process
<1> QED
  BY <1>1, <1>2, <1>3, <1>4, <1>5 DEF Next

\* On a patient network the protocol implements TransferService: a task is
\* reported only after its script ran, and the script runs at most once for
\* each time the task was transmitted.
THEOREM TransferServes == PatientNetwork => (Spec => ImplementsService)
<1> SUFFICES ASSUME PatientNetwork PROVE Spec => ImplementsService
  OBVIOUS
<1>1. Spec => [](TypeInv /\ WholeInv)
  BY WholeAlways
<1>2. TypeInv /\ TypeInv' /\ WholeInv /\ ServiceInv /\ [Next]_vars
        => ServiceInv' /\ [Service!Next]_(Service!vars)
  BY ServiceStep
<1>3. Init => ServiceInv /\ Service!Init
  BY ServiceInit
<1> QED
  BY <1>1, <1>2, <1>3, PTL DEF Spec, ImplementsService, Service!Spec

=============================================================================
