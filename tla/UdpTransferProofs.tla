------------------------- MODULE UdpTransferProofs -------------------------
(***************************************************************************)
(* Theorems about UdpTransfer, for every value of its constants: type      *)
(* correctness, and that the packet SIGALRM retransmits is always there,   *)
(* is the awaited one, and carries its fragment to the right place.        *)
(***************************************************************************)
EXTENDS UdpTransfer, TLAPS

USE BoundAssumption

\* A task that begins has an address and a script: BeginSend uses both.
BegunWell ==
    \A n \in Node :
        /\ pc[n] = "begin" => target_ip[n] \in Node /\ send_data[n] \in Task
        /\ is_tasking[n] => send_data[n] \in Task

TypeInv == TypeOK /\ BegunWell

-----------------------------------------------------------------------------
\* What DataTo builds is a data packet; AckFor's answer to one it stored is
\* an acknowledgement.
LEMMA DataToType ==
    ASSUME TypeOK, NEW n \in Node, NEW m \in Node, NEW u \in Uuid,
           NEW i \in Index, NEW k \in 1..MaxFrags
    PROVE  DataTo(n, m, u, i, k) \in DataPacket
<1>1. FragmentOf(n, i) \in Fragment
  BY DEF TypeOK, TaskTypeOK, FragmentOf, Fragment, Task, Index
<1> QED
  BY <1>1 DEF DataTo, DataPacket

LEMMA AckForType ==
    ASSUME NEW n \in Node, NEW p \in DataPacket, p.index < p.total
    PROVE  AckFor(n, p) \in AckPacket
BY DEF DataPacket, AckPacket, AckFor, Index

LEMMA NoBufferType == NoBuffer \in Buffer
<1>1. NoBuffer \in [0..(0 - 1) -> Fragment]
  BY DEF NoBuffer
<1> QED
  BY <1>1 DEF Buffer

\* The buffer a packet goes to, the buffer with it stored, and what is merged
\* from a buffer are buffers.
LEMMA BufferForType ==
    ASSUME TypeOK, NEW n \in Node, NEW p \in DataPacket
    PROVE  BufferFor(n, p) \in Buffer
<1>1. CASE p.index = 0
  <2>1. p.total \in 0..MaxFrags
    BY DEF DataPacket
  <2>2. BufferFor(n, p) \in [0..(p.total - 1) -> Fragment]
    BY <1>1 DEF BufferFor, Fragment
  <2> QED
    BY <2>1, <2>2 DEF Buffer
<1>2. CASE p.index # 0
  <2>1. p.uuid \in Uuid
    BY DEF DataPacket
  <2>2. recv_data_map[n] \in [Uuid -> Buffer]
    BY DEF TypeOK, ReceiverTypeOK
  <2> QED
    BY <1>2, <2>1, <2>2 DEF BufferFor
<1> QED
  BY <1>1, <1>2

LEMMA StoredType ==
    ASSUME TypeOK, NEW n \in Node, NEW p \in DataPacket
    PROVE  Stored(n, p) \in Buffer
<1>1. PICK k \in 0..MaxFrags : BufferFor(n, p) \in [0..(k - 1) -> Fragment]
  BY BufferForType DEF Buffer
<1>2. Stored(n, p) \in [0..(k - 1) -> Fragment]
  BY <1>1 DEF Stored, DataPacket
<1> QED
  BY <1>2 DEF Buffer

LEMMA MergedType ==
    ASSUME NEW b \in Buffer, NEW k \in 1..MaxFrags
    PROVE  Merged(b, k) \in Buffer
<1>1. PICK j \in 0..MaxFrags : b \in [0..(j - 1) -> Fragment]
  BY DEF Buffer
<1>2. Merged(b, k) \in [0..(k - 1) -> Fragment]
  BY <1>1 DEF Merged, Fragment
<1> QED
  BY <1>2 DEF Buffer

\* Reading a datagram leaves datagrams in flight.
LEMMA ConsumeType ==
    ASSUME NetTypeOK, NEW p, NEW replies \in SUBSET (DataPacket \union AckPacket),
           Consume(p, replies), clock' = clock
    PROVE  NetTypeOK'
BY DEF Consume, NetTypeOK

\* A process that starts again has well-typed state.
LEMMA BootType ==
    ASSUME TypeInv, NEW n \in Node, Boot(n)
    PROVE  TaskTypeOK' /\ TimerTypeOK' /\ ReceiverTypeOK' /\ BegunWell'
<1>1. ReceiverTypeOK'
  BY NoBufferType DEF TypeInv, TypeOK, ReceiverTypeOK, Boot
<1>2. TaskTypeOK'
  BY DEF TypeInv, TypeOK, TaskTypeOK, Boot, BootSender, Index, NoScript
<1>3. TimerTypeOK'
  BY DEF TypeInv, TypeOK, TimerTypeOK, Boot, BootSender
<1>4. BegunWell'
  BY DEF TypeInv, TypeOK, TaskTypeOK, TimerTypeOK, BegunWell, Boot, BootSender
<1> QED
  BY <1>1, <1>2, <1>3, <1>4

LEMMA TypeInit == Init => TypeInv
<1> SUFFICES ASSUME Init PROVE TypeInv
  OBVIOUS
<1>1. TaskTypeOK
  BY DEF Init, TaskTypeOK, Index, NoScript
<1>2. TimerTypeOK
  BY DEF Init, TimerTypeOK
<1>3. ReceiverTypeOK
  BY NoBufferType DEF Init, ReceiverTypeOK
<1>4. NetTypeOK
  BY DEF Init, NetTypeOK, Uuid
<1>5. HistoryTypeOK
  BY DEF Init, HistoryTypeOK
<1>6. BegunWell
  BY DEF Init, BegunWell
<1> QED
  BY <1>1, <1>2, <1>3, <1>4, <1>5, <1>6 DEF TypeInv, TypeOK

-----------------------------------------------------------------------------
LEMMA UserKeepsType ==
    ASSUME TypeInv, NEW n \in Node, User(n)
    PROVE  TypeInv'
<1> USE DEF TypeInv, TypeOK
<1>1. ASSUME NEW m \in Targets(n), BeginTask(n, m) PROVE TypeInv'
  <2>0. m \in Node /\ begun + 1 \in 1..MaxTasks
    <3>1. m \in Node
      BY <1>1 DEF Targets
    <3>2. begun \in 0..MaxTasks /\ begun < MaxTasks
      BY <1>1 DEF BeginTask, HistoryTypeOK
    <3> QED
      BY <3>1, <3>2
  <2>1. TaskTypeOK'
    BY <1>1, <2>0 DEF BeginTask, TaskTypeOK
  <2>2. TimerTypeOK' /\ ReceiverTypeOK' /\ NetTypeOK'
    BY <1>1 DEF BeginTask, TimerTypeOK, ReceiverTypeOK, NetTypeOK, receiverVars
  <2>3. HistoryTypeOK'
    <3>1. begun' \in 0..MaxTasks
      BY <1>1, <2>0 DEF BeginTask
    <3>2. UNCHANGED <<reported, fault, resent, restarts>>
      BY <1>1 DEF BeginTask
    <3> QED
      BY <3>1, <3>2 DEF HistoryTypeOK
  <2>4. BegunWell'
    BY <1>1, <2>0 DEF BeginTask, TaskTypeOK, TimerTypeOK, BegunWell, Task
  <2> QED
    BY <2>1, <2>2, <2>3, <2>4
<1>2. ASSUME NEW m \in Targets(n) \union {NoAddr}, RefuseTask(n, m) PROVE TypeInv'
  <2>1. TaskTypeOK'
    BY <1>2 DEF RefuseTask, TaskTypeOK, Targets, NoScript
  <2>2. TimerTypeOK' /\ ReceiverTypeOK' /\ NetTypeOK' /\ HistoryTypeOK'
    BY <1>2 DEF RefuseTask, TimerTypeOK, ReceiverTypeOK, NetTypeOK, HistoryTypeOK,
                receiverVars, historyVars
  <2>3. BegunWell'
    BY <1>2 DEF RefuseTask, TaskTypeOK, BegunWell
  <2> QED
    BY <2>1, <2>2, <2>3
<1>3. ASSUME NEW m \in Node \union {NoAddr}, DetectNet(n, m) PROVE TypeInv'
  <2>1. TaskTypeOK' /\ BegunWell'
    BY <1>3 DEF DetectNet, TaskTypeOK, BegunWell
  <2>2. TimerTypeOK' /\ ReceiverTypeOK' /\ NetTypeOK' /\ HistoryTypeOK'
    BY <1>3 DEF DetectNet, TimerTypeOK, ReceiverTypeOK, NetTypeOK, HistoryTypeOK,
                receiverVars, historyVars
  <2> QED
    BY <2>1, <2>2
<1>4. ASSUME StopTask(n) PROVE TypeInv'
  <2>1. TaskTypeOK' /\ BegunWell'
    BY <1>4 DEF StopTask, TaskTypeOK, BegunWell
  <2>2. TimerTypeOK' /\ ReceiverTypeOK' /\ NetTypeOK' /\ HistoryTypeOK'
    BY <1>4 DEF StopTask, TimerTypeOK, ReceiverTypeOK, NetTypeOK, HistoryTypeOK,
                receiverVars, historyVars
  <2> QED
    BY <2>1, <2>2
<1> QED
  BY <1>1, <1>2, <1>3, <1>4 DEF User

LEMMA ProbeEndsKeepsType ==
    ASSUME TypeInv, NEW n \in Node, ProbeEnds(n)
    PROVE  TypeInv'
<1> USE DEF TypeInv, TypeOK
<1>1. TaskTypeOK' /\ TimerTypeOK' /\ BegunWell'
  BY DEF ProbeEnds, TaskTypeOK, TimerTypeOK, BegunWell
<1>2. ReceiverTypeOK' /\ NetTypeOK' /\ HistoryTypeOK'
  BY DEF ProbeEnds, ReceiverTypeOK, NetTypeOK, HistoryTypeOK, receiverVars, historyVars
<1> QED
  BY <1>1, <1>2

LEMMA BeginSendKeepsType ==
    ASSUME TypeInv, NEW n \in Node, BeginSend(n)
    PROVE  TypeInv'
<1> USE DEF TypeInv, TypeOK
<1> DEFINE p == DataTo(n, target_ip[n], clock, 0, Size[send_data[n]])
<1>1. p \in DataPacket
  <2>1. target_ip[n] \in Node /\ Size[send_data[n]] \in 1..MaxFrags
    BY SizeAssumption DEF BeginSend, BegunWell, Task
  <2>2. clock \in Uuid /\ 0 \in Index
    BY DEF NetTypeOK, Index
  <2> QED
    BY <2>1, <2>2, DataToType
<1>2. net' = net \union {p} /\ resend_packet' = [resend_packet EXCEPT ![n] = {p}]
  BY DEF BeginSend
<1> HIDE DEF p
<1>3. TaskTypeOK' /\ BegunWell'
  BY DEF BeginSend, TaskTypeOK, TimerTypeOK, BegunWell, Index
<1>4. TimerTypeOK'
  <2>1. resend_packet' \in [Node -> SUBSET DataPacket]
    BY <1>1, <1>2 DEF TimerTypeOK
  <2> QED
    BY <2>1 DEF BeginSend, TimerTypeOK
<1>5. NetTypeOK'
  <2>1. clock' \in Uuid
    BY DEF BeginSend, NetTypeOK, Uuid
  <2> QED
    BY <1>1, <1>2, <2>1 DEF NetTypeOK
<1>6. ReceiverTypeOK' /\ HistoryTypeOK'
  BY DEF BeginSend, ReceiverTypeOK, HistoryTypeOK, receiverVars, historyVars
<1> QED
  BY <1>3, <1>4, <1>5, <1>6

LEMMA TimeoutKeepsType ==
    ASSUME TypeInv, NEW n \in Node, Timeout(n)
    PROVE  TypeInv'
<1> USE DEF TypeInv, TypeOK
<1>1. TimerTypeOK' /\ ReceiverTypeOK'
  BY DEF Timeout, TimerTypeOK, ReceiverTypeOK, receiverVars
<1>2. CASE LateAlarm(n) \/ GiveUp(n)
  <2>1. TaskTypeOK' /\ BegunWell'
    <3>1. CASE LateAlarm(n)
      BY <3>1 DEF Timeout, LateAlarm, TaskTypeOK, BegunWell
    <3>2. CASE GiveUp(n)
      BY <3>2 DEF Timeout, GiveUp, TaskTypeOK, BegunWell
    <3> QED
      BY <1>2, <3>1, <3>2
  <2>2. NetTypeOK' /\ HistoryTypeOK'
    BY <1>2 DEF Timeout, LateAlarm, GiveUp, NetTypeOK, HistoryTypeOK
  <2> QED
    BY <1>1, <2>1, <2>2
<1>3. CASE Retransmit(n)
  <2>1. TaskTypeOK' /\ BegunWell'
    BY <1>3 DEF Timeout, Retransmit, TaskTypeOK, BegunWell
  <2>2. \A p \in resend_packet[n] : target_ip[n] \in Node =>
           [p EXCEPT !.dst = target_ip[n]] \in DataPacket
    <3> SUFFICES ASSUME NEW p \in resend_packet[n], target_ip[n] \in Node
                 PROVE  [p EXCEPT !.dst = target_ip[n]] \in DataPacket
      OBVIOUS
    <3>1. p \in DataPacket
      BY DEF TimerTypeOK
    <3> QED
      BY <3>1 DEF DataPacket
  <2>3. NetTypeOK'
    BY <1>3, <2>2 DEF Timeout, Retransmit, NetTypeOK
  <2>4. HistoryTypeOK'
    <3>1. UNCHANGED <<reported, fault, begun, restarts>>
      BY DEF Timeout
    <3>2. resent \in [Task -> Nat] /\ send_data[n] \in Task
      BY <1>3 DEF HistoryTypeOK, Retransmit, BegunWell
    <3>3. resent' = [resent EXCEPT ![send_data[n]] = @ + 1]
      BY <1>3 DEF Retransmit
    <3>4. resent' \in [Task -> Nat]
      BY <3>2, <3>3
    <3> QED
      BY <3>1, <3>4 DEF HistoryTypeOK
  <2> QED
    BY <1>1, <2>1, <2>3, <2>4
<1> QED
  BY <1>2, <1>3 DEF Timeout

LEMMA ReceiveAckKeepsType ==
    ASSUME TypeInv, NEW n \in Node, ReceiveAck(n)
    PROVE  TypeInv'
<1> USE DEF TypeInv, TypeOK
<1>1. PICK p \in net : /\ p.type = "ack" /\ Consume(p, {})
                       /\ DropAck(n, p) \/ TakeAck(n, p)
  BY DEF ReceiveAck
<1>2. NetTypeOK'
  BY <1>1, ConsumeType DEF ReceiveAck
<1>3. p \in AckPacket
  BY <1>1 DEF NetTypeOK, DataPacket
<1>4. TimerTypeOK'
  BY <1>1, <1>3 DEF ReceiveAck, TimerTypeOK, DropAck, TakeAck
<1>5. TaskTypeOK' /\ BegunWell'
  BY <1>1 DEF ReceiveAck, TaskTypeOK, TimerTypeOK, BegunWell, DropAck, TakeAck
<1>6. ReceiverTypeOK' /\ HistoryTypeOK'
  BY DEF ReceiveAck, ReceiverTypeOK, HistoryTypeOK, receiverVars, historyVars
<1> QED
  BY <1>2, <1>4, <1>5, <1>6

\* The three ways an acknowledgement is handled, for the acknowledgement held.
LEMMA HandleAckKeepsType ==
    ASSUME TypeInv, NEW n \in Node, HandleAck(n)
    PROVE  TypeInv'
<1> USE DEF TypeInv, TypeOK
<1>1. CASE DoubleFree(n) /\ Boot(n) /\ UNCHANGED <<reported, net>>
  <2>1. TaskTypeOK' /\ TimerTypeOK' /\ ReceiverTypeOK' /\ BegunWell'
    BY <1>1, BootType
  <2>2. NetTypeOK'
    BY <1>1 DEF HandleAck, NetTypeOK
  <2>3. fault' \in [Node -> SUBSET {"double free", "overflow"}]
    BY <1>1 DEF Boot, HistoryTypeOK
  <2>4. HistoryTypeOK'
    BY <1>1, <2>3 DEF HandleAck, HistoryTypeOK
  <2> QED
    BY <2>1, <2>2, <2>4
<1>2. ASSUME NEW p \in held[n],
             StaleAck(n, p) \/ FinalAck(n, p) \/ NextFragment(n, p),
             fault' = (IF DoubleFree(n)
                       THEN [fault EXCEPT ![n] = @ \union {"double free"}]
                       ELSE fault),
             pc' = [pc EXCEPT ![n] = "idle"], held' = [held EXCEPT ![n] = {}],
             UNCHANGED <<send_data, target_ip, receiverVars>>
      PROVE  TypeInv'
  <2>1. p \in AckPacket
    BY DEF TimerTypeOK
  <2>2. fault' \in [Node -> SUBSET {"double free", "overflow"}]
    BY <1>2 DEF HistoryTypeOK
  <2>3. ReceiverTypeOK'
    BY <1>2 DEF ReceiverTypeOK, receiverVars
  <2>4. clock' = clock /\ UNCHANGED <<begun, resent, restarts>>
    BY DEF HandleAck
  <2>5. pc' = [pc EXCEPT ![n] = "idle"] /\ UNCHANGED <<send_data, target_ip>>
    BY <1>2
  <2>6. CASE StaleAck(n, p)
    <3>1. TaskTypeOK' /\ BegunWell'
      BY <1>2, <2>6 DEF StaleAck, TaskTypeOK, TimerTypeOK, BegunWell
    <3>2. TimerTypeOK'
      BY <1>2, <2>6 DEF StaleAck, TimerTypeOK
    <3>3. NetTypeOK' /\ HistoryTypeOK'
      BY <2>2, <2>4, <2>6 DEF StaleAck, NetTypeOK, HistoryTypeOK
    <3> QED
      BY <2>3, <3>1, <3>2, <3>3
  <2>7. CASE FinalAck(n, p)
    <3>1. TaskTypeOK' /\ BegunWell'
      <4>1. TaskTypeOK'
        BY <2>7, <2>5 DEF FinalAck, TaskTypeOK
      <4>2. BegunWell'
        BY <2>7, <2>5 DEF FinalAck, TaskTypeOK, TimerTypeOK, BegunWell
      <4> QED
        BY <4>1, <4>2
    <3>2. TimerTypeOK'
      BY <1>2, <2>7 DEF FinalAck, TimerTypeOK
    <3>3. reported' \in [Node -> SUBSET (0..MaxTasks)]
      BY <2>7 DEF FinalAck, HistoryTypeOK, TaskTypeOK
    <3>4. NetTypeOK' /\ HistoryTypeOK'
      BY <2>2, <2>4, <2>7, <3>3 DEF FinalAck, NetTypeOK, HistoryTypeOK
    <3> QED
      BY <2>3, <3>1, <3>2, <3>4
  <2>8. CASE NextFragment(n, p)
    <3> DEFINE q == DataTo(n, p.src, p.uuid, p.index, p.total)
    <3>1. q \in DataPacket
      <4>1. /\ p.src \in Node /\ p.uuid \in Uuid
            /\ p.index \in Index /\ p.total \in 1..MaxFrags
        BY <2>1 DEF AckPacket
      <4> QED
        BY <4>1, DataToType
    <3>2. net' = net \union {q} /\ resend_packet' = [resend_packet EXCEPT ![n] = {q}]
      BY <2>8 DEF NextFragment
    <3> HIDE DEF q
    <3>3. send_index' \in [Node -> Index \union {-100}]
      <4>1. p.index \in Index /\ send_index[n] + 1 = p.index
        BY <2>1, <2>8 DEF AckPacket, NextFragment
      <4>2. send_index' = [send_index EXCEPT ![n] = p.index]
        BY <2>8, <4>1 DEF NextFragment
      <4> QED
        BY <4>1, <4>2 DEF TaskTypeOK
    <3>4. TaskTypeOK' /\ BegunWell'
      <4>1. UNCHANGED <<is_tasking, resend_times>>
        BY <2>8 DEF NextFragment
      <4>2. TaskTypeOK'
        BY <2>5, <3>3, <4>1 DEF TaskTypeOK
      <4>3. BegunWell'
        BY <2>5, <4>1 DEF TimerTypeOK, BegunWell
      <4> QED
        BY <4>2, <4>3
    <3>5. TimerTypeOK'
      <4>1. resend_packet' \in [Node -> SUBSET DataPacket]
        BY <3>1, <3>2 DEF TimerTypeOK
      <4> QED
        BY <1>2, <2>8, <4>1 DEF NextFragment, TimerTypeOK
    <3>6. NetTypeOK'
      BY <2>4, <3>1, <3>2 DEF NetTypeOK
    <3>7. HistoryTypeOK'
      BY <2>2, <2>4, <2>8 DEF NextFragment, HistoryTypeOK
    <3> QED
      BY <2>3, <3>4, <3>5, <3>6, <3>7
  <2> QED
    BY <1>2, <2>6, <2>7, <2>8
<1> QED
  BY <1>1, <1>2 DEF HandleAck

LEMMA ReceiveDataKeepsType ==
    ASSUME TypeInv, NEW n \in Node, ReceiveData(n)
    PROVE  TypeInv'
<1> USE DEF TypeInv, TypeOK
<1>1. PICK p \in net : p.type = "data" /\ (IgnoreData(n, p) \/ StoreData(n, p))
  BY DEF ReceiveData
<1>2. TaskTypeOK' /\ TimerTypeOK' /\ BegunWell'
  BY DEF ReceiveData, TaskTypeOK, TimerTypeOK, BegunWell, senderVars
<1>3. UNCHANGED <<reported, begun, resent, restarts, clock>>
  BY DEF ReceiveData
<1>4. p \in DataPacket
  BY <1>1 DEF NetTypeOK, AckPacket
<1>5. CASE IgnoreData(n, p)
  <2>1. NetTypeOK'
    BY <1>3, <1>5, ConsumeType DEF IgnoreData
  <2>2. ReceiverTypeOK' /\ HistoryTypeOK'
    BY <1>3, <1>5 DEF IgnoreData, ReceiverTypeOK, HistoryTypeOK, receiverVars
  <2> QED
    BY <1>2, <2>1, <2>2
<1>6. CASE StoreData(n, p)
  <2>1. AckFor(n, p) \in AckPacket
    BY <1>4, <1>6, AckForType DEF StoreData, Acceptable, DataPacket
  <2>2. NetTypeOK'
    BY <1>3, <1>6, <2>1, ConsumeType DEF StoreData
  <2>3. fault' \in [Node -> SUBSET {"double free", "overflow"}]
    BY <1>6 DEF StoreData, HistoryTypeOK
  <2>4. HistoryTypeOK'
    BY <1>3, <2>3 DEF HistoryTypeOK
  <2>5. Stored(n, p) \in Buffer /\ p.uuid \in Uuid /\ p.total \in 1..MaxFrags
    BY <1>4, StoredType DEF DataPacket
  <2>6. recv_data_map' \in [Node -> [Uuid -> Buffer]]
    BY <1>6, <2>5 DEF StoreData, AddSyncDatabase, ReceiverTypeOK
  <2>7. executed' \in [Node -> Seq(Buffer)]
    <3>1. Merged(Stored(n, p), p.total) \in Buffer
      BY <2>5, MergedType
    <3>2. \/ executed' = executed
          \/ executed' = [executed EXCEPT ![n] =
                              Append(@, Merged(Stored(n, p), p.total))]
      BY <1>6 DEF StoreData, AddSyncDatabase
    <3>3. executed \in [Node -> Seq(Buffer)]
      BY DEF ReceiverTypeOK
    <3>4. Append(executed[n], Merged(Stored(n, p), p.total)) \in Seq(Buffer)
      BY <3>1, <3>3
    <3> QED
      BY <3>2, <3>3, <3>4
  <2> QED
    BY <1>2, <2>2, <2>4, <2>6, <2>7 DEF ReceiverTypeOK
<1> QED
  BY <1>1, <1>5, <1>6

\* Losing a datagram, and the ways a process ends and starts again.
LEMMA SurroundingsKeepType ==
    ASSUME TypeInv, Lose \/ \E n \in Node : Restart(n) \/ HeapCrash(n)
    PROVE  TypeInv'
<1> USE DEF TypeInv, TypeOK
<1>1. CASE Lose
  <2>1. NetTypeOK'
    BY <1>1 DEF Lose, NetTypeOK
  <2>2. TaskTypeOK' /\ TimerTypeOK' /\ BegunWell'
    BY <1>1 DEF Lose, TaskTypeOK, TimerTypeOK, BegunWell, senderVars
  <2>3. ReceiverTypeOK' /\ HistoryTypeOK'
    BY <1>1 DEF Lose, ReceiverTypeOK, HistoryTypeOK, receiverVars, historyVars
  <2> QED
    BY <2>1, <2>2, <2>3
<1>2. ASSUME NEW n \in Node, Restart(n) \/ HeapCrash(n) PROVE TypeInv'
  <2>1. Boot(n) /\ UNCHANGED <<reported, begun, resent, net, clock>>
    BY <1>2 DEF Restart, HeapCrash
  <2>2. TaskTypeOK' /\ TimerTypeOK' /\ ReceiverTypeOK' /\ BegunWell'
    BY <2>1, BootType
  <2>3. NetTypeOK'
    BY <2>1 DEF NetTypeOK
  <2>4. fault' \in [Node -> SUBSET {"double free", "overflow"}]
    BY <2>1 DEF Boot, HistoryTypeOK
  <2>5. restarts' \in 0..MaxRestarts
    <3>1. restarts \in 0..MaxRestarts
      BY DEF HistoryTypeOK
    <3>2. \/ restarts < MaxRestarts /\ restarts' = restarts + 1
          \/ restarts' = restarts
      BY <1>2 DEF Restart, HeapCrash
    <3> QED
      BY <3>1, <3>2
  <2>6. HistoryTypeOK'
    BY <2>1, <2>4, <2>5 DEF HistoryTypeOK
  <2> QED
    BY <2>2, <2>3, <2>6
<1> QED
  BY <1>1, <1>2

LEMMA TypeInductive == TypeInv /\ [Next]_vars => TypeInv'
<1> SUFFICES ASSUME TypeInv, [Next]_vars PROVE TypeInv'
  OBVIOUS
<1>1. CASE UNCHANGED vars
  BY <1>1 DEF vars, senderVars, receiverVars, historyVars, TypeInv, TypeOK,
              TaskTypeOK, TimerTypeOK, ReceiverTypeOK, NetTypeOK, HistoryTypeOK,
              BegunWell
<1>2. ASSUME NEW n \in Node, User(n) \/ Process(n) PROVE TypeInv'
  BY <1>2, UserKeepsType, BeginSendKeepsType, TimeoutKeepsType,
     ReceiveAckKeepsType, HandleAckKeepsType, ReceiveDataKeepsType,
     ProbeEndsKeepsType DEF Process
<1> QED
  BY <1>1, <1>2, SurroundingsKeepType DEF Next

\* Every variable always has its type, and the address and the script of a
\* task that begins are those the user gave it.
THEOREM TypeCorrect == Spec => [](TypeOK /\ BegunWell)
<1>1. Spec => []TypeInv
  BY TypeInit, TypeInductive, PTL DEF Spec
<1> QED
  BY <1>1, PTL DEF TypeInv

-----------------------------------------------------------------------------
\* The sender's two facts about the packet kept for retransmission, which no
\* step on another node and no datagram can disturb.
ResendInv == ResendBufferLive /\ ResendIsAwaited

LEMMA ResendInit == Init => ResendInv
BY DEF Init, ResendInv, ResendBufferLive, ResendIsAwaited

\* The steps that change neither the packet nor the index keep both facts, if
\* they start no timer.
LEMMA ResendUntouched ==
    ASSUME ResendInv, UNCHANGED <<resend_packet, send_index>>,
           \A n \in Node : alarm'[n] => alarm[n]
    PROVE  ResendInv'
BY DEF ResendInv, ResendBufferLive, ResendIsAwaited

\* A step of n that leaves n a packet of the index it waits for, or neither
\* packet nor timer.
LEMMA ResendReplaced ==
    ASSUME ResendInv, NEW n \in Node,
           \A m \in Node \ {n} : /\ resend_packet'[m] = resend_packet[m]
                                 /\ send_index'[m] = send_index[m]
                                 /\ alarm'[m] = alarm[m],
           alarm'[n] => resend_packet'[n] # {},
           \A p \in resend_packet'[n] : p.index = send_index'[n]
    PROVE  ResendInv'
BY DEF ResendInv, ResendBufferLive, ResendIsAwaited

LEMMA BootKeepsResend ==
    ASSUME TypeInv, ResendInv, NEW n \in Node, Boot(n)
    PROVE  ResendInv'
<1>1. /\ resend_packet' = [resend_packet EXCEPT ![n] = {}]
      /\ send_index' = [send_index EXCEPT ![n] = 0]
      /\ alarm' = [alarm EXCEPT ![n] = FALSE]
  BY DEF Boot, BootSender
<1> QED
  BY <1>1, ResendReplaced DEF TypeInv, TypeOK, TaskTypeOK, TimerTypeOK

LEMMA HandleAckKeepsResend ==
    ASSUME TypeInv, ResendInv, NEW n \in Node, HandleAck(n)
    PROVE  ResendInv'
<1> USE DEF TypeInv, TypeOK, TaskTypeOK, TimerTypeOK
<1>1. CASE Boot(n)
  BY <1>1, BootKeepsResend
<1>2. ASSUME NEW p \in held[n], StaleAck(n, p) PROVE ResendInv'
  BY <1>2, ResendReplaced DEF StaleAck
<1>3. ASSUME NEW p \in held[n], FinalAck(n, p) PROVE ResendInv'
  BY <1>3, ResendReplaced DEF FinalAck
<1>4. ASSUME NEW p \in held[n], NextFragment(n, p) PROVE ResendInv'
  <2> DEFINE q == DataTo(n, p.src, p.uuid, p.index, p.total)
  <2>1. q.index = send_index[n] + 1
    BY <1>4 DEF DataTo, NextFragment
  <2>2. /\ resend_packet' = [resend_packet EXCEPT ![n] = {q}]
        /\ send_index' = [send_index EXCEPT ![n] = @ + 1]
        /\ alarm' = [alarm EXCEPT ![n] = TRUE]
    BY <1>4 DEF NextFragment
  <2> HIDE DEF q
  <2> QED
    BY <2>1, <2>2, ResendReplaced
<1> QED
  BY <1>1, <1>2, <1>3, <1>4 DEF HandleAck

LEMMA ResendInductive == TypeInv /\ ResendInv /\ [Next]_vars => ResendInv'
<1> SUFFICES ASSUME TypeInv, ResendInv, [Next]_vars PROVE ResendInv'
  OBVIOUS
<1>1. CASE UNCHANGED vars
  BY <1>1, ResendUntouched DEF vars, senderVars
<1>2. ASSUME NEW n \in Node, User(n) \/ ProbeEnds(n) PROVE ResendInv'
  <2>1. UNCHANGED <<resend_packet, send_index, alarm>>
    BY <1>2 DEF User, BeginTask, RefuseTask, DetectNet, StopTask, ProbeEnds
  <2> QED
    BY <2>1, ResendUntouched
<1>3. ASSUME NEW n \in Node, BeginSend(n) PROVE ResendInv'
  <2> DEFINE p == DataTo(n, target_ip[n], clock, 0, Size[send_data[n]])
  <2>1. p.index = 0
    BY DEF DataTo
  <2>2. /\ resend_packet' = [resend_packet EXCEPT ![n] = {p}]
        /\ send_index' = [send_index EXCEPT ![n] = 0]
        /\ alarm' = [alarm EXCEPT ![n] = TRUE]
    BY <1>3 DEF BeginSend
  <2> HIDE DEF p
  <2> QED
    BY <2>1, <2>2, ResendReplaced DEF TypeInv, TypeOK, TaskTypeOK, TimerTypeOK
<1>4. ASSUME NEW n \in Node, Timeout(n) PROVE ResendInv'
  <2>1. UNCHANGED <<resend_packet, send_index>>
    BY <1>4 DEF Timeout
  <2>2. \A m \in Node : alarm'[m] => alarm[m]
    BY <1>4 DEF Timeout, TypeInv, TypeOK, TimerTypeOK
  <2> QED
    BY <2>1, <2>2, ResendUntouched
<1>5. ASSUME NEW n \in Node, ReceiveAck(n) \/ ReceiveData(n) PROVE ResendInv'
  <2>1. UNCHANGED <<resend_packet, send_index, alarm>>
    BY <1>5 DEF ReceiveAck, ReceiveData, senderVars
  <2> QED
    BY <2>1, ResendUntouched
<1>6. ASSUME NEW n \in Node, HandleAck(n) PROVE ResendInv'
  BY <1>6, HandleAckKeepsResend
<1>7. CASE Lose
  BY <1>7, ResendUntouched DEF Lose, senderVars
<1>8. ASSUME NEW n \in Node, Restart(n) \/ HeapCrash(n) PROVE ResendInv'
  BY <1>8, BootKeepsResend DEF Restart, HeapCrash
<1> QED
  BY <1>1, <1>2, <1>3, <1>4, <1>5, <1>6, <1>7, <1>8 DEF Next, Process

\* alarm_handler never retransmits a packet that recv_udp_data has deleted.
THEOREM ResendBufferIsLive == Spec => []ResendBufferLive
<1>1. Spec => []TypeInv
  BY TypeInit, TypeInductive, PTL DEF Spec
<1>2. Spec => []ResendInv
  BY <1>1, ResendInit, ResendInductive, PTL DEF Spec
<1> QED
  BY <1>2, PTL DEF ResendInv

\* What it retransmits is the fragment whose acknowledgement is awaited.
THEOREM ResendIsTheAwaited == Spec => []ResendIsAwaited
<1>1. Spec => []TypeInv
  BY TypeInit, TypeInductive, PTL DEF Spec
<1>2. Spec => []ResendInv
  BY <1>1, ResendInit, ResendInductive, PTL DEF Spec
<1> QED
  BY <1>2, PTL DEF ResendInv

-----------------------------------------------------------------------------
\* A data packet says where its own fragment belongs.
Truthful(p) == p.type = "data" => p.chunk = Garbage \/ p.chunk[2] = p.index

PacketsTruthful ==
    /\ \A p \in net : Truthful(p)
    /\ \A n \in Node : \A p \in resend_packet[n] : Truthful(p)

PlaceInv == PacketsTruthful /\ FragmentsInPlace

LEMMA PlaceInit == Init => PlaceInv
<1> SUFFICES ASSUME Init PROVE PlaceInv
  OBVIOUS
<1>1. \A n \in Node, u \in Uuid : Placed(recv_data_map[n][u])
  BY DEF Init, Placed, NoBuffer
<1> QED
  BY <1>1 DEF Init, PlaceInv, PacketsTruthful, FragmentsInPlace

LEMMA DataToTruthful ==
    ASSUME NEW n, NEW m, NEW u, NEW i, NEW k
    PROVE  Truthful(DataTo(n, m, u, i, k))
BY DEF Truthful, DataTo, FragmentOf

\* Storing puts the fragment at its index, merging moves nothing.
LEMMA StoredPlaced ==
    ASSUME TypeOK, FragmentsInPlace, NEW n \in Node, NEW p \in DataPacket, Truthful(p)
    PROVE  Placed(Stored(n, p))
<1>1. Placed(BufferFor(n, p))
  BY DEF FragmentsInPlace, BufferFor, Placed, DataPacket
<1>2. DOMAIN Stored(n, p) = DOMAIN BufferFor(n, p)
  BY DEF Stored
<1>3. ASSUME NEW i \in DOMAIN BufferFor(n, p)
      PROVE  Stored(n, p)[i] = IF i = p.index THEN p.chunk ELSE BufferFor(n, p)[i]
  BY DEF Stored
<1> QED
  BY <1>1, <1>2, <1>3 DEF Placed, Truthful, DataPacket

LEMMA MergedPlaced ==
    ASSUME NEW b, NEW k, Placed(b)
    PROVE  Placed(Merged(b, k))
BY DEF Placed, Merged

LEMMA ReceiveDataKeepsPlace ==
    ASSUME TypeInv, PlaceInv, NEW n \in Node, ReceiveData(n)
    PROVE  PlaceInv'
<1> USE DEF TypeInv, TypeOK
<1>1. PICK p \in net : p.type = "data" /\ (IgnoreData(n, p) \/ StoreData(n, p))
  BY DEF ReceiveData
<1>2. p \in DataPacket /\ Truthful(p)
  BY <1>1 DEF NetTypeOK, AckPacket, PlaceInv, PacketsTruthful
<1>3. resend_packet' = resend_packet
  BY DEF ReceiveData, senderVars
<1>4. CASE IgnoreData(n, p)
  BY <1>3, <1>4 DEF IgnoreData, Consume, receiverVars, PlaceInv, PacketsTruthful,
                    FragmentsInPlace
<1>5. CASE StoreData(n, p)
  <2>1. Truthful(AckFor(n, p))
    BY DEF Truthful, AckFor
  <2>2. PacketsTruthful'
    BY <1>3, <1>5, <2>1 DEF StoreData, Consume, PlaceInv, PacketsTruthful
  <2>3. Placed(Stored(n, p)) /\ Placed(Merged(Stored(n, p), p.total))
    BY <1>2, StoredPlaced, MergedPlaced DEF PlaceInv
  <2>4. \A m \in Node, u \in Uuid : Placed(recv_data_map'[m][u])
    <3>1. recv_data_map' = [recv_data_map EXCEPT ![n][p.uuid] = Stored(n, p)]
      BY <1>5 DEF StoreData
    <3> QED
      BY <2>3, <3>1 DEF PlaceInv, FragmentsInPlace, ReceiverTypeOK
  <2>5. \A m \in Node : \A j \in DOMAIN executed'[m] : Placed(executed'[m][j])
    <3> DEFINE e == Merged(Stored(n, p), p.total)
    <3>1. executed' = executed \/ executed' = [executed EXCEPT ![n] = Append(@, e)]
      BY <1>5 DEF StoreData, AddSyncDatabase
    <3>2. executed \in [Node -> Seq(Buffer)] /\ e \in Buffer
      BY <1>2, StoredType, MergedType DEF ReceiverTypeOK, DataPacket
    <3>3. Placed(e)
      BY <2>3
    <3> HIDE DEF e
    <3>4. \A j \in DOMAIN Append(executed[n], e) : Placed(Append(executed[n], e)[j])
      BY <3>2, <3>3 DEF PlaceInv, FragmentsInPlace
    <3> QED
      BY <3>1, <3>2, <3>4 DEF PlaceInv, FragmentsInPlace
  <2> QED
    BY <2>2, <2>4, <2>5 DEF PlaceInv, FragmentsInPlace
<1> QED
  BY <1>1, <1>4, <1>5

\* Starting again empties the buffers and the retransmission packet.
LEMMA BootKeepsPlace ==
    ASSUME TypeInv, PlaceInv, NEW n \in Node, Boot(n), net' = net
    PROVE  PlaceInv'
<1> USE DEF TypeInv, TypeOK
<1>1. PacketsTruthful'
  BY DEF Boot, BootSender, PlaceInv, PacketsTruthful, TimerTypeOK
<1>2. Placed(NoBuffer)
  BY DEF Placed, NoBuffer
<1>3. FragmentsInPlace'
  BY <1>2 DEF Boot, PlaceInv, FragmentsInPlace, ReceiverTypeOK
<1> QED
  BY <1>1, <1>3 DEF PlaceInv

\* The sender's steps: buffers stay, and what is sent is truthful.
LEMMA SendKeepsPlace ==
    ASSUME TypeInv, PlaceInv, UNCHANGED receiverVars,
           \A p \in net' : p \in net \/ Truthful(p),
           \A n \in Node : \A p \in resend_packet'[n] :
                p \in resend_packet[n] \/ Truthful(p)
    PROVE  PlaceInv'
BY DEF PlaceInv, PacketsTruthful, FragmentsInPlace, receiverVars

LEMMA HandleAckKeepsPlace ==
    ASSUME TypeInv, PlaceInv, NEW n \in Node, HandleAck(n)
    PROVE  PlaceInv'
<1> USE DEF TypeInv, TypeOK, TimerTypeOK
<1>1. CASE Boot(n) /\ net' = net
  BY <1>1, BootKeepsPlace
<1>2. ASSUME NEW p \in held[n], UNCHANGED receiverVars,
             StaleAck(n, p) \/ FinalAck(n, p)
      PROVE  PlaceInv'
  BY <1>2, SendKeepsPlace DEF StaleAck, FinalAck
<1>3. ASSUME NEW p \in held[n], UNCHANGED receiverVars, NextFragment(n, p)
      PROVE  PlaceInv'
  <2> DEFINE q == DataTo(n, p.src, p.uuid, p.index, p.total)
  <2>1. Truthful(q)
    BY DataToTruthful
  <2>2. net' = net \union {q} /\ resend_packet' = [resend_packet EXCEPT ![n] = {q}]
    BY <1>3 DEF NextFragment
  <2> HIDE DEF q
  <2> QED
    BY <1>3, <2>1, <2>2, SendKeepsPlace
<1> QED
  BY <1>1, <1>2, <1>3 DEF HandleAck

LEMMA TimeoutKeepsPlace ==
    ASSUME TypeInv, PlaceInv, NEW n \in Node, Timeout(n)
    PROVE  PlaceInv'
<1> USE DEF TypeInv, TypeOK, TimerTypeOK
<1>1. \A p \in net' : p \in net \/ Truthful(p)
  <2>1. CASE Retransmit(n)
    <3>1. ASSUME NEW p \in resend_packet[n]
          PROVE  Truthful([p EXCEPT !.dst = target_ip[n]])
      <4>1. p \in DataPacket /\ Truthful(p)
        BY DEF PlaceInv, PacketsTruthful
      <4> QED
        BY <4>1 DEF DataPacket, Truthful
    <3> QED
      BY <2>1, <3>1 DEF Retransmit
  <2> QED
    BY <2>1 DEF Timeout, LateAlarm, GiveUp
<1> QED
  BY <1>1, SendKeepsPlace DEF Timeout

LEMMA PlaceInductive == TypeInv /\ PlaceInv /\ [Next]_vars => PlaceInv'
<1> SUFFICES ASSUME TypeInv, PlaceInv, [Next]_vars PROVE PlaceInv'
  OBVIOUS
<1>1. CASE UNCHANGED vars
  BY <1>1, SendKeepsPlace DEF vars, senderVars
<1>2. ASSUME NEW n \in Node, User(n) \/ ProbeEnds(n) PROVE PlaceInv'
  <2>1. UNCHANGED <<resend_packet, net, receiverVars>>
    BY <1>2 DEF User, BeginTask, RefuseTask, DetectNet, StopTask, ProbeEnds
  <2> QED
    BY <2>1, SendKeepsPlace
<1>3. ASSUME NEW n \in Node, BeginSend(n) PROVE PlaceInv'
  <2> DEFINE p == DataTo(n, target_ip[n], clock, 0, Size[send_data[n]])
  <2>1. Truthful(p)
    BY DataToTruthful
  <2>2. /\ net' = net \union {p}
        /\ resend_packet' = [resend_packet EXCEPT ![n] = {p}]
        /\ UNCHANGED receiverVars
    BY <1>3 DEF BeginSend
  <2> HIDE DEF p
  <2> QED
    BY <2>1, <2>2, SendKeepsPlace DEF TypeInv, TypeOK, TimerTypeOK
<1>4. ASSUME NEW n \in Node, ReceiveAck(n) PROVE PlaceInv'
  <2>1. UNCHANGED <<resend_packet, receiverVars>>
    BY <1>4 DEF ReceiveAck
  <2>2. \A p \in net' : p \in net
    BY <1>4 DEF ReceiveAck, Consume
  <2> QED
    BY <2>1, <2>2, SendKeepsPlace
<1>5. CASE Lose
  BY <1>5, SendKeepsPlace DEF Lose, senderVars
<1>6. ASSUME NEW n \in Node, Restart(n) \/ HeapCrash(n) PROVE PlaceInv'
  BY <1>6, BootKeepsPlace DEF Restart, HeapCrash
<1> QED
  BY <1>1, <1>2, <1>3, <1>4, <1>5, <1>6, HandleAckKeepsPlace, TimeoutKeepsPlace,
     ReceiveDataKeepsPlace DEF Next, Process

\* Whatever is lost, repeated or late, and even when two tasks share a uuid, a
\* fragment is stored, merged and executed at its own place in the script.
THEOREM FragmentsStayInPlace == Spec => []FragmentsInPlace
<1>1. Spec => []TypeInv
  BY TypeInit, TypeInductive, PTL DEF Spec
<1>2. Spec => []PlaceInv
  BY <1>1, PlaceInit, PlaceInductive, PTL DEF Spec
<1> QED
  BY <1>2, PTL DEF PlaceInv

-----------------------------------------------------------------------------
\* Nothing is slower than the timer: no late datagram, no slow probe.  Losses,
\* stops, probes, restarts and tasks that share a uuid remain.
InTime == Env \intersect {"late", "slowprobe"} = {}

\* The node whose task a datagram belongs to.
Owner(p) == IF p.type = "data" THEN p.src ELSE p.dst

\* The datagrams of n's task that are on their way.
InNet(n) == {p \in net : Owner(p) = n}

\* ... and the one being handled.
Around(n) == InNet(n) \union held[n]

\* The task of n has sent its first fragment and has not ended.
Live(n) == is_tasking[n] /\ pc[n] # "begin"

\* p is the fragment that n waits for, or its acknowledgement.
Awaited(n, p) ==
    p.index = IF p.type = "data" THEN send_index[n] ELSE send_index[n] + 1

\* Stop and wait: a task has at most one datagram around it, the awaited one
\* whoever it was sent to, and none while n begins the next.
Waits(n) ==
    /\ pc[n] \in {"begin", "ack"} => is_tasking[n] /\ InNet(n) = {}
    /\ pc[n] # "ack" => held[n] = {}
    /\ \A p \in held[n] : p.type = "ack" /\ p.dst = n
    /\ \A p, r \in InNet(n) : p = r
    /\ \A p, r \in resend_packet[n] : p.src = n /\ p = r
    /\ Live(n) => alarm[n] /\ \A p \in Around(n) : Awaited(n, p)

WaitInv == \A n \in Node : Waits(n)

\* A step of n's task leaves the others as they were.
LEMMA OwnWaits ==
    ASSUME WaitInv, NEW n \in Node, Waits(n)',
           \A m \in Node \ {n} :
                /\ is_tasking'[m] = is_tasking[m] /\ pc'[m] = pc[m]
                /\ held'[m] = held[m] /\ send_index'[m] = send_index[m]
                /\ alarm'[m] = alarm[m] /\ resend_packet'[m] = resend_packet[m],
           \A p : Owner(p) # n => (p \in net' <=> p \in net)
    PROVE  WaitInv'
<1>1. ASSUME NEW m \in Node \ {n} PROVE Waits(m)'
  <2>1. InNet(m)' = InNet(m)
    BY DEF InNet
  <2>2. Around(m)' = Around(m) /\ Live(m)' = Live(m)
    BY <2>1 DEF Around, Live
  <2>3. \A p : Awaited(m, p)' = Awaited(m, p)
    BY DEF Awaited
  <2>4. Waits(m)
    BY DEF WaitInv
  <2> QED
    BY <2>1, <2>2, <2>3, <2>4 DEF Waits
<1> QED
  BY <1>1 DEF WaitInv

\* In time, a user acts and a timer fires only when nothing is around.
LEMMA InTimeIsQuiet ==
    ASSUME InTime, WaitInv, NEW n \in Node, Patient(n)
    PROVE  pc[n] \in {"idle", "probe"} /\ InNet(n) = {} /\ Around(n) = {}
<1>1. Quiet(n)
  BY DEF InTime, Patient
<1>2. InNet(n) = {}
  BY <1>1 DEF Quiet, InNet, Owner
<1>3. pc[n] \in {"idle", "probe"} /\ held[n] = {}
  BY <1>1 DEF Quiet, WaitInv, Waits
<1> QED
  BY <1>2, <1>3 DEF Around

\* ... and what is read is not read again.
LEMMA InTimeConsumes ==
    ASSUME InTime, NEW p, NEW replies, Consume(p, replies)
    PROVE  net' = (net \ {p}) \union replies
BY DEF InTime, Consume

LEMMA WaitInit == Init => WaitInv
BY DEF Init, WaitInv, Waits, InNet, Live

\* A node without a task, outside its handlers, has nothing to wait for.
LEMMA IdleWaits ==
    ASSUME TypeInv, WaitInv, NEW n \in Node, net' = net,
           ~is_tasking'[n], pc'[n] \in {"idle", "probe"}, held'[n] = {},
           resend_packet'[n] \subseteq resend_packet[n],
           \A m \in Node \ {n} :
                /\ is_tasking'[m] = is_tasking[m] /\ pc'[m] = pc[m]
                /\ held'[m] = held[m] /\ send_index'[m] = send_index[m]
                /\ alarm'[m] = alarm[m] /\ resend_packet'[m] = resend_packet[m]
    PROVE  WaitInv'
<1>1. InNet(n)' = InNet(n)
  BY DEF InNet
<1>2. Waits(n)'
  BY <1>1 DEF Waits, WaitInv, Live
<1> QED
  BY <1>2, OwnWaits

LEMMA BootWaits ==
    ASSUME TypeInv, WaitInv, NEW n \in Node, Boot(n), net' = net
    PROVE  WaitInv'
<1> USE DEF TypeInv, TypeOK, TaskTypeOK, TimerTypeOK
<1>1. /\ ~is_tasking'[n] /\ pc'[n] = "idle" /\ held'[n] = {} /\ resend_packet'[n] = {}
      /\ \A m \in Node \ {n} :
            /\ is_tasking'[m] = is_tasking[m] /\ pc'[m] = pc[m]
            /\ held'[m] = held[m] /\ send_index'[m] = send_index[m]
            /\ alarm'[m] = alarm[m] /\ resend_packet'[m] = resend_packet[m]
  BY DEF Boot, BootSender
<1> QED
  BY <1>1, IdleWaits

LEMMA UserWaits ==
    ASSUME InTime, TypeInv, WaitInv, NEW n \in Node, User(n) \/ ProbeEnds(n)
    PROVE  WaitInv'
<1> USE DEF TypeInv, TypeOK, TaskTypeOK, TimerTypeOK
<1>0. Waits(n)
  BY DEF WaitInv
<1>1. ASSUME NEW m, BeginTask(n, m) PROVE WaitInv'
  <2>1. /\ net' = net /\ held' = held /\ resend_packet' = resend_packet
        /\ alarm' = alarm /\ send_index' = send_index
        /\ is_tasking' = [is_tasking EXCEPT ![n] = TRUE]
        /\ pc' = [pc EXCEPT ![n] = "begin"]
    BY <1>1 DEF BeginTask
  <2>2. InNet(n) = {} /\ held[n] = {}
    BY <1>1, InTimeIsQuiet DEF BeginTask, Around
  <2>3. Waits(n)'
    BY <1>0, <2>1, <2>2 DEF Waits, InNet, Live
  <2> QED
    BY <2>1, <2>3, OwnWaits
<1>2. ASSUME NEW m, RefuseTask(n, m) PROVE WaitInv'
  BY <1>0, <1>2, IdleWaits DEF RefuseTask, Waits
<1>3. CASE StopTask(n)
  BY <1>0, <1>3, IdleWaits DEF StopTask, Waits
<1>4. ASSUME \/ \E m : DetectNet(n, m)
             \/ ProbeEnds(n)
      PROVE  WaitInv'
  <2>1. /\ UNCHANGED <<net, held, resend_packet, alarm, send_index, is_tasking>>
        /\ pc[n] \in {"idle", "probe"} /\ pc'[n] \in {"idle", "probe"}
        /\ \A m \in Node \ {n} : pc'[m] = pc[m]
    BY <1>4 DEF DetectNet, ProbeEnds
  <2>2. Waits(n)'
    BY <1>0, <2>1 DEF Waits, InNet, Around, Live, Awaited
  <2> QED
    BY <2>1, <2>2, OwnWaits
<1> QED
  BY <1>1, <1>2, <1>3, <1>4 DEF User

\* Fragment 0 is the first datagram of a task, and starts its timer.
LEMMA BeginSendWaits ==
    ASSUME TypeInv, WaitInv, NEW n \in Node, BeginSend(n)
    PROVE  WaitInv'
<1> USE DEF TypeInv, TypeOK, TaskTypeOK, TimerTypeOK
<1>1. PICK p : /\ p = DataTo(n, target_ip[n], clock, 0, Size[send_data[n]])
               /\ net' = net \union {p}
               /\ resend_packet' = [resend_packet EXCEPT ![n] = {p}]
  BY DEF BeginSend
<1>2. p.type = "data" /\ p.src = n /\ p.index = 0 /\ Owner(p) = n
  BY <1>1 DEF DataTo, Owner
<1>3. /\ pc[n] = "begin" /\ pc'[n] = "idle" /\ held' = held
      /\ alarm'[n] /\ send_index'[n] = 0 /\ is_tasking' = is_tasking
      /\ \A m \in Node \ {n} : /\ pc'[m] = pc[m] /\ alarm'[m] = alarm[m]
                               /\ send_index'[m] = send_index[m]
  BY DEF BeginSend
<1>4. InNet(n) = {} /\ held[n] = {}
  BY <1>3 DEF WaitInv, Waits
<1>5. InNet(n)' = {p}
  BY <1>1, <1>2, <1>4 DEF InNet
<1>6. Waits(n)'
  BY <1>1, <1>2, <1>3, <1>4, <1>5 DEF Waits, Around, Awaited
<1> QED
  BY <1>1, <1>2, <1>3, <1>6, OwnWaits

\* The datagram that alarm_handler sends again is the only one of its task.
LEMMA TimeoutWaits ==
    ASSUME InTime, TypeInv, ResendInv, WaitInv, NEW n \in Node, Timeout(n)
    PROVE  WaitInv'
<1> USE DEF TypeInv, TypeOK, TaskTypeOK, TimerTypeOK
<1>1. /\ pc[n] \in {"idle", "probe"} /\ InNet(n) = {} /\ held[n] = {}
      /\ Waits(n)
  BY InTimeIsQuiet DEF Timeout, Around, WaitInv
<1>2. UNCHANGED <<send_index, resend_packet, pc, held>>
  BY DEF Timeout
<1>3. CASE LateAlarm(n) /\ alarm' = [alarm EXCEPT ![n] = FALSE]
  BY <1>1, <1>2, <1>3, IdleWaits DEF LateAlarm
<1>4. CASE GiveUp(n) /\ alarm' = [alarm EXCEPT ![n] = FALSE]
  BY <1>1, <1>2, <1>4, IdleWaits DEF GiveUp
<1>5. CASE Retransmit(n) /\ alarm' = alarm
  <2>1. PICK sent : /\ sent = {[p EXCEPT !.dst = target_ip[n]] :
                                p \in {q \in resend_packet[n] : target_ip[n] \in Node}}
                    /\ net' = net \union sent
    BY <1>5 DEF Retransmit
  <2>2. ASSUME NEW r \in sent
        PROVE  \E p \in resend_packet[n] :
                    /\ r = [p EXCEPT !.dst = target_ip[n]]
                    /\ r.type = "data" /\ r.src = n /\ r.index = send_index[n]
    <3>1. PICK p \in resend_packet[n] : r = [p EXCEPT !.dst = target_ip[n]]
      BY <2>1
    <3>2. p \in DataPacket /\ p.src = n /\ p.index = send_index[n]
      BY <1>1 DEF Waits, ResendInv, ResendIsAwaited
    <3> QED
      BY <3>1, <3>2 DEF DataPacket
  <2>3. \A r \in sent : Owner(r) = n
    BY <2>2 DEF Owner
  <2>4. InNet(n)' = sent
    BY <1>1, <2>1, <2>3 DEF InNet
  <2>5. \A p, r \in resend_packet[n] : p = r
    BY <1>1 DEF Waits
  <2>6. \A p, r \in sent : p = r
    BY <2>2, <2>5
  <2>7. Waits(n)'
    BY <1>1, <1>2, <1>5, <2>2, <2>4, <2>6 DEF Retransmit, Waits, Around, Awaited, Live
  <2> QED
    BY <1>2, <1>5, <2>1, <2>3, <2>7, OwnWaits DEF Retransmit
<1> QED
  BY <1>3, <1>4, <1>5 DEF Timeout

\* The acknowledgement read was the only datagram of its task.
LEMMA ReceiveAckWaits ==
    ASSUME InTime, TypeInv, WaitInv, NEW n \in Node, ReceiveAck(n)
    PROVE  WaitInv'
<1> USE DEF TypeInv, TypeOK, TaskTypeOK, TimerTypeOK
<1>1. PICK p \in net : /\ p.type = "ack" /\ p.dst = n
                       /\ Consume(p, {})
                       /\ DropAck(n, p) \/ TakeAck(n, p)
  BY DEF ReceiveAck
<1>2. net' = net \ {p}
  BY <1>1, InTimeConsumes
<1>3. /\ UNCHANGED <<is_tasking, send_index, resend_packet, alarm>>
      /\ pc[n] = "idle" /\ Waits(n)
  BY DEF ReceiveAck, WaitInv
<1>4. p \in InNet(n) /\ held[n] = {} /\ Owner(p) = n
  BY <1>1, <1>3 DEF InNet, Owner, Waits
<1>5. InNet(n)' = {}
  BY <1>2, <1>3, <1>4 DEF InNet, Waits
<1>6. CASE DropAck(n, p)
  <2>1. Waits(n)'
    BY <1>3, <1>4, <1>5, <1>6 DEF DropAck, Waits, Live
  <2> QED
    BY <1>2, <1>3, <1>4, <1>6, <2>1, OwnWaits DEF DropAck
<1>7. CASE TakeAck(n, p)
  <2>1. /\ held'[n] = {p} /\ pc'[n] = "ack" /\ is_tasking[n]
        /\ \A m \in Node \ {n} : pc'[m] = pc[m] /\ held'[m] = held[m]
    BY <1>7 DEF TakeAck
  <2>2. Live(n) /\ p \in Around(n)
    BY <1>3, <1>4, <2>1 DEF Live, Around
  <2>3. Waits(n)'
    BY <1>1, <1>3, <1>4, <1>5, <2>1, <2>2 DEF Waits, Around, Awaited
  <2> QED
    BY <1>2, <1>3, <1>4, <2>1, <2>3, OwnWaits
<1> QED
  BY <1>1, <1>6, <1>7

\* The acknowledgement handled is the awaited one, and the packet it deletes
\* is still there.
LEMMA HeldIsTheAwaited ==
    ASSUME TypeInv, ResendInv, WaitInv, NEW n \in Node, pc[n] = "ack"
    PROVE  /\ Live(n) /\ ~DoubleFree(n)
           /\ \A p \in held[n] : ~StaleAck(n, p) /\ p.index = send_index[n] + 1
<1>1. Live(n) /\ Waits(n)
  BY DEF WaitInv, Waits, Live
<1>2. \A p \in held[n] : p.type = "ack" /\ Awaited(n, p)
  BY <1>1 DEF Waits, Around
<1>3. alarm[n]
  BY <1>1 DEF Waits
<1>4. resend_packet[n] # {}
  BY <1>3 DEF ResendInv, ResendBufferLive
<1>5. send_index[n] \in Int /\ \A p \in held[n] : p.index \in Int
  BY DEF TypeInv, TypeOK, TaskTypeOK, TimerTypeOK, AckPacket, Index
<1> QED
  BY <1>1, <1>2, <1>4, <1>5 DEF Awaited, StaleAck, DoubleFree

LEMMA HandleAckWaits ==
    ASSUME InTime, TypeInv, ResendInv, WaitInv, NEW n \in Node, HandleAck(n)
    PROVE  WaitInv'
<1> USE DEF TypeInv, TypeOK, TaskTypeOK, TimerTypeOK
<1>1. pc[n] = "ack" /\ Waits(n)
  BY DEF HandleAck, WaitInv
<1>2. PICK p \in held[n] : FinalAck(n, p) \/ NextFragment(n, p)
  BY <1>1, HeldIsTheAwaited DEF HandleAck
<1>3. pc' = [pc EXCEPT ![n] = "idle"] /\ held' = [held EXCEPT ![n] = {}]
  BY <1>1, HeldIsTheAwaited DEF HandleAck
<1>4. InNet(n) = {} /\ Live(n)
  BY <1>1, HeldIsTheAwaited DEF Waits
<1>5. CASE FinalAck(n, p)
  <2>1. /\ ~is_tasking'[n] /\ net' = net /\ resend_packet'[n] = {}
        /\ \A m \in Node \ {n} :
            /\ is_tasking'[m] = is_tasking[m] /\ send_index'[m] = send_index[m]
            /\ alarm'[m] = alarm[m] /\ resend_packet'[m] = resend_packet[m]
    BY <1>5 DEF FinalAck
  <2> QED
    BY <1>3, <2>1, IdleWaits
<1>6. CASE NextFragment(n, p)
  <2>1. PICK q : /\ q = DataTo(n, p.src, p.uuid, p.index, p.total)
                 /\ net' = net \union {q}
                 /\ resend_packet' = [resend_packet EXCEPT ![n] = {q}]
    BY <1>6 DEF NextFragment
  <2>2. q.type = "data" /\ q.src = n /\ q.index = p.index /\ Owner(q) = n
    BY <2>1 DEF DataTo, Owner
  <2>3. /\ is_tasking' = is_tasking /\ alarm'[n] /\ send_index'[n] = p.index
        /\ \A m \in Node \ {n} : /\ send_index'[m] = send_index[m]
                                 /\ alarm'[m] = alarm[m]
    BY <1>6 DEF NextFragment
  <2>4. InNet(n)' = {q}
    BY <1>4, <2>1, <2>2 DEF InNet
  <2>5. Waits(n)'
    BY <1>3, <2>1, <2>2, <2>3, <2>4 DEF Waits, Around, Awaited
  <2> QED
    BY <1>3, <2>1, <2>2, <2>3, <2>5, OwnWaits
<1> QED
  BY <1>2, <1>5, <1>6

\* A fragment that is read or lost leaves its task nothing, or its
\* acknowledgement, which is then the awaited one.
LEMMA FewerWait ==
    ASSUME TypeInv, WaitInv, NEW p \in net,
           \/ net' = net \ {p}
           \/ p.type = "data" /\ net' = (net \ {p}) \union {AckFor(p.dst, p)},
           UNCHANGED <<is_tasking, send_index, resend_packet, alarm, pc, held>>
    PROVE  WaitInv'
<1> USE DEF TypeInv, TypeOK, TaskTypeOK, TimerTypeOK, NetTypeOK
<1>0. PICK replies :
        /\ net' = (net \ {p}) \union replies
        /\ \/ replies = {}
           \/ p.type = "data" /\ replies = {AckFor(p.dst, p)}
  <2>1. CASE net' = net \ {p}
    BY <2>1
  <2>2. CASE p.type = "data" /\ net' = (net \ {p}) \union {AckFor(p.dst, p)}
    BY <2>2
  <2> QED
    BY <2>1, <2>2
<1>1. PICK n \in Node : Owner(p) = n
  BY DEF DataPacket, AckPacket, Owner
<1>2. p \in InNet(n) /\ Waits(n)
  BY <1>1 DEF InNet, WaitInv
<1>3. \A a \in replies : /\ a.type = "ack" /\ a.dst = n /\ Owner(a) = n
                         /\ a.index = p.index + 1
  BY <1>0, <1>1 DEF AckFor, Owner
<1>4. InNet(n)' = replies
  BY <1>0, <1>2, <1>3 DEF InNet, Waits
<1>5. \A a, b \in replies : a = b
  BY <1>0
<1>6. InNet(n) # {} /\ pc'[n] \notin {"begin", "ack"} /\ held[n] = {}
  BY <1>2 DEF Waits
<1>7. ASSUME Live(n), NEW a \in replies PROVE Awaited(n, a)
  <2>1. p.type = "data" /\ p.index = send_index[n]
    BY <1>0, <1>2, <1>7 DEF Waits, Around, Awaited
  <2> QED
    BY <1>3, <2>1 DEF Awaited
<1>8. Waits(n)'
  BY <1>2, <1>4, <1>5, <1>6, <1>7 DEF Waits, Around, Live, Awaited
<1> QED
  BY <1>0, <1>1, <1>3, <1>8, OwnWaits

LEMMA ReceiveDataWaits ==
    ASSUME InTime, TypeInv, WaitInv, NEW n \in Node, ReceiveData(n)
    PROVE  WaitInv'
<1>1. PICK p \in net : /\ p.type = "data" /\ p.dst = n
                       /\ IgnoreData(n, p) \/ StoreData(n, p)
  BY DEF ReceiveData
<1>2. UNCHANGED <<is_tasking, send_index, resend_packet, alarm, pc, held>>
  BY DEF ReceiveData, senderVars
<1>3. net' = net \ {p} \/ net' = (net \ {p}) \union {AckFor(n, p)}
  BY <1>1, InTimeConsumes DEF IgnoreData, StoreData
<1> QED
  BY <1>1, <1>2, <1>3, FewerWait

LEMMA WaitInductive ==
    InTime /\ TypeInv /\ ResendInv /\ WaitInv /\ [Next]_vars => WaitInv'
<1> SUFFICES ASSUME InTime, TypeInv, ResendInv, WaitInv, [Next]_vars PROVE WaitInv'
  OBVIOUS
<1>1. CASE UNCHANGED vars
  BY <1>1 DEF vars, senderVars, WaitInv, Waits, InNet, Around, Live, Awaited
<1>2. CASE Lose
  <2>1. PICK p \in net : net' = net \ {p}
    BY <1>2 DEF Lose
  <2>2. UNCHANGED <<is_tasking, send_index, resend_packet, alarm, pc, held>>
    BY <1>2 DEF Lose, senderVars
  <2> QED
    BY <2>1, <2>2, FewerWait
<1>3. ASSUME NEW n \in Node, Restart(n) \/ HeapCrash(n) PROVE WaitInv'
  BY <1>3, BootWaits DEF Restart, HeapCrash
<1>4. ASSUME NEW n \in Node, User(n) \/ Process(n) PROVE WaitInv'
  BY <1>4, UserWaits, BeginSendWaits, TimeoutWaits, ReceiveAckWaits, HandleAckWaits,
     ReceiveDataWaits DEF Process
<1> QED
  BY <1>1, <1>2, <1>3, <1>4 DEF Next

LEMMA WaitAlways ==
    ASSUME InTime PROVE Spec => [](TypeInv /\ ResendInv /\ WaitInv)
<1>1. Spec => []TypeInv
  BY TypeInit, TypeInductive, PTL DEF Spec
<1>2. Spec => []ResendInv
  BY <1>1, ResendInit, ResendInductive, PTL DEF Spec
<1>3. TypeInv /\ ResendInv /\ WaitInv /\ [Next]_vars => WaitInv'
  BY WaitInductive
<1> QED
  BY <1>1, <1>2, <1>3, WaitInit, PTL DEF Spec

\* If no datagram and no probe is slower than the timer, a task that waits has
\* its timer running, whatever is lost, stopped, restarted or probed, and
\* though tasks share a uuid: no handler of an acknowledgement leaves a task
\* that nothing can move on.
THEOREM WaitingIsTimed == InTime => (Spec => []TimerRuns)
<1> SUFFICES ASSUME InTime PROVE Spec => []TimerRuns
  OBVIOUS
<1>1. WaitInv => TimerRuns
  BY DEF WaitInv, Waits, Live, TimerRuns
<1> QED
  BY <1>1, WaitAlways, PTL

\* No packet is deleted a second time.
DeletedOnce == [][\A n \in Node : HandleAck(n) => ~DoubleFree(n)]_vars

\* Under the same conditions recv_udp_data never deletes _resend_data_packet
\* when it is deleted already.
THEOREM PacketDeletedOnce == InTime => (Spec => DeletedOnce)
<1> SUFFICES ASSUME InTime PROVE Spec => DeletedOnce
  OBVIOUS
<1>1. TypeInv /\ ResendInv /\ WaitInv => \A n \in Node : HandleAck(n) => ~DoubleFree(n)
  BY HeldIsTheAwaited DEF HandleAck
<1> QED
  BY <1>1, WaitAlways, PTL DEF DeletedOnce

-----------------------------------------------------------------------------
\* Something that carries uuid u takes its script for one of k fragments.
Measures(u, k) ==
    \/ \E p \in net : p.uuid = u /\ p.total = k
    \/ \E n \in Node : \E p \in resend_packet[n] \union held[n] :
            p.uuid = u /\ p.total = k
    \/ \E n \in Node : /\ recv_data_map[n][u] # NoBuffer
                       /\ DOMAIN recv_data_map[n][u] = 0..(k - 1)

\* Whatever carries a uuid agrees on the size of its script, and the next
\* second's uuid is not in use.
SizeInv ==
    /\ \A u \in Uuid, k \in 1..MaxFrags : Measures(u, k) => u < clock
    /\ \A u \in Uuid : \A j, k \in 1..MaxFrags :
            Measures(u, j) /\ Measures(u, k) => j = k
    /\ \A n \in Node : "overflow" \notin fault[n]

LEMMA SizeInit == Init => SizeInv
BY DEF Init, SizeInv, Measures

\* Most steps only repeat sizes that are already there.
LEMMA RepeatedSizes ==
    ASSUME SizeInv, clock' = clock,
           \A u \in Uuid, k \in 1..MaxFrags : Measures(u, k)' => Measures(u, k),
           \A n \in Node : "overflow" \in fault'[n] => "overflow" \in fault[n]
    PROVE  SizeInv'
BY DEF SizeInv

\* A step of the sender: what it sends and keeps has the size of what it had.
LEMMA SentSizes ==
    ASSUME TypeInv, SizeInv, clock' = clock, UNCHANGED recv_data_map,
           \A p \in net' : Measures(p.uuid, p.total),
           \A n \in Node : \A p \in resend_packet'[n] \union held'[n] :
                Measures(p.uuid, p.total),
           \A n \in Node : "overflow" \in fault'[n] => "overflow" \in fault[n]
    PROVE  SizeInv'
<1>1. ASSUME NEW u \in Uuid, NEW k \in 1..MaxFrags, Measures(u, k)' PROVE Measures(u, k)
  <2>1. CASE \E p \in net' : p.uuid = u /\ p.total = k
    BY <2>1
  <2>2. CASE \E n \in Node : \E p \in resend_packet'[n] \union held'[n] :
                p.uuid = u /\ p.total = k
    BY <2>2
  <2>3. CASE \E n \in Node : /\ recv_data_map'[n][u] # NoBuffer
                             /\ DOMAIN recv_data_map'[n][u] = 0..(k - 1)
    BY <2>3 DEF Measures
  <2> QED
    BY <1>1, <2>1, <2>2, <2>3 DEF Measures
<1> QED
  BY <1>1, RepeatedSizes

\* Everything there is measures its uuid.
LEMMA AllMeasure ==
    /\ \A p \in net : Measures(p.uuid, p.total)
    /\ \A n \in Node : \A p \in resend_packet[n] \union held[n] :
            Measures(p.uuid, p.total)
BY DEF Measures

LEMMA BootKeepsSizes ==
    ASSUME TypeInv, SizeInv, NEW n \in Node, Boot(n), UNCHANGED <<net, clock>>
    PROVE  SizeInv'
<1> USE DEF TypeInv, TypeOK, TimerTypeOK, ReceiverTypeOK, HistoryTypeOK
<1>1. /\ resend_packet' = [resend_packet EXCEPT ![n] = {}]
      /\ held' = [held EXCEPT ![n] = {}]
      /\ recv_data_map' = [recv_data_map EXCEPT ![n] = [u \in Uuid |-> NoBuffer]]
      /\ fault' = [fault EXCEPT ![n] = {}]
  BY DEF Boot, BootSender
<1>2. \A m \in Node : /\ resend_packet'[m] \subseteq resend_packet[m]
                      /\ held'[m] \subseteq held[m]
                      /\ fault'[m] \subseteq fault[m]
  BY <1>1
<1>3. \A m \in Node, u \in Uuid :
        recv_data_map'[m][u] # NoBuffer => recv_data_map'[m][u] = recv_data_map[m][u]
  BY <1>1
<1>4. ASSUME NEW u \in Uuid, NEW k \in 1..MaxFrags, Measures(u, k)' PROVE Measures(u, k)
  BY <1>2, <1>3, <1>4 DEF Measures
<1> QED
  BY <1>2, <1>4, RepeatedSizes

\* The clock has gone on with the last task, so the uuid is a new one.
LEMMA BeginSendKeepsSizes ==
    ASSUME TypeInv, SizeInv, "samesecond" \notin Env, NEW n \in Node, BeginSend(n)
    PROVE  SizeInv'
<1> USE DEF TypeInv, TypeOK, TimerTypeOK
<1> DEFINE p == DataTo(n, target_ip[n], clock, 0, Size[send_data[n]])
<1>1. /\ net' = net \union {p}
      /\ resend_packet' = [resend_packet EXCEPT ![n] = {p}]
      /\ clock' = clock + 1
      /\ UNCHANGED <<held, recv_data_map, fault>>
  BY DEF BeginSend, receiverVars, historyVars
<1>2. p.uuid = clock
  BY DEF DataTo
<1>3. clock \in Nat
  BY DEF NetTypeOK, Uuid
<1> HIDE DEF p
<1>4. ASSUME NEW u \in Uuid, NEW k \in 1..MaxFrags, Measures(u, k)'
      PROVE  Measures(u, k) \/ (u = clock /\ k = p.total)
  BY <1>1, <1>2, <1>4 DEF Measures
<1>5. \A u \in Uuid, k \in 1..MaxFrags : Measures(u, k) => u < clock
  BY DEF SizeInv
<1>6. \A u \in Uuid, k \in 1..MaxFrags : Measures(u, k)' => u < clock'
  BY <1>1, <1>3, <1>4, <1>5 DEF Uuid
<1>7. ASSUME NEW u \in Uuid, NEW j \in 1..MaxFrags, NEW k \in 1..MaxFrags,
             Measures(u, j)', Measures(u, k)'
      PROVE  j = k
  <2>1. CASE u = clock
    BY <1>3, <1>4, <1>5, <1>7, <2>1
  <2>2. CASE u # clock
    BY <1>4, <1>7, <2>2 DEF SizeInv
  <2> QED
    BY <2>1, <2>2
<1> QED
  BY <1>1, <1>6, <1>7 DEF SizeInv

LEMMA HandleAckKeepsSizes ==
    ASSUME TypeInv, SizeInv, NEW n \in Node, HandleAck(n)
    PROVE  SizeInv'
<1> USE DEF TypeInv, TypeOK, TimerTypeOK
<1>1. CASE Boot(n) /\ net' = net
  BY <1>1, BootKeepsSizes DEF HandleAck
<1>2. CASE ~(Boot(n) /\ net' = net)
  <2>1. /\ \E p \in held[n] : StaleAck(n, p) \/ FinalAck(n, p) \/ NextFragment(n, p)
        /\ fault' = IF DoubleFree(n)
                    THEN [fault EXCEPT ![n] = @ \union {"double free"}] ELSE fault
        /\ held' = [held EXCEPT ![n] = {}]
        /\ UNCHANGED <<recv_data_map, clock>>
    BY <1>2 DEF HandleAck, receiverVars
  <2>2. \A m \in Node : "overflow" \in fault'[m] => "overflow" \in fault[m]
    BY <2>1 DEF HistoryTypeOK
  <2>3. \A m \in Node : held'[m] \subseteq held[m]
    BY <2>1
  <2>4. ASSUME NEW p \in held[n], StaleAck(n, p) \/ FinalAck(n, p)
        PROVE  net' = net /\ \A m \in Node : resend_packet'[m] \subseteq resend_packet[m]
    BY <2>4 DEF StaleAck, FinalAck
  <2>5. ASSUME NEW p \in held[n], NextFragment(n, p)
        PROVE  /\ \A q \in net' : Measures(q.uuid, q.total)
               /\ \A m \in Node : \A q \in resend_packet'[m] : Measures(q.uuid, q.total)
    <3> DEFINE q == DataTo(n, p.src, p.uuid, p.index, p.total)
    <3>1. q.uuid = p.uuid /\ q.total = p.total
      BY DEF DataTo
    <3>2. net' = net \union {q} /\ resend_packet' = [resend_packet EXCEPT ![n] = {q}]
      BY <2>5 DEF NextFragment
    <3>3. Measures(q.uuid, q.total)
      BY <3>1, AllMeasure
    <3> HIDE DEF q
    <3> QED
      BY <3>2, <3>3, AllMeasure
  <2>6. /\ \A q \in net' : Measures(q.uuid, q.total)
        /\ \A m \in Node : \A q \in resend_packet'[m] : Measures(q.uuid, q.total)
    BY <2>1, <2>4, <2>5, AllMeasure
  <2> QED
    BY <2>1, <2>2, <2>3, <2>6, AllMeasure, SentSizes
<1> QED
  BY <1>1, <1>2

LEMMA TimeoutKeepsSizes ==
    ASSUME TypeInv, SizeInv, NEW n \in Node, Timeout(n)
    PROVE  SizeInv'
<1> USE DEF TypeInv, TypeOK, TimerTypeOK
<1>1. UNCHANGED <<resend_packet, held, recv_data_map, fault, clock>>
  BY DEF Timeout, receiverVars
<1>2. \A p \in net' : Measures(p.uuid, p.total)
  <2>1. CASE Retransmit(n)
    <3>1. ASSUME NEW q \in resend_packet[n]
          PROVE  LET p == [q EXCEPT !.dst = target_ip[n]] IN Measures(p.uuid, p.total)
      <4>1. q \in DataPacket
        OBVIOUS
      <4>2. LET p == [q EXCEPT !.dst = target_ip[n]]
            IN  p.uuid = q.uuid /\ p.total = q.total
        BY <4>1 DEF DataPacket
      <4> QED
        BY <4>2, AllMeasure
    <3> QED
      BY <2>1, <3>1, AllMeasure DEF Retransmit
  <2> QED
    BY <2>1, AllMeasure DEF Timeout, LateAlarm, GiveUp
<1> QED
  BY <1>1, <1>2, AllMeasure, SentSizes

\* A buffer that is there is as long as the packet says, so the fragment fits.
LEMMA Fits ==
    ASSUME TypeInv, SizeInv, NEW n \in Node, NEW p \in net, p \in DataPacket,
           Acceptable(n, p)
    PROVE  DOMAIN BufferFor(n, p) = 0..(p.total - 1) /\ ~Overrun(n, p)
<1> USE DEF TypeInv, TypeOK
<1>1. p.uuid \in Uuid /\ p.total \in 1..MaxFrags /\ p.index \in 0..(p.total - 1)
  BY DEF DataPacket, Acceptable
<1>2. DOMAIN BufferFor(n, p) = 0..(p.total - 1)
  <2>1. CASE p.index = 0
    BY <2>1 DEF BufferFor
  <2>2. CASE p.index # 0
    <3> DEFINE b == recv_data_map[n][p.uuid]
    <3>1. b = BufferFor(n, p) /\ b # NoBuffer
      BY <2>2 DEF BufferFor, Acceptable
    <3>2. PICK k \in 0..MaxFrags : b \in [0..(k - 1) -> Fragment]
      <4>1. b \in Buffer
        BY <1>1 DEF ReceiverTypeOK
      <4> QED
        BY <4>1 DEF Buffer
    <3>3. k # 0
      <4>1. CASE k = 0
        <5>1. b \in [{} -> Fragment]
          <6>1. 0..(0 - 1) = {}
            OBVIOUS
          <6> QED
            BY <3>2, <4>1, <6>1
        <5> HIDE DEF b
        <5>2. b = [i \in {} |-> Garbage]
          BY <5>1
        <5> QED
          BY <3>1, <5>2 DEF NoBuffer
      <4> QED
        BY <4>1
    <3>4. k \in 1..MaxFrags /\ DOMAIN b = 0..(k - 1)
      BY <3>2, <3>3
    <3>5. Measures(p.uuid, k)
      BY <3>1, <3>4 DEF Measures
    <3>6. k = p.total
      BY <1>1, <3>4, <3>5, AllMeasure DEF SizeInv
    <3> QED
      BY <3>1, <3>4, <3>6
  <2> QED
    BY <2>1, <2>2
<1> QED
  BY <1>1, <1>2 DEF Overrun

LEMMA ReceiveDataKeepsSizes ==
    ASSUME TypeInv, SizeInv, NEW n \in Node, ReceiveData(n)
    PROVE  SizeInv'
<1> USE DEF TypeInv, TypeOK
<1>1. PICK p \in net : p.type = "data" /\ (IgnoreData(n, p) \/ StoreData(n, p))
  BY DEF ReceiveData
<1>2. p \in DataPacket
  BY <1>1 DEF NetTypeOK, AckPacket
<1>3. UNCHANGED <<resend_packet, held, clock>>
  BY DEF ReceiveData, senderVars
<1>4. CASE IgnoreData(n, p)
  <2>1. net' \subseteq net /\ UNCHANGED <<recv_data_map, fault>>
    BY <1>4 DEF IgnoreData, Consume, receiverVars
  <2> QED
    BY <1>3, <2>1, AllMeasure, SentSizes
<1>5. CASE StoreData(n, p)
  <2>1. /\ recv_data_map' = [recv_data_map EXCEPT ![n][p.uuid] = Stored(n, p)]
        /\ fault' = fault
        /\ net' \subseteq net \union {AckFor(n, p)}
    BY <1>2, <1>5, Fits DEF StoreData, Consume
  <2>2. DOMAIN Stored(n, p) = 0..(p.total - 1)
    BY <1>2, <1>5, Fits DEF StoreData, Stored
  <2>3. AckFor(n, p).uuid = p.uuid /\ AckFor(n, p).total = p.total
    BY DEF AckFor
  <2>4. p.uuid \in Uuid /\ p.total \in 1..MaxFrags
    BY <1>2 DEF DataPacket
  <2> HIDE DEF TypeInv
  <2>5. ASSUME NEW u \in Uuid, NEW k \in 1..MaxFrags, Measures(u, k)' PROVE Measures(u, k)
    <3>1. CASE \E q \in net' : q.uuid = u /\ q.total = k
      BY <2>1, <2>3, <3>1, AllMeasure
    <3>2. CASE \E m \in Node : \E q \in resend_packet'[m] \union held'[m] :
                  q.uuid = u /\ q.total = k
      BY <1>3, <3>2, AllMeasure
    <3>3. ASSUME NEW m \in Node, recv_data_map'[m][u] # NoBuffer,
                 DOMAIN recv_data_map'[m][u] = 0..(k - 1)
          PROVE  Measures(u, k)
      <4>1. CASE m = n /\ u = p.uuid
        <5>1. 0..(k - 1) = 0..(p.total - 1)
          BY <2>1, <2>2, <3>3, <4>1 DEF TypeInv, TypeOK, ReceiverTypeOK
        <5>2. k = p.total
          BY <2>4, <5>1
        <5> QED
          BY <4>1, <5>2, AllMeasure
      <4>2. CASE ~(m = n /\ u = p.uuid)
        <5>1. recv_data_map'[m][u] = recv_data_map[m][u]
          BY <2>1, <4>2 DEF TypeInv, TypeOK, ReceiverTypeOK
        <5> QED
          BY <3>3, <5>1 DEF Measures
      <4> QED
        BY <4>1, <4>2
    <3> QED
      BY <2>5, <3>1, <3>2, <3>3 DEF Measures
  <2> QED
    BY <1>3, <2>1, <2>5, RepeatedSizes
<1> QED
  BY <1>1, <1>4, <1>5

LEMMA SizeInductive ==
    ASSUME TypeInv, SizeInv, "samesecond" \notin Env, [Next]_vars
    PROVE  SizeInv'
<1> USE DEF TypeInv, TypeOK, TimerTypeOK
<1>1. CASE UNCHANGED vars
  BY <1>1, AllMeasure, SentSizes DEF vars, senderVars, receiverVars, historyVars
<1>2. ASSUME NEW n \in Node, User(n) \/ ProbeEnds(n) PROVE SizeInv'
  <2>1. UNCHANGED <<resend_packet, held, net, recv_data_map, fault, clock>>
    BY <1>2 DEF User, BeginTask, RefuseTask, DetectNet, StopTask, ProbeEnds,
                receiverVars, historyVars
  <2> QED
    BY <2>1, AllMeasure, SentSizes
<1>3. ASSUME NEW n \in Node, ReceiveAck(n) PROVE SizeInv'
  <2>1. UNCHANGED <<resend_packet, recv_data_map, fault, clock>>
    BY <1>3 DEF ReceiveAck, receiverVars, historyVars
  <2>2. PICK p \in net : Consume(p, {}) /\ (DropAck(n, p) \/ TakeAck(n, p))
    BY <1>3 DEF ReceiveAck
  <2>3. net' \subseteq net
    BY <2>2 DEF Consume
  <2>4. \A m \in Node : held'[m] \subseteq held[m] \union {p}
    BY <2>2 DEF DropAck, TakeAck
  <2> QED
    BY <2>1, <2>2, <2>3, <2>4, AllMeasure, SentSizes
<1>4. CASE Lose
  <2>1. net' \subseteq net
        /\ UNCHANGED <<resend_packet, held, recv_data_map, fault, clock>>
    BY <1>4 DEF Lose, senderVars, receiverVars, historyVars
  <2> QED
    BY <2>1, AllMeasure, SentSizes
<1>5. ASSUME NEW n \in Node, Restart(n) \/ HeapCrash(n) PROVE SizeInv'
  BY <1>5, BootKeepsSizes DEF Restart, HeapCrash
<1> QED
  BY <1>1, <1>2, <1>3, <1>4, <1>5, BeginSendKeepsSizes, HandleAckKeepsSizes,
     TimeoutKeepsSizes, ReceiveDataKeepsSizes DEF Next, Process

\* No fragment is written outside its buffer.
NoOverflow == \A n \in Node : "overflow" \notin fault[n]

\* Unless two tasks begin within one second, recv_udp_data writes every
\* fragment inside the buffer it allocated, whatever is lost, repeated, late,
\* probed, stopped or restarted: time() is what keeps the sizes apart.
THEOREM BuffersNotOverrun == "samesecond" \notin Env => (Spec => []NoOverflow)
<1> SUFFICES ASSUME "samesecond" \notin Env PROVE Spec => []NoOverflow
  OBVIOUS
<1>1. Spec => []TypeInv
  BY TypeInit, TypeInductive, PTL DEF Spec
<1>2. TypeInv /\ SizeInv /\ [Next]_vars => SizeInv'
  BY SizeInductive
<1>3. SizeInv => NoOverflow
  BY DEF SizeInv, NoOverflow
<1> QED
  BY <1>1, <1>2, <1>3, SizeInit, PTL DEF Spec

\* In time, and with a uuid of its own for each task, no handler damages the
\* heap: the packet is there to be deleted, and fragments fit.
LEMMA HeapKept ==
    ASSUME TypeInv, ResendInv, WaitInv, SizeInv, NoHeapFault, [Next]_vars
    PROVE  NoHeapFault'
<1> USE DEF TypeInv, TypeOK, HistoryTypeOK, NoHeapFault
<1>1. ASSUME NEW n \in Node, HandleAck(n) PROVE NoHeapFault'
  <2>1. ~DoubleFree(n)
    BY <1>1, HeldIsTheAwaited DEF HandleAck
  <2> QED
    BY <1>1, <2>1 DEF HandleAck
<1>2. ASSUME NEW n \in Node, ReceiveData(n) PROVE NoHeapFault'
  <2>1. PICK p \in net : p.type = "data" /\ (IgnoreData(n, p) \/ StoreData(n, p))
    BY <1>2 DEF ReceiveData
  <2>2. p \in DataPacket
    BY <2>1 DEF NetTypeOK, AckPacket
  <2> QED
    BY <2>1, <2>2, Fits DEF IgnoreData, StoreData
<1>3. ASSUME NEW n \in Node, Restart(n) \/ HeapCrash(n) PROVE NoHeapFault'
  BY <1>3 DEF Restart, HeapCrash, Boot
<1>4. ASSUME NEW n \in Node, User(n) \/ ProbeEnds(n) \/ BeginSend(n) \/ Timeout(n)
                             \/ ReceiveAck(n)
      PROVE  fault' = fault
  BY <1>4 DEF User, BeginTask, RefuseTask, DetectNet, StopTask, ProbeEnds, BeginSend,
              Timeout, ReceiveAck, historyVars
<1>5. CASE Lose \/ UNCHANGED vars
  BY <1>5 DEF Lose, vars, historyVars
<1> QED
  BY <1>1, <1>2, <1>3, <1>4, <1>5 DEF Next, Process

\* If neither a datagram nor a probe is slower than the timer and no two tasks
\* begin within one second, no packet is deleted twice and no fragment is
\* written outside its buffer, also while other addresses are probed.
THEOREM HeapSound ==
    InTime /\ "samesecond" \notin Env => (Spec => []NoHeapFault)
<1> SUFFICES ASSUME InTime, "samesecond" \notin Env PROVE Spec => []NoHeapFault
  OBVIOUS
<1>1. Init => SizeInv /\ NoHeapFault
  BY SizeInit DEF Init, NoHeapFault
<1>2. TypeInv /\ SizeInv /\ [Next]_vars => SizeInv'
  BY SizeInductive
<1>3. TypeInv /\ ResendInv /\ WaitInv /\ SizeInv /\ NoHeapFault /\ [Next]_vars
        => NoHeapFault'
  BY HeapKept
<1> QED
  BY <1>1, <1>2, <1>3, WaitAlways, PTL DEF Spec

=============================================================================
