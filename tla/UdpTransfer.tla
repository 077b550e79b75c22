---------------------------- MODULE UdpTransfer ----------------------------
(***************************************************************************)
(* The stop-and-wait transfer of netWindow: a task cuts a script into      *)
(* fragments, sends fragment 0, and sends fragment i+1 when fragment i is  *)
(* acknowledged; SIGALRM retransmits the last fragment.  The receiver      *)
(* collects the fragments of a uuid in a buffer and, on the last index,    *)
(* executes the buffer as SQL.                                             *)
(*                                                                         *)
(* Every node runs the same program, so every node has the sender's and    *)
(* the receiver's state.  The handlers run on the Qt main thread, one at a *)
(* time; SIGALRM interrupts them.  A handler is one action, except where   *)
(* the signal can observe it half done (pc): between _is_tasking = 1 and   *)
(* alarm() when a task begins, and between the _is_tasking test and        *)
(* alarm(0) when an acknowledgement is handled.                            *)
(*                                                                         *)
(* Data is abstract: a fragment is <<task, index>>, whatever its bytes,    *)
(* and every task uses the same fragment size.                             *)
(***************************************************************************)
EXTENDS Integers, Sequences, FiniteSets

CONSTANTS
    Node,           \* the machines
    Link,           \* the pairs <<sender, receiver>> a user may choose
    NoAddr,         \* a target address that does not parse
    Garbage,        \* the content of memory nobody wrote
    Env,            \* what the surroundings may do, a subset of Surroundings
    RetryLimit,     \* the literal 5 of alarm_handler
    MaxTasks,       \* bound: tasks that begin, on all nodes together
    MaxFrags,       \* bound: fragments of a script
    Size,           \* per task, the number of fragments of its script
    MaxRestarts,    \* bound: restarts, of all nodes together
    MaxExec         \* bound: scripts a node executes

\* "late"       messages are duplicated, reordered or outlive the timer
\* "stop"       the user clicks stop
\* "detect"     the user probes another address while a task runs
\* "slowprobe"  a probe takes longer than the timer
\* "restart"    a process is killed and started again
\* "samesecond" two tasks begin within one second
Surroundings ==
    {"late", "stop", "detect", "slowprobe", "restart", "samesecond"}

ASSUME LinkAssumption == Link \subseteq Node \X Node
ASSUME AddrAssumption == NoAddr \notin Node
ASSUME EnvAssumption == Env \subseteq Surroundings
ASSUME BoundAssumption ==
    /\ RetryLimit \in Nat \ {0}
    /\ MaxTasks \in Nat
    /\ MaxFrags \in Nat \ {0}
    /\ MaxRestarts \in Nat
    /\ MaxExec \in Nat
ASSUME SizeAssumption == Size \in [1..MaxTasks -> 1..MaxFrags]

VARIABLES
    is_tasking,     \* _is_tasking
    send_index,     \* _send_index, the fragment waiting for its ack
    resend_times,   \* _resend_times
    resend_packet,  \* _resend_data_packet: {} once deleted, else its datagram
    send_data,      \* _ptr_send_data: the task whose script it holds, or 0
    target_ip,      \* _targetIp
    alarm,          \* a SIGALRM is scheduled
    pc,             \* where the main thread is inside a handler
    held,           \* the ack that handler has read
    recv_data_map,  \* _recv_data_map: per uuid, the buffer or NoBuffer
    executed,       \* the scripts handed to add_sync_database, in order
    reported,       \* the tasks this node announced as transferred
    fault,          \* undefined behaviour that occurred in this process
    net,            \* the datagrams in flight
    clock,          \* time(NULL)
    begun,          \* history: number of tasks begun
    resent,         \* history: per task, its retransmissions
    restarts        \* history: number of restarts

senderVars == <<is_tasking, send_index, resend_times, resend_packet,
                send_data, target_ip, alarm, pc, held>>
receiverVars == <<recv_data_map, executed>>
historyVars == <<reported, fault, begun, resent, restarts>>
vars == <<senderVars, receiverVars, historyVars, net, clock>>

\* The machines the user of n sends tasks to.
Targets(n) == {m \in Node : <<n, m>> \in Link}

Task == 1..MaxTasks
Uuid == 0..MaxTasks
Index == 0..MaxFrags
Fragment == (Task \X Index) \union {Garbage}
NoBuffer == [i \in {} |-> Garbage]
Buffer == UNION {[0..(k - 1) -> Fragment] : k \in 0..MaxFrags}
NoScript == 0

DataPacket == [type : {"data"}, src : Node, dst : Node, uuid : Uuid,
               index : Index, total : 1..MaxFrags, chunk : Fragment]
AckPacket == [type : {"ack"}, src : Node, dst : Node, uuid : Uuid,
              index : Index, total : 1..MaxFrags]

TaskTypeOK ==
    /\ is_tasking \in [Node -> BOOLEAN]
    /\ send_index \in [Node -> Index \union {-100}]
    /\ resend_times \in [Node -> 0..(RetryLimit - 1)]
    /\ send_data \in [Node -> 0..MaxTasks]
    /\ target_ip \in [Node -> Node \union {NoAddr}]

TimerTypeOK ==
    /\ resend_packet \in [Node -> SUBSET DataPacket]
    /\ alarm \in [Node -> BOOLEAN]
    /\ pc \in [Node -> {"idle", "begin", "ack", "probe"}]
    /\ held \in [Node -> SUBSET AckPacket]

ReceiverTypeOK ==
    /\ recv_data_map \in [Node -> [Uuid -> Buffer]]
    /\ executed \in [Node -> Seq(Buffer)]

NetTypeOK ==
    /\ net \subseteq DataPacket \union AckPacket
    /\ clock \in Uuid

HistoryTypeOK ==
    /\ reported \in [Node -> SUBSET (0..MaxTasks)]
    /\ fault \in [Node -> SUBSET {"double free", "overflow"}]
    /\ begun \in 0..MaxTasks
    /\ resent \in [Task -> Nat]
    /\ restarts \in 0..MaxRestarts

TypeOK == TaskTypeOK /\ TimerTypeOK /\ ReceiverTypeOK /\ NetTypeOK /\ HistoryTypeOK

Init ==
    /\ is_tasking = [n \in Node |-> FALSE]
    /\ send_index = [n \in Node |-> 0]
    /\ resend_times = [n \in Node |-> 0]
    /\ resend_packet = [n \in Node |-> {}]
    /\ send_data = [n \in Node |-> NoScript]
    /\ target_ip = [n \in Node |-> NoAddr]
    /\ alarm = [n \in Node |-> FALSE]
    /\ pc = [n \in Node |-> "idle"]
    /\ held = [n \in Node |-> {}]
    /\ recv_data_map = [n \in Node |-> [u \in Uuid |-> NoBuffer]]
    /\ executed = [n \in Node |-> <<>>]
    /\ reported = [n \in Node |-> {}]
    /\ fault = [n \in Node |-> {}]
    /\ net = {}
    /\ clock = 0
    /\ begun = 0
    /\ resent = [t \in Task |-> 0]
    /\ restarts = 0

-----------------------------------------------------------------------------
\* Sets the sender's state of n to what a process that just started has.
BootSender(n) ==
    /\ is_tasking' = [is_tasking EXCEPT ![n] = FALSE]
    /\ send_index' = [send_index EXCEPT ![n] = 0]
    /\ resend_times' = [resend_times EXCEPT ![n] = 0]
    /\ resend_packet' = [resend_packet EXCEPT ![n] = {}]
    /\ send_data' = [send_data EXCEPT ![n] = NoScript]
    /\ target_ip' = [target_ip EXCEPT ![n] = NoAddr]
    /\ alarm' = [alarm EXCEPT ![n] = FALSE]
    /\ pc' = [pc EXCEPT ![n] = "idle"]
    /\ held' = [held EXCEPT ![n] = {}]

\* ... and the receiver's; what it executed stays in the database.
Boot(n) ==
    /\ BootSender(n)
    /\ recv_data_map' = [recv_data_map EXCEPT ![n] = [u \in Uuid |-> NoBuffer]]
    /\ fault' = [fault EXCEPT ![n] = {}]
    /\ UNCHANGED executed

\* A datagram is read; under "late" a copy of it may still be on its way.
Consume(p, replies) ==
    \/ net' = (net \ {p}) \union replies
    \/ "late" \in Env /\ net' = net \union replies

\* No datagram to or from n is in flight, and none is being handled.
Quiet(n) ==
    /\ pc[n] \in {"idle", "probe"}
    /\ \A p \in net : n \notin {p.src, p.dst}

\* A probe keeps the datagrams of n, or those to whom it sends, waiting.
HeldUp(n) ==
    \/ pc[n] = "probe"
    \/ \E p \in net : p.src = n /\ pc[p.dst] = "probe"

\* Without "late", five seconds are longer than any round trip, and a user
\* is slower than the network too; but a probe may be slower still.
Patient(n) ==
    \/ "late" \in Env
    \/ Quiet(n)
    \/ "slowprobe" \in Env /\ HeldUp(n)

\* Slip: the fragment is taken at _send_index before that is advanced.
FragmentAtSendIndex(n, i) ==
    IF send_data[n] \in Task /\ send_index[n] \in 0..(Size[send_data[n]] - 1)
    THEN <<send_data[n], send_index[n]>> ELSE Garbage

\* The memory at _ptr_send_data + index * packet_len, read past the end too.
FragmentOf(n, i) ==
    IF send_data[n] \in Task /\ i < Size[send_data[n]]
    THEN <<send_data[n], i>> ELSE Garbage

DataTo(n, m, u, i, k) ==
    [type |-> "data", src |-> n, dst |-> m, uuid |-> u,
     index |-> i, total |-> k, chunk |-> FragmentOf(n, i)]

-----------------------------------------------------------------------------
\* on_bt_task_begin_clicked up to _is_tasking = 1: the script is copied.
BeginTask(n, m) ==
    /\ pc[n] = "idle" /\ ~is_tasking[n]
    /\ begun < MaxTasks /\ Patient(n)
    /\ begun' = begun + 1
    /\ target_ip' = [target_ip EXCEPT ![n] = m]
    /\ send_data' = [send_data EXCEPT ![n] = begun + 1]
    /\ is_tasking' = [is_tasking EXCEPT ![n] = TRUE]
    /\ pc' = [pc EXCEPT ![n] = "begin"]
    /\ UNCHANGED <<send_index, resend_times, resend_packet, alarm, held,
                   receiverVars, reported, fault, resent, restarts, net, clock>>

\* Slip: _send_index keeps the value the last task left.
BeginSendNoReset(n) ==
    /\ pc[n] = "begin"
    /\ LET p == DataTo(n, target_ip[n], clock, 0, Size[send_data[n]])
       IN  /\ net' = net \union {p}
           /\ resend_packet' = [resend_packet EXCEPT ![n] = {p}]
    /\ alarm' = [alarm EXCEPT ![n] = TRUE]
    /\ pc' = [pc EXCEPT ![n] = "idle"]
    /\ UNCHANGED <<is_tasking, send_index, resend_times, send_data, target_ip,
                   held, receiverVars, historyVars, clock>>

\* The rest of it: fragment 0 goes out under a fresh uuid and the timer starts.
BeginSend(n) ==
    /\ pc[n] = "begin"
    /\ LET p == DataTo(n, target_ip[n], clock, 0, Size[send_data[n]])
       IN  /\ net' = net \union {p}
           /\ resend_packet' = [resend_packet EXCEPT ![n] = {p}]
    /\ alarm' = [alarm EXCEPT ![n] = TRUE]
    /\ send_index' = [send_index EXCEPT ![n] = 0]
    /\ pc' = [pc EXCEPT ![n] = "idle"]
    /\ \/ clock < MaxTasks /\ clock' = clock + 1
       \/ "samesecond" \in Env /\ clock' = clock
    /\ UNCHANGED <<is_tasking, resend_times, send_data, target_ip, held,
                   receiverVars, historyVars>>

\* The early returns of the same slot: an address that does not parse, no
\* fragment size, or no data.  The address has been assigned all the same.
RefuseTask(n, a) ==
    /\ pc[n] = "idle" /\ ~is_tasking[n]
    /\ target_ip' = [target_ip EXCEPT ![n] = a]
    /\ send_data' = [send_data EXCEPT ![n] = NoScript]
    /\ UNCHANGED <<is_tasking, send_index, resend_times, resend_packet, alarm,
                   pc, held, receiverVars, historyVars, net, clock>>

\* on_bt_stop_task_clicked: the timer and the retry count are left alone.
StopTask(n) ==
    /\ "stop" \in Env
    /\ pc[n] = "idle"
    /\ is_tasking' = [is_tasking EXCEPT ![n] = FALSE]
    /\ UNCHANGED <<send_index, resend_times, resend_packet, send_data,
                   target_ip, alarm, pc, held, receiverVars, historyVars,
                   net, clock>>

\* on_bt_detect_net_clicked assigns the address the retransmissions use, and
\* runs c_run on the main thread: SpeedTest has what happens in it.
DetectNet(n, a) ==
    /\ "detect" \in Env
    /\ pc[n] = "idle"
    /\ target_ip' = [target_ip EXCEPT ![n] = a]
    /\ pc' = IF a = NoAddr THEN pc ELSE [pc EXCEPT ![n] = "probe"]
    /\ UNCHANGED <<is_tasking, send_index, resend_times, resend_packet,
                   send_data, alarm, held, receiverVars, historyVars,
                   net, clock>>

\* c_run returns; until then no datagram has been read and no slot has run.
ProbeEnds(n) ==
    /\ pc[n] = "probe"
    /\ pc' = [pc EXCEPT ![n] = "idle"]
    /\ UNCHANGED <<is_tasking, send_index, resend_times, resend_packet, send_data,
                   target_ip, alarm, held, receiverVars, historyVars, net, clock>>

-----------------------------------------------------------------------------
\* alarm_handler, the three ways it can end.
LateAlarm(n) ==
    /\ ~is_tasking[n]
    /\ UNCHANGED <<is_tasking, resend_times, net, resent>>

\* Slip: _is_tasking stays 1 when the retries are used up.
GiveUpForgets(n) ==
    /\ is_tasking[n]
    /\ resend_times[n] + 1 >= RetryLimit
    /\ resend_times' = [resend_times EXCEPT ![n] = 0]
    /\ UNCHANGED <<is_tasking, net, resent>>

GiveUp(n) ==
    /\ is_tasking[n]
    /\ resend_times[n] + 1 >= RetryLimit
    /\ is_tasking' = [is_tasking EXCEPT ![n] = FALSE]
    /\ resend_times' = [resend_times EXCEPT ![n] = 0]
    /\ UNCHANGED <<net, resent>>

\* Slip: one retransmission past the limit.
RetransmitPastLimit(n) ==
    /\ is_tasking[n]
    /\ resend_times' = [resend_times EXCEPT ![n] = @ + 1]
    /\ UNCHANGED <<is_tasking, net, resent>>

Retransmit(n) ==
    /\ is_tasking[n]
    /\ resend_times[n] + 1 < RetryLimit
    /\ resend_times' = [resend_times EXCEPT ![n] = @ + 1]
    /\ net' = net \union {[p EXCEPT !.dst = target_ip[n]] :
                            p \in {q \in resend_packet[n] : target_ip[n] \in Node}}
    /\ resent' = [resent EXCEPT ![send_data[n]] = @ + 1]
    /\ UNCHANGED is_tasking

\* SIGALRM; it interrupts the main thread wherever that is.
Timeout(n) ==
    /\ alarm[n] /\ Patient(n)
    /\ \/ LateAlarm(n) /\ alarm' = [alarm EXCEPT ![n] = FALSE]
       \/ GiveUp(n) /\ alarm' = [alarm EXCEPT ![n] = FALSE]
       \/ Retransmit(n) /\ alarm' = alarm
    /\ UNCHANGED <<send_index, resend_packet, send_data, target_ip, pc, held,
                   receiverVars, reported, fault, begun, restarts, clock>>

-----------------------------------------------------------------------------
\* recv_udp_data with an acknowledgement: it is dropped when no task runs ...
DropAck(n, p) ==
    /\ ~is_tasking[n]
    /\ UNCHANGED <<pc, held>>

\* ... and otherwise the handler goes on to alarm(0).
TakeAck(n, p) ==
    /\ is_tasking[n]
    /\ pc' = [pc EXCEPT ![n] = "ack"]
    /\ held' = [held EXCEPT ![n] = {p}]

ReceiveAck(n) ==
    /\ pc[n] = "idle"
    /\ \E p \in net :
        /\ p.type = "ack" /\ p.dst = n
        /\ Consume(p, {})
        /\ DropAck(n, p) \/ TakeAck(n, p)
    /\ UNCHANGED <<is_tasking, send_index, resend_times, resend_packet, send_data,
                   target_ip, alarm, receiverVars, historyVars, clock>>

\* Slip: the packet is deleted and the timer left running.
StaleAckKeepsTimer(n, p) ==
    /\ send_index[n] + 1 # p.index
    /\ resend_packet' = [resend_packet EXCEPT ![n] = {}]
    /\ UNCHANGED <<is_tasking, send_index, resend_times, reported, net, alarm>>

\* After alarm(0) and delete: not the expected index, nothing else happens.
StaleAck(n, p) ==
    /\ send_index[n] + 1 # p.index
    /\ resend_packet' = [resend_packet EXCEPT ![n] = {}]
    /\ alarm' = [alarm EXCEPT ![n] = FALSE]
    /\ UNCHANGED <<is_tasking, send_index, resend_times, reported, net>>

\* Slip: success is announced when the last fragment is still to be sent.
FinalAckEarly(n, p) ==
    /\ send_index[n] + 1 = p.index /\ p.index >= p.total - 1
    /\ reported' = [reported EXCEPT ![n] = @ \union {send_data[n]}]
    /\ is_tasking' = [is_tasking EXCEPT ![n] = FALSE]
    /\ resend_times' = [resend_times EXCEPT ![n] = 0]
    /\ send_index' = [send_index EXCEPT ![n] = -100]
    /\ resend_packet' = [resend_packet EXCEPT ![n] = {}]
    /\ alarm' = [alarm EXCEPT ![n] = FALSE]
    /\ UNCHANGED net

\* The last fragment is acknowledged: the task is announced as transferred.
FinalAck(n, p) ==
    /\ send_index[n] + 1 = p.index /\ p.index >= p.total
    /\ reported' = [reported EXCEPT ![n] = @ \union {send_data[n]}]
    /\ is_tasking' = [is_tasking EXCEPT ![n] = FALSE]
    /\ resend_times' = [resend_times EXCEPT ![n] = 0]
    /\ send_index' = [send_index EXCEPT ![n] = -100]
    /\ resend_packet' = [resend_packet EXCEPT ![n] = {}]
    /\ alarm' = [alarm EXCEPT ![n] = FALSE]
    /\ UNCHANGED net

\* Slip: the new packet is sent and not kept for retransmission.
NextFragmentNotKept(n, p) ==
    /\ send_index[n] + 1 = p.index /\ p.index < p.total
    /\ net' = net \union {DataTo(n, p.src, p.uuid, p.index, p.total)}
    /\ resend_packet' = [resend_packet EXCEPT ![n] = {}]
    /\ send_index' = [send_index EXCEPT ![n] = @ + 1]
    /\ alarm' = [alarm EXCEPT ![n] = TRUE]
    /\ UNCHANGED <<is_tasking, resend_times, reported>>

\* Slip: alarm(0) is not followed by another alarm().
NextFragmentUntimed(n, p) ==
    /\ send_index[n] + 1 = p.index /\ p.index < p.total
    /\ LET q == DataTo(n, p.src, p.uuid, p.index, p.total)
       IN  /\ net' = net \union {q}
           /\ resend_packet' = [resend_packet EXCEPT ![n] = {q}]
    /\ send_index' = [send_index EXCEPT ![n] = @ + 1]
    /\ alarm' = [alarm EXCEPT ![n] = FALSE]
    /\ UNCHANGED <<is_tasking, resend_times, reported>>

\* The next fragment goes to whoever acknowledged, under the ack's own uuid.
NextFragment(n, p) ==
    /\ send_index[n] + 1 = p.index /\ p.index < p.total
    /\ LET q == DataTo(n, p.src, p.uuid, p.index, p.total)
       IN  /\ net' = net \union {q}
           /\ resend_packet' = [resend_packet EXCEPT ![n] = {q}]
    /\ send_index' = [send_index EXCEPT ![n] = @ + 1]
    /\ alarm' = [alarm EXCEPT ![n] = TRUE]
    /\ UNCHANGED <<is_tasking, resend_times, reported>>

\* Deleting _resend_data_packet a second time is undefined: the C library
\* aborts the process, or nothing visible happens.
DoubleFree(n) == resend_packet[n] = {}

HandleAck(n) ==
    /\ pc[n] = "ack"
    /\ \/ /\ \E p \in held[n] :
                StaleAck(n, p) \/ FinalAck(n, p) \/ NextFragment(n, p)
          /\ fault' = IF DoubleFree(n)
                      THEN [fault EXCEPT ![n] = @ \union {"double free"}]
                      ELSE fault
          /\ pc' = [pc EXCEPT ![n] = "idle"]
          /\ held' = [held EXCEPT ![n] = {}]
          /\ UNCHANGED <<send_data, target_ip, receiverVars>>
       \/ DoubleFree(n) /\ Boot(n) /\ UNCHANGED <<reported, net>>
    /\ UNCHANGED <<begun, resent, restarts, clock>>

-----------------------------------------------------------------------------
\* Slip: every packet allocates a buffer.
FreshBufferFor(n, p) == [i \in 0..(p.total - 1) |-> Garbage]

\* The buffer a data packet is stored into: index 0 always allocates.
BufferFor(n, p) ==
    IF p.index = 0 THEN [i \in 0..(p.total - 1) |-> Garbage]
    ELSE recv_data_map[n][p.uuid]

\* The memcpy into it.  A buffer allocated for a smaller total is overrun.
Overrun(n, p) == p.index \notin DOMAIN BufferFor(n, p)

Stored(n, p) ==
    [i \in DOMAIN BufferFor(n, p) |->
        IF i = p.index THEN p.chunk ELSE BufferFor(n, p)[i]]

\* merge_packet reads total * packet_len bytes, whatever was allocated.
Merged(b, k) == [i \in 0..(k - 1) |-> IF i \in DOMAIN b THEN b[i] ELSE Garbage]

AckFor(n, p) ==
    [type |-> "ack", src |-> n, dst |-> p.src, uuid |-> p.uuid,
     index |-> p.index + 1, total |-> p.total]

\* The main window hands a script to the database, and looks at no result.
AddSyncDatabase(n, script) ==
    executed' = [executed EXCEPT ![n] = Append(@, script)]

\* A uuid with a buffer, and an index within the packet's own total.
Acceptable(n, p) ==
    BufferFor(n, p) # NoBuffer /\ p.index \in 0..(p.total - 1)

\* recv_udp_data with data it cannot place: no answer.
IgnoreData(n, p) ==
    /\ ~Acceptable(n, p)
    /\ Consume(p, {})
    /\ UNCHANGED <<receiverVars, fault>>

\* ... and with data it can: store, execute on the last index, acknowledge.
StoreData(n, p) ==
    /\ Acceptable(n, p)
    /\ recv_data_map' = [recv_data_map EXCEPT ![n][p.uuid] = Stored(n, p)]
    /\ \/ p.index # p.total - 1 /\ UNCHANGED executed
       \/ /\ p.index = p.total - 1 /\ Len(executed[n]) < MaxExec
          /\ AddSyncDatabase(n, Merged(Stored(n, p), p.total))
    /\ fault' = IF Overrun(n, p)
                THEN [fault EXCEPT ![n] = @ \union {"overflow"}] ELSE fault
    /\ Consume(p, {AckFor(n, p)})

\* recv_udp_data for a fragment.  Only datagrams of this program are modelled:
\* one shorter than UDP_PACKET, for which the slot returns without reading it,
\* is never sent by it.
ReceiveData(n) ==
    /\ pc[n] = "idle"
    /\ \E p \in net :
        /\ p.type = "data" /\ p.dst = n
        /\ IgnoreData(n, p) \/ StoreData(n, p)
    /\ UNCHANGED <<senderVars, reported, begun, resent, restarts, clock>>

-----------------------------------------------------------------------------
\* A datagram is lost.
Lose ==
    /\ \E p \in net : net' = net \ {p}
    /\ UNCHANGED <<senderVars, receiverVars, historyVars, clock>>

\* A process is killed and started again.
Restart(n) ==
    /\ "restart" \in Env /\ restarts < MaxRestarts
    /\ Boot(n)
    /\ restarts' = restarts + 1
    /\ UNCHANGED <<reported, begun, resent, net, clock>>

\* A process whose heap was overrun may die at any later moment.
HeapCrash(n) ==
    /\ fault[n] # {}
    /\ Boot(n)
    /\ UNCHANGED <<reported, begun, resent, restarts, net, clock>>

\* What the user of n does; a machine no link begins at has no user.
User(n) ==
    /\ Targets(n) # {}
    /\ \/ \E m \in Targets(n) : BeginTask(n, m)
       \/ \E a \in Targets(n) \union {NoAddr} : RefuseTask(n, a)
       \/ \E a \in Node \union {NoAddr} : DetectNet(n, a)
       \/ StopTask(n)

Process(n) == BeginSend(n) \/ Timeout(n) \/ ReceiveAck(n) \/ HandleAck(n)
              \/ ReceiveData(n) \/ ProbeEnds(n)

Next == Lose \/ \E n \in Node : User(n) \/ Process(n) \/ Restart(n) \/ HeapCrash(n)

Spec == Init /\ [][Next]_vars

\* Every handler that has begun ends, the kernel delivers a scheduled SIGALRM,
\* and no datagram stays in flight for ever.
Fairness ==
    /\ \A n \in Node : /\ WF_vars(BeginSend(n) \/ HandleAck(n) \/ ProbeEnds(n))
                       /\ WF_vars(Timeout(n))
    /\ WF_vars(Lose \/ \E n \in Node : ReceiveAck(n) \/ ReceiveData(n))

FairSpec == Spec /\ Fairness

-----------------------------------------------------------------------------
\* The script of task t as the receiver should execute it.
Whole(t) == [i \in 0..(Size[t] - 1) |-> <<t, i>>]

\* Whenever SIGALRM can arrive, the packet it retransmits has not been
\* deleted: alarm_handler never reads freed memory, whatever datagrams are
\* lost, repeated or late and wherever the signal interrupts the main thread.
ResendBufferLive == \A n \in Node : alarm[n] => resend_packet[n] # {}

\* The packet SIGALRM retransmits is the fragment whose acknowledgement
\* moves the task on, also across stopped, refused and restarted tasks.
ResendIsAwaited ==
    \A n \in Node : \A p \in resend_packet[n] : p.index = send_index[n]

Placed(b) == \A i \in DOMAIN b : b[i] = Garbage \/ b[i][2] = i

\* A fragment is stored at its own place, in buffers and in what is executed,
\* even when two tasks share a uuid or stale acknowledgements mix two scripts.
FragmentsInPlace ==
    \A n \in Node :
        /\ \A u \in Uuid : Placed(recv_data_map[n][u])
        /\ \A j \in DOMAIN executed[n] : Placed(executed[n][j])

\* What add_sync_database executes is one user's script, from its first
\* fragment to its last, nothing missing and nothing mixed in.
DeliveredWhole ==
    \A n \in Node : \A j \in DOMAIN executed[n] :
        \E t \in 1..begun : executed[n][j] = Whole(t)

\* No packet is deleted twice and no buffer is written past its end.
NoHeapFault == \A n \in Node : fault[n] = {}

\* A task that has sent its first fragment has its timer running: no
\* acknowledgement stops the timer and leaves the task to wait for an answer
\* that nobody will ask for again, with the begin button refusing every other.
TimerRuns == \A n \in Node : is_tasking[n] => alarm[n] \/ pc[n] = "begin"

\* A task that begins ends: acknowledged to its last fragment, given up by
\* alarm_handler, or stopped.
TaskEnds == \A n \in Node : is_tasking[n] ~> ~is_tasking[n]

\* "Transferred" on the console means that the script has been executed.
SuccessMeansDelivered ==
    \A n \in Node : \A t \in reported[n] :
        \E m \in Node : \E j \in DOMAIN executed[m] : executed[m][j] = Whole(t)

-----------------------------------------------------------------------------
\* What a transfer promises its user, and how this module's state shows it.
Status(t) ==
    IF t > begun THEN "unborn"
    ELSE IF \E n \in Node : t \in reported[n] THEN "succeeded"
    ELSE IF \E n \in Node : is_tasking[n] /\ send_data[n] = t THEN "running"
    ELSE "failed"

Executions(t) ==
    {x \in Node \X (1..MaxExec) :
        x[2] \in DOMAIN executed[x[1]] /\ executed[x[1]][x[2]] = Whole(t)}

Service == INSTANCE TransferService WITH
    status <- [t \in Task |-> Status(t)],
    sends <- [t \in Task |-> IF t > begun THEN 0 ELSE 1 + resent[t]],
    runs <- [t \in Task |-> Cardinality(Executions(t))]

\* The protocol implements the service: a task succeeds only once its script
\* ran, and the script runs no more often than its task was transmitted.
ImplementsService == Service!Spec

=============================================================================
