# database_sync: specifications, checks and proofs

`database_sync` is a Qt program that synchronises tables between databases. One binary plays every
role. A *source* puts triggers on tables, collects what they capture in `SYSDBA.TEMP`, moves it through
`SYSDBA.TRANSFER` into a text file, and can send the SQL script of a trigger to another machine over
UDP. A *destination* receives such a script and executes it, or reads the text file, and prints it. This directory
specifies that in TLA+, checks it with TLC on small instances, and proves some of it with TLAPS for all
instances. `PROJECT.json` lists the runs, the mutants, the theorems, and for every definition the source
lines it translates.

## 1. The system

| Component (source) | State | Operations | Talks to |
|---|---|---|---|
| UDP transfer (`netWindow`) | `_is_tasking`, `_send_index`, `_resend_times`, `_resend_data_packet`, `_ptr_send_data`, `_targetIp`, `_recv_data_map`, the SIGALRM timer | begin, stop, probe, `recv_udp_data`, `alarm_handler` | its peer by datagrams; the main window by a signal, `add_sync_database` |
| Change capture (`MainWindow::get_data`, `get_data_transfer`, `get_data_from_source`) | tables TEMP, TRANSFER, LOG; the text file | one pass per timeout | the database, the other program through the file |
| Scheduling (`MainWindow::syn_fun`, combo boxes, timers) | the combo boxes, pending single shots, running timers | choose, sync, timeouts | starts the passes |
| Triggers and dialogs (`add_trigger`, `source_dingyue`, `source_peizhi`, `destination_dingyue`) | triggers in the database, `_data_send` | one call per table the user picked | the database, the transfer window |
| Database connection (`on_pushButton_7_clicked`) | `db` | connect, reopen | everything that runs SQL |
| Speed test (`net_speed.cpp`, `common.cpp`) | two TCP streams, buffers, retries, `net_info` | `c_run`, `s_run` | called by the probe button |
| SQL rewriting (`delete_str`, `insert_str`, the triggers' text) | none | pure functions on strings | inside the passes |
| Condition monitor (`Dialog`, `condition_monitor`) | `connectLists`, `setPcNum` | paint, refresh | nothing feeds it; `condition_monitor` is a copy of `Dialog` that is never created |
| `TcpServer`, log viewers | their widgets | | `TcpServer` is never created; the viewers only read |

What makes it hard:

* **A signal handler shares the transfer's state.** `alarm_handler` runs between any two instructions of
  the Qt main thread and reads, sends and ends what `recv_udp_data` is about to change.
* **The network loses, repeats and delays datagrams**, and acknowledgements are matched by index only.
* **Nobody looks at results.** No pass looks at the result of a statement or of `open()`, so a pass goes
  on after a failure and deletes what it may not have copied.
* **Two programs and the database's users share tables and a file without a lock.**
* **The last hop is missing.** The destination's pass removes the file when it has read it, and executes nothing of it.
* **Slots read the window when they run**, not when the user clicked; timers outlive the settings they
  were made with and die with the program.
* **TCP calls block**: a receive has a timeout, a send has none, the server serves one client at a time; and
  the probe makes them on the Qt main thread, so that acknowledgements wait while SIGALRM retransmits.
* **SQL is rewritten as text**: values are found by the characters around them, and rows are told apart by
  what they contain.

For each component, what makes it correct:

* *Transfer*: success is announced only after the script was executed; a script runs no more often than
  its task was transmitted; what runs is one whole script; every task ends; retransmission never reads
  freed memory and always repeats the awaited fragment.
* *Capture*: no committed change is lost, repeated or reordered, whichever statement a kill, a failure
  or a concurrent commit falls on; every change is read in the end, and executed before its file is removed.
* *Scheduling and triggers*: what the log says was created is carried out; the log's rows belong
  together; a transfer is offered only when all triggers of the table exist.
* *Speed test*: the numbers shown are those of the test; a test runs only when the other side is ready;
  each probe ends and the server listens again.
* *Algorithms*: a rewritten statement repeats the change; fragments hold the whole script and nothing else
  is executed; the data source found is the one typed; a picked table exists.

`PROJECT.json` lists the hazards line by line, each with the properties that would notice it.

## 2. The modules

| Module | Models | Kind |
|---|---|---|
| `UdpTransfer` | `netWindow`, sender and receiver, with the network | component |
| `TransferService` | what a transfer promises its user | abstract specification |
| `MCUdpTransfer` | topologies and script sizes for TLC | instances |
| `UdpTransferProofs`, `TransferProofs` | | proofs |
| `ChangeCapture` | the passes of source and destination, statement by statement | component |
| `ChangeFeed` | what the text file of a subscription promises its reader | abstract specification |
| `ChangeCaptureProofs`, `FeedProofs` | | proofs |
| `MainWindow` | combo boxes, connection, triggers, sync button, timers; a pass is the log rows it adds | component |
| `MainWindowProofs` | | proofs |
| `SpeedTest` | the TCP probe, clients and server | component |
| `SpeedTestProofs` | | proofs |
| `SqlRewrite` | the triggers' text, `get_data`'s choice, `delete_str`, `insert_str` | pure algorithm |
| `Fragmentation` | fragment sizes, the cutting and merging of scripts, byte by byte | pure algorithm |
| `DsnSearch` | one round of the search of `/etc/odbc.ini` | loop |
| `TablePicker` | the boxes of the two dialogs that pick tables | dialog |
| `ConditionMonitor` | the picture of the machines | pure algorithm |
| `Algorithms` | runs each of these over sets of inputs, with what each should compute | specification, properties |
| `MCAlgorithms` | inputs for TLC | instances |
| `AlgorithmProofs`, `SearchProofs` | | proofs |

`UdpTransfer` implements `TransferService` and `ChangeCapture` implements `ChangeFeed`, both by an
`INSTANCE ... WITH` refinement mapping. `ChangeCapture` and `MainWindow` share the passes between
them: the first has one program per role, every statement, the tables and the file; the second has all of the window's
tasks, and of a pass only the rows it adds to the log, so that it claims nothing of the data, which takes several
statements with others between them. `UdpTransfer` and `Fragmentation` look at the same script at two grains: the
first has fragments as units and every order of messages, the second the bytes of a script and no messages.

### 2.1 UdpTransfer

The variables have the names of the fields of `netWindow` without the underscore; `pc` and `held` say
where the main thread is inside a handler, `net` is the set of datagrams in flight, `alarm` that a
SIGALRM is scheduled. A handler is one action except where the signal can see it half done:

* `BeginTask` / `BeginSend` are `on_bt_task_begin_clicked` before and after the window between
  `_is_tasking = 1` (netWindow.cpp:213) and `alarm()`; `RefuseTask` is its early return, which has
  replaced the address and the script by then;
* `ReceiveAck` / `HandleAck` are the acknowledgement branch of `recv_udp_data` before and after the
  window between the test of `_is_tasking` (:310) and `alarm(0)` (:312). `HandleAck` is `StaleAck`
  (another index: the timer is gone, the packet deleted), `FinalAck` or `NextFragment`, and a second
  acknowledgement finds the packet deleted (`DoubleFree`);
* `Timeout` is `alarm_handler`: `LateAlarm`, `GiveUp` or `Retransmit`;
* `ReceiveData` is the data branch: `IgnoreData` or `StoreData`, which stores, executes on the last
  index and acknowledges;
* `DetectNet` and `ProbeEnds` are the two ends of `on_bt_detect_net_clicked`: the first has assigned
  `_targetIp` and entered `c_run`, and until the second the main thread reads no datagram and runs no
  slot (`pc = "probe"`), while SIGALRM still comes; what happens inside is `SpeedTest`;
* `StopTask`, `Restart`, `Lose` and `HeapCrash` (the process dies after its heap was
  damaged) are what remains.

Data is abstract: a fragment is `<<task, index>>`, memory nobody wrote is `Garbage`. A deleted packet is the empty set.
The constant `Env` says which of `late`, `stop`, `detect`, `slowprobe`, `restart` and `samesecond` may happen. A
datagram shorter than `UDP_PACKET` (the early return at netWindow.cpp:271-273) is nothing this program sends. Without
`late` the network may lose but neither repeats nor lets a datagram outlive the timer (`Patient`); with `slowprobe` the
timer may fire while a probe holds an answer up.

### 2.2 ChangeCapture

`Commit` is a user's change with its trigger. The source's pass is `StartPass` (SELECT TEMP), `CopyRow`
per row, `LogPass` (count and log), `ClearTemp`, `OpenFile`, `WriteLine` per line, `CloseFile`, `ClearTransfer`; the
destination's is `ReaderOpen`, `ReaderRead`, `ReaderLog`, `ReaderRemove`. `Works` and `Fails` are the
two outcomes of a statement, with the same next one, because the code looks at neither; a file that cannot be opened has
no lines, and is removed all the same. The `QTextStream` hands lines to the file one at a time, at any moment between
`open()` and `close()`, which stands for every way its buffer may group whole lines; a line cut in two where the
buffer ends is not modelled. If the file was removed while the source had it open, the lines go with it (`handle`).
Kills leave the tables and the file.

The destination's loop (mainwindow.cpp:623-628, and its copy :736-741) prints and counts the lines: they are appended to
`printed`, the program's output, and `executed`, the changes that reached the destination's database, is never added to.
So every property of the pipeline except `ExecutedBeforeRemoved` is about what is *read*; none says that the destination's
database has anything.

The history variable `disturbed` records which of `busy`, `race`, `crash` and `error` has happened, so that a property can
say under what it holds; `Tolerated` is that nothing but kills has. `ChangeFeed`, the abstract specification, has a flag
for the contrary: until it is set prefixes of what was committed are read, afterwards there may be gaps, and never is
anything read that was not committed. `Mode` chooses `get_data` or `get_data_transfer`, which does not truncate the file.

### 2.3 MainWindow

`character`, `mode`, `items` and `freq` are the combo boxes. `ChooseCharacter` and `ChooseMode` are the two slots that
fill the frequency box, each with its own copy of the table in the code (`AttachChose`, `AttachChoseMode`). `Sync` is
the sync button and `DelayedSync` its single shot; both run `SynFun`, by what the boxes show then. `StartTimer` makes a
timer that runs only if `syn_fun` has a branch for the frequency. `GetDataTimeout`, `TransferTimeout` and
`FromSourceTimeout` are the timers' slots. `AddTrigger` is `add_trigger` for one table a dialog emitted, and stops at
any of the statements the database refuses. `Opens` and `Unopened` are the `db.open()` every button begins with.
`GetData`, `GetDataTransfer` and `GetDataFromSource` are the rows a pass adds to the log (`Logs`), which depend on the
boxes at that moment; `get_data` adds one only if it counts any change, and it may count any number. Between the trigger
and `_data_send`, `add_trigger` shows a message box, which lets timers run: nothing a timer does touches what
`add_trigger` still has to do, so that is one step. The lists of picked tables and addresses that the dialogs' slots
keep are written and never read, and are left out.

### 2.4 SpeedTest

A client goes through `c_run`: `SendCtrlMsg` and `CtrlMsgAnswer`/`CtrlMsgError` (`send_ctrl_msg`),
`ClientRx`/`ClientRxCut` (`run_rx_test`), `ClientTx` (`run_tx_test`), `ReceiveSummaryStats`; the server
through `Accept`, `Command`/`CommandEnds`, `SendAck`/`SendAckFails`, `ServerRx`/`ServerRxCut`, `ServerTx`,
`SendSummaryStats`. A packet of 1024 bytes is two parts, so that `recv` may return one of them: in
`send_ctrl_msg` that repeats the request and forgets the header, because its buffer is new each time,
and what the uninitialised header says is any type. The state `ends` says which ends of a connection are
open. `run_rx_test` closes the descriptor its caller goes on using; `Spins` is what becomes of the server
then. A send to a closed connection is lost or kills its sender by SIGPIPE, as nothing handles that.
There is no clock: a timeout is free when the other side has nothing to answer, and the trouble `slow`
when it has. `ReceiveSummaryStats` gives up at a timeout at once and at any other error (a reset, a closed
descriptor, a `recv` interrupted by SIGALRM) after the last retry. `Locked` says that client and server send to each other
and neither has room, `Stuck` that the server will never come back to `accept`; timeouts behind such a server are not
bounded, so that the bound on troubles ends no probe's retries early.

### 2.5 The algorithms

`Algorithms` applies each algorithm to each of a set of inputs (`Init` chooses one, `Next` has one action
per algorithm). The search of `/etc/odbc.ini` is a step for each line, as the loop has it, and a dialog a step for
each click, so that their properties are invariants of the loop and of the boxes; the others are one step each. The
inputs are constants: TLC is given small sets of them, the proofs know only their types.

* `SqlRewrite`: a text is a sequence of tokens: words, the characters some step looks for, and `"x"` for any
  other. `TempRow` is what the triggers put into TEMP, `Write` is `get_data`'s choice between `delete_str` and
  `insert_str`, `Literal` is what the database makes of the quoted text, and `Reference` the statements that
  would repeat the change. Indices are those of `QString`. `Survives` says exactly which changes come through, but for an
  inserted row that itself looks like a list of types (`FakesTypes`), which may be quoted rightly by accident; an access
  past the end of a list is `Undefined`.
* `Fragmentation`: the bytes of a script are numbers, and the memory behind it goes on counting.
  `isDigitStr`, `Read` and `ToInt` are the checks and the conversion of the typed size, `Spells` is what a decimal number
  is, digit by digit from the right, `Total`, `Fragment`, `Buffer` and `Executed` the arithmetic
  of `on_bt_task_begin_clicked`, `recv_udp_data` and `merge_packet`.
* `DsnSearch`: a line is what the loop looks for in it: a section, the keys whose words occur anywhere in it (a
  password may hold another key's), and what is after its `=`. `ReadLine` is one round, with the variables that no
  section resets, and `Searching` the loop's condition; `Defined` and `Backed` are what a user expects of the answer.
* `TablePicker`: `Clicks` has what the next click may make of the dialog; `AttachChose` runs only when the index of
  the first box changes, and is connected after that box has been filled.
* `ConditionMonitor`: `Rotated` is `360/n*i` in integers, `paintEvent` what one repaint draws and leaves.

## 3. What the runs check

All runs are listed with their properties in `PROJECT.json`; each property of a passing run has a
mutant, a slip in the code (a dropped guard, a missing reset) that the property notices.

| Run | Instance | Shows |
|---|---|---|
| `udp_two_sources` | two sources to one destination, two tasks of two fragments, two tries, losses, a restart; no late datagrams | `ImplementsService`, `TaskEnds`: on a patient network the transfer keeps its promise; `DeliveredWhole`, `NoHeapFault`: the uuid keeps two scripts apart; `TimerRuns`: a task that waits has its timer running |
| `udp_late` | one source, one destination, tasks of 2 and 1 fragments, with uuids of their own or one they share; late, repeated and reordered datagrams, stops, probes of other addresses, buffers overrun; at most two datagrams in flight, one execution | what survives even that: `TypeOK`, `ResendBufferLive`, `ResendIsAwaited`, `FragmentsInPlace` |
| `udp_hangs` | one task of two fragments, losses, a probe longer than the timer; no late datagrams | violates `TaskEnds` (below) |
| `udp_foreign_ack` | late datagrams | violates `SuccessMeansDelivered` |
| `capture` | two changes, a kill, a failing statement, commits during a pass, both programs in the file | `KeptUntilRead`, `AtMostOnce`, `InOrder`, `LogsAgree`, each under the disturbances it survives; `ImplementsFeed` under all of them; `AllRead` |
| `capture_discards`, `capture_loses`, `capture_stale` | no disturbance; commits during a pass; publishing | violate `ExecutedBeforeRemoved`, `MovedBeforeCleared`, `FreshFile` |
| `window` | two tables, three clicks, three of: refusal, lost connection, restart, moved combo box | `TriggersBeforeTransfer`, `CarriedOut`, `LogTellsTask` |
| `speed_test` | two clients, four packets a test, two tries, two of: late answer, partial read, killed client, killed server | `DownloadWhole`, `UploadHeard`, `StatsOnce`, `SendsAreRead`, `ProbeEnds`, `ServesOn` |
| `speed_spins` | the same, only a killed client | violates `ListensAgain` |
| `algorithms` | changes of one to three columns: of two with values of up to two tokens of thirteen, of three with a `=` in every place, of one and two that look like lists of types; scripts of up to nine bytes and sizes of up to three characters; 7 to 365 machines; files of two sections, passwords with a `[` or a key in them; dialogs with up to three tables picked in any number of clicks | `SurvivorsExactly`, `StrayOnlyIfMisled`, `FragmentsWhole`, `ExecutedExact`, `SentExactly`, `MachinesApart`, `FindsDefined`, `FoundIsBacked`, `PickedExists` |

**Bounds.** Two fragments are the least that have a first, a last and a wrong index; two tasks the least whose packets
can be confused; one execution is enough for `udp_late`, whose properties are about what is stored and retransmitted
before it. Two changes let one be committed before a pass and one during or after it, and be an earlier and a later line
of one file; the proofs have any number. Three clicks give two timers for one slot and one of the other side. In
`speed_test` the requests of a client fit into a connection (`2 * Retries <= Capacity`, as 10 KB do) and a whole test
does not (`MaxPkts + 1 > Capacity`, as 1 MB may not), so that blocking sends occur. `RetryLimit` is 5 in the code,
`MAXPKTS` 1000 and the retries of a request 5; smaller values have the same first, middle and last case. In `algorithms`
two columns are the least that have a value in front of another and one at the end, and one of them takes every sequence
of two tokens; `delete_str` looks for the next `=` a column at a time, so a value is tried against every later column of
three, and one token is the name of a type; `IntMax` 60, a header of 3 and a datagram of 20 bytes let texts of up to
three characters be numbers that overflow, that do not fit and that do, with zeros in front of them or without; 365
machines pass the 360 at which the angle becomes zero. `MaxExec` and `FewInFlight` only bound runs in which duplicates
would never stop.

**Fairness.** `UdpTransfer`: handlers that have begun end, the kernel delivers a scheduled SIGALRM, and a
datagram does not stay in flight for ever. That a probe, which is part of a handler there, ends is an assumption.
`ProbeEnds` of `SpeedTest` justifies it for packets that are read whole and as long as client and server are not sending to
each other (`Locked`); where they are, the program hangs in `send`, and the task with it. Nothing is assumed of users.
`ChangeCapture`: a pass goes on, and timers come again, so a reader or writer that finds the file in use at one timeout
does not always do so (strong fairness of opening it). `MainWindow` has no liveness property and assumes nothing.
`SpeedTest`: both programs go on when they can; nobody has to probe or to quit.

**What the properties of the speed test leave out.** `ProbeEnds` holds with late answers, repeated requests, a server that
is busy with another client, stuck or killed, and killed clients; it counts as an end that `send_ctrl_msg` ends the whole
program with `exit(1)` (net_speed.cpp:61), excludes packets read in parts, and has the one exception it names, that both
sides send for ever. `UploadHeard`, `StatsOnce` and `SendsAreRead` (`InOrder`) hold while no recv times out early and none
returns part of a packet, so one connection has one test of each kind; `DownloadWhole` holds with repeated requests too.

**Deadlock** is not checked: all of these systems may stop, when no task runs and no user acts. That a
task, a probe or a server does not stop half-way is what the liveness properties say.

## 4. What the violations show

* `udp_hangs`: an acknowledgement that is a duplicate cancels the timer and deletes the packet before
  its index is compared (netWindow.cpp:312-315). The program makes such a duplicate itself: while a probe
  blocks the main thread (:170) the acknowledgement waits in the socket, SIGALRM retransmits the fragment, and
  the peer acknowledges it again. If the next fragment is lost, the task is neither retransmitted nor ended.
* `udp_foreign_ack`: acknowledgements are matched by index, not by uuid (:314). A late one of a finished
  task makes the next one "传输成功" though nothing of it arrived.
* `capture_discards`: `get_data_from_source` prints and counts each line and removes the file (mainwindow.cpp:623-633), and
  so does its copy for publishing (:736-746). Nothing is handed to the database, although the comments say it is
  (:616, :631, :728-729). As the source has cleared both its tables by then, a change that has been through an undisturbed
  pass of each program is nowhere any more. The other properties of the pipeline stop at reading, so that they say what
  the code would deliver if that loop executed its lines.
* `capture_loses`: `DELETE SYSDBA.TEMP` (mainwindow.cpp:528) also deletes rows committed since the SELECT.
* `capture_stale`: the file is opened ReadWrite without truncation (:598); a shorter batch keeps the tail of
  a longer one.
* `speed_spins`: a client killed in its upload makes `run_rx_test` close the descriptor; `process_ctr_msg`
  treats the EBADF of its next `recv` as a passing error and calls it again for ever (net_speed.cpp:331).

Two limits that passing runs state rather than violate. `SurvivorsExactly`: a deleted or updated row does not reach the
file as the statement that repeats it if a quoted value has a blank in it, as every TIMESTAMP has, while the same row is
inserted correctly; nor if a `=` near the end of a value has a text in some later column behind it. `FindsDefined` and
its condition `WellFormed`: a password with a `[` is taken for a section and one with a `=` is cut, so such a data
source cannot be opened from the window while the file is there.

Not a run, for its task needs three fragments and two probes: a probe also assigns `_targetIp` (netWindow.cpp:159) while a
task runs, and `alarm_handler` retransmits to it (:77). A fragment in the middle can so reach the probed machine alone, if
that runs the program, and the destination executes a script with a hole and has it reported as transferred.

## 5. What is proved

Every theorem holds for all values of the constants that satisfy the modules' `ASSUME`s (finite bounds
are natural numbers, of any size).

| Theorem | Says | Argument |
|---|---|---|
| `UdpTransferProofs!TypeCorrect` | `TypeOK` | `TypeOK` alone is not inductive: `BeginSend` builds packets from the address and script a task began with, so the invariant adds that in the `begin` window these are set, and that a node with a task under way has one (`BegunWell`) |
| `ResendBufferIsLive`, `ResendIsTheAwaited` | SIGALRM never retransmits a deleted packet, and what it retransmits is the awaited fragment | `ResendInv`: the conjunction of the two, inductive as it stands. Stale acknowledgements delete the packet only after cancelling the timer; the one place that keeps an old packet, a task that is beginning, resets the index |
| `FragmentsStayInPlace` | fragments are stored and executed at their own index | needs that packets are truthful (`PacketsTruthful`): the chunk of every data packet in flight or kept for retransmission is that of its index |
| `WaitingIsTimed`, `PacketDeletedOnce` | if nothing is slower than the timer (`InTime`: no `late`, no `slowprobe`), `TimerRuns`, and the packet kept for retransmission is never deleted twice | `WaitInv`, below |
| `BuffersNotOverrun` | unless two tasks begin within one second, no fragment is written outside its buffer, even with late datagrams | `SizeInv`: whatever carries a uuid (a datagram, the kept packet, the acknowledgement being handled, a buffer) agrees on the number of fragments, and the next second's uuid is not in use |
| `HeapSound` | under both conditions, `NoHeapFault`, also while other addresses are probed | `WaitInv` and `SizeInv` |
| `TransferProofs!ScriptsWhole`, `HeapUnharmed`, `SuccessIsDelivery` | on a patient network, `DeliveredWhole`, `NoHeapFault`, `SuccessMeansDelivered` | `WholeInv`, below |
| `TransferServes` | on a patient network, `ImplementsService` | each step maps to a step of `TransferService` or a stutter, from `WholeInv` and `ServiceInv`, below |
| `ChangeCaptureProofs!TypeCorrect` | `TypeOK` | inductive as it is |
| `KillsLoseNothing` | `KeptUntilRead` | `StreamInv`: between `open()` and `close()` what the stream has handed over is in the file, unless that was removed. `KeepInv`: while nothing but kills has happened, the rows still to copy and those in TRANSFER cover TEMP when it is cleared (`Copied`), the file and what was read cover TRANSFER when that is, and what is in the file was read and counted before the reader logs it and removes it |
| `FeedProofs!SubscriptionFeeds` | in subscription, `ImplementsFeed` | each step maps to a commit, a batch, a fault or a stutter. Needs `CommittedOnly`, that whatever is anywhere was committed, and `PrefixInv`: while nothing but kills has happened, what was read, with the file, and with TRANSFER too, is each a prefix of what was committed, and TEMP, the rows still to copy and the lines still to write each continue it (`Led`); with `KeepInv`, deleting a copy changes none of these sets |
| `NothingTwice` | `AtMostOnce` | `FlowInv`: at each statement, what the reader has, the file, TRANSFER and TEMP increase and follow each other, except for the one that has a copy and is about to be deleted |
| `ReplayInOrder` | `InOrder` | `OrderInv`: kills repeat and races lose, so no stage is increasing or complete; but each is in order, repetitions aside (`NewLater`), and what it would add to a later stage is after all of it (`Follows`), which survives the loss of that stage |
| `LogsCountAlike` | `LogsAgree` | `CountInv`: the two logs differ by the lines of TRANSFER and of the file between their statements |
| `WindowTypeCorrect` | `TypeOK` | inductive; `SynFunEffect` collects what each branch may change |
| `WindowTriggersFirst` | `TriggersBeforeTransfer` | inductive with `TypeOK`: `Refusals` never removes a trigger |
| `WindowOffersMatch` | the frequency box offers what identity and strategy call for | both slots compute the same table |
| `WindowCarriesOut` | `CarriedOut` | needs `OffersMatch`: only then does each branch of `syn_fun` know the frequency (`KnownFrequency`) and start the timer whose creation it logs |
| `WindowLogTells` | `LogTellsTask` | `TasksShown`: while nobody moved a box under a task and the connection stayed, every timer that waits or runs is that of the identity and strategy the boxes show, and the row that created it is in the log. A timer's pass writes its rows by what the boxes show then, so that row is their create row; a restart ends the timers and keeps the log |
| `SpeedTestProofs!SpeedTypeCorrect` | `TypeOK` | `ConnectionInv`: the server has a connection exactly while it serves one, with a client that has begun, and what is queued has too; only then is each field of the type it is read as |
| `SpeedDownloadWhole` | `DownloadWhole` | `WholeInv`: while no recv is cut short, both streams hold whole packets and no buffer half of one. `AnswerInv`: what the server sent to a client that still downloads, counting what it has read, is the start of one answer, an acknowledgement and the packets of one test, although a request may have been repeated and another answer follows |
| `SpeedUploadHeard`, `SpeedStatsOnce` | `UploadHeard`, `StatsOnce` | `LockstepInv`: while no recv times out early either, each connection is at one of a few places of the conversation (`Downloading`, `Uploading`, `Through`): one request or its answer is under way, never both, and the server is where that request led it. The text of an upload then is the null pointer until it is measured, and there until its statistics are sent (`TextInv`) |
| `SpeedSendsRead` | `SendsAreRead` | `AttendInv`, on top of `LockstepInv`: from the acknowledgement of its upload on the server stays with a client (`Attended`), and one that waits for statistics or has ended has no request left that would start another test. So a side that sends has the other one reading, and the sends, which have no timeout, do not wait for each other, for any `Capacity` |
| `EveryScriptWhole`, `TasksSendWhole` | `FragmentsWhole` | `TotalCovers`: `Total` is the least number of fragments that hold the script, and `BufferIsMemory`: what is stored at a place is the byte of that place |
| `EveryScriptExact`, `TasksExecuteExact` | `ExecutedExact` | what is executed is the buffer up to the NUL, and its length decides whether it is the script |
| `TasksSendExactly` | `SentExactly` | `UsableSize`, from `SpellsIsRead`: for texts of any length, reading digits from the left gives `x` exactly if taking them off `x` from the right spells the text. Both are recursive functions (`ReadSteps`, `SpellsSteps`); they meet at every place of the text, which is an induction by the least place where they would not (`LeastNumber`, from the library's well-foundedness of `<`, which takes no operator as a parameter) |
| `MachinesPaintedApart` | `MachinesApart` | `AnglesApart`: `360 \div n` is positive exactly up to 360 |
| `SearchProofs!SearchFindsBacked` | `FoundIsBacked` | `LoopInv`, its part `Tells`: `record` says whether the last line read is in a section of the name typed, and each value and the localhost flag come from a line of such a section |
| `SearchFindsDefined` | `FindsDefined` | `LoopInv`, the rest of it: in a well-formed file what the section said is kept to its end (`Keeps`), and until the source is found some key of each section is still missing or another (`Misses`) |
| `PickedTablesExist` | `PickedExists` | `DialogInv`: the table box holds the tables of the pattern shown, or nothing as long as the user has not left the first pattern, and shows one of them |

**The timer of the transfer.** `WaitInv` is about the order of events alone: around a task, in flight or being handled,
there is at most one datagram, and none while its node begins it; that datagram is the fragment the node waits for, or its
acknowledgement, whoever it was sent to; and a task that has begun has its timer running. The acknowledgement a handler
holds is therefore never stale, so `alarm(0)` (netWindow.cpp:312) is always followed by the next fragment's `alarm()` or by
the end of the task, and the packet is there to be deleted. Nothing is assumed of uuids, stops, restarts, the addresses
probed or the number of nodes. `InTime` is needed: `udp_hangs` is a slow probe, and a late acknowledgement does the same.

**The transfer on a patient network.** `PatientNetwork` says of `Env` that it has no `late`, `detect` or `samesecond`;
losses, retransmissions, stops, restarts, any number of nodes, tasks and fragments remain. Each of the three is needed:
`udp_foreign_ack` is what the first does, a probe sends retransmissions elsewhere (section 4), and two tasks of one
second share the uuid by which a receiver tells scripts apart. The conclusion does not follow from the types, because
nothing in the code links an acknowledgement to the fragment it answers but the order of events. `WholeInv` is that
link:

* a task has at most one datagram under way, and none while its node begins one or handles an acknowledgement
  (`StopAndWait`), and that is what it sent last or its acknowledgement (`KeepsSent`);
* tasks that are under way have different uuids (`UuidInv`), so no other task writes into their buffer;
* when a fragment arrives its predecessors are in the buffer, or the buffer is gone with its process (`Filled`), and a
  fragment that is not the first is then dropped (`IgnoreData`); so what the last fragment completes is `Whole`;
* the acknowledgement of a last fragment comes after its execution (`AckedRan`), so success means delivery.

`ServiceInv` adds what counting needs: a task is one node's (`ApartInv`); tasks not begun have no history
(`HistoryInv`); and a script has run no more often than its task was transmitted, once less while its last fragment is
under way, and never before that is sent (`CountInv`).

**Only model-checked.** The liveness properties (`TaskEnds`, `AllRead`, `ProbeEnds`, `ServesOn`), since
TLAPS proves neither liveness under fairness nor facts about `ENABLED`. `TimerRuns` and `SendsAreRead` are the safety that
two of them rest on, and are proved. `SurvivorsExactly` and `StrayOnlyIfMisled`: `SqlRewrite` folds over the tokens of a
text with a dozen operators, and what each computes for every input would take an induction of its own like the one of
`SpellsIsRead`, without the library's induction theorems, which the installed provers cannot instantiate. No
module that is proved about declares a RECURSIVE operator.

## 6. What is not modelled

* The width of the triggers' CHAR(128) and CHAR(256) and of TEMP's VARCHAR(128): what becomes of a longer text is the
  database's rule, not this code's.
* The SIGUSR1 / message queue path of `netWindow` and its tcp slots: nothing sends on the queue and nothing is
  connected to the slots.
* `s_t_start`: nothing calls it; `s_run` is modelled as a server of its own.
* `alarm_handler`'s use of a text box, a stream and `malloc` in a signal handler: undefined, and not this code's.
* Datagrams shorter than `UDP_PACKET` (netWindow.cpp:271-273), which this program does not send, and lines of the text file
  cut in two where the stream's buffer ends.
* What becomes of lines that are read: nothing does (`capture_discards`).
* Periods of timers, and 5分钟后同步 being 5 seconds (mainwindow.cpp:815). The destination of published data reads the
  file once, although its frequency is 持续监听 (:731): there is no listening to model.
* The users' addresses the dialogs collect, and their validators: the lists are written and never read.
* The log viewers, which only read; `TcpServer`, which is never created; `main`.

## 7. Plan

1. `UdpTransfer` with its abstract specification, `ChangeCapture` with its own, `MainWindow`, `SpeedTest`: done.
2. The algorithms, the probe inside `UdpTransfer`, `ChangeFeed` under every disturbance: done.
3. A composition of `ChangeCapture` and `MainWindow` was considered and left: timers of one window do not interleave
   inside a pass, since all of them run on one thread and a pass opens no event loop, and two programs in one
   file are in `ChangeCapture` already. `MainWindow` therefore has no data at all.
4. Proofs of every safety property of the four components, and of both refinements: done.
5. Proofs about the search of `/etc/odbc.ini` and the dialogs, as loops rather than folds, and about what keeps the timer,
   the heap and the sends of a probe alive: done.
6. Left: `TransferService` under probes of the task's own address, which change nothing in where fragments go; a line cut in
   two by the stream's buffer and read before its other half; and the two properties of `SqlRewrite`, which would take
   induction over texts.
