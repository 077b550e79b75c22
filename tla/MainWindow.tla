----------------------------- MODULE MainWindow -----------------------------
(***************************************************************************)
(* The main window: the combo boxes, the configuration that creates the    *)
(* triggers, the sync button, and the timers that carry tasks out.  Its    *)
(* slots run one at a time on the Qt main thread, but between two of them  *)
(* users change the database, the user moves a combo box, the connection   *)
(* is lost or the program restarts, and the slots read all of that when    *)
(* they run, not when the task was started.                                *)
(*                                                                         *)
(* What a pass does to the tables and the text file is not looked at here: *)
(* that takes several steps others come between, and ChangeCapture has     *)
(* them.  A pass is the rows it adds to the log, from what the window      *)
(* shows while it runs.  Timers have no periods: one that runs fires at    *)
(* any time, so 1, 5 and 30 seconds are one frequency, and 5 and 10        *)
(* minutes are one.                                                        *)
(***************************************************************************)
EXTENDS Naturals, Sequences

CONSTANTS
    Table,          \* the tables whose changes may be published
    NoTable,        \* no table
    Env,            \* what may happen, a subset of Trouble
    MaxClicks,      \* bound: clicks on sync
    MaxTroubles     \* bound: times one of them happens

\* "refuse"  the database refuses a statement of add_trigger
\* "closed"  the connection cannot be opened
\* "restart" the program is killed and started again
\* "fiddle"  a combo box moves while a task is waiting or running
Trouble == {"refuse", "closed", "restart", "fiddle"}

ASSUME TableAssumption == NoTable \notin Table
ASSUME EnvAssumption == Env \subseteq Trouble
ASSUME BoundAssumption == MaxClicks \in Nat /\ MaxTroubles \in Nat

VARIABLES
    character,  \* comboBox_character: the identity
    mode,       \* comboBox_mode: the strategy
    items,      \* comboBox_freq: the frequencies it offers ...
    freq,       \* ... and the one it shows
    connected,  \* db: "none", "closed" or "open"
    dialog,     \* a configuration dialog of the source is open
    trigger,    \* per table, the triggers in the database
    data_send,  \* _n_d->_data_send: the table whose trigger text it holds
    pending,    \* single shots of syn_fun that have not fired
    timers,     \* per slot, the timers that run
    log,        \* the kinds of rows in SYSDBA.LOG
    clicks,     \* history: clicks on sync
    troubles,   \* history: times something of Env happened
    happened    \* history: which of it

combos == <<character, mode, items, freq>>
config == <<dialog, trigger, data_send>>
tasks == <<pending, timers>>
history == <<clicks, troubles, happened>>
vars == <<combos, connected, config, tasks, log, history>>

Character == {"source", "destination"}
Mode == {"subscribe", "publish"}
Freq == {"seconds", "once", "minutes", "listen"}
Operation == {"insert", "delete", "update"}
Slot == {"get_data", "get_data_transfer", "get_data_from_source"}
State == {"dingyue_create", "dingyue_update", "peizhi_create", "peizhi_fabu"}
LogRow == [state : State, mode : Mode, character : Character]

CombosTypeOK ==
    /\ character \in Character
    /\ mode \in Mode
    /\ items \in Seq(Freq)
    /\ freq \in Freq

ConfigTypeOK ==
    /\ connected \in {"none", "closed", "open"}
    /\ dialog \in BOOLEAN
    /\ trigger \in [Table -> SUBSET Operation]
    /\ data_send \in Table \union {NoTable}

TasksTypeOK == pending \in Nat /\ timers \in [Slot -> Nat]

LogTypeOK == log \subseteq LogRow

HistoryTypeOK ==
    /\ clicks \in 0..MaxClicks
    /\ troubles \in 0..MaxTroubles
    /\ happened \subseteq Trouble

TypeOK == CombosTypeOK /\ ConfigTypeOK /\ TasksTypeOK /\ LogTypeOK /\ HistoryTypeOK

Init ==
    /\ character = "source" /\ mode = "subscribe"
    /\ items = <<"seconds">> /\ freq = "seconds"
    /\ connected = "none"
    /\ dialog = FALSE /\ data_send = NoTable
    /\ trigger = [t \in Table |-> {}]
    /\ pending = 0 /\ timers = [s \in Slot |-> 0]
    /\ log = {}
    /\ clicks = 0 /\ troubles = 0 /\ happened = {}

-----------------------------------------------------------------------------
\* The surroundings make trouble.
Suffers(trouble) ==
    /\ trouble \in Env /\ troubles < MaxTroubles
    /\ troubles' = troubles + 1
    /\ happened' = happened \union {trouble}

Calm == UNCHANGED <<troubles, happened>>

\* A combo box moves, perhaps while a task is waiting or running.
Moving ==
    IF pending > 0 \/ \E s \in Slot : timers[s] > 0 THEN Suffers("fiddle") ELSE Calm

\* AttachChose: the frequencies for a new identity.
AttachChose(c, m) ==
    CASE c = "source" /\ m = "subscribe" -> <<"seconds">>
      [] c = "source" /\ m = "publish" -> <<"once", "minutes">>
      [] c = "destination" /\ m = "subscribe" -> <<"once", "minutes">>
      [] c = "destination" /\ m = "publish" -> <<"listen">>

\* Slip: for a new strategy, only the identity decides.
AttachChoseModeByIdentity(c, m) ==
    IF c = "source" THEN <<"seconds">> ELSE <<"once", "minutes">>

\* AttachChose_mode: the same for a new strategy, in code of its own.
AttachChoseMode(c, m) ==
    IF m = "subscribe"
    THEN IF c = "source" THEN <<"seconds">> ELSE <<"once", "minutes">>
    ELSE IF c = "source" THEN <<"once", "minutes">> ELSE <<"listen">>

\* Slip: the combo box is filled anew and shows no item.
OfferUnchosen(list) == items' = list /\ freq' = ""

\* The combo box is filled anew and shows its first item.
Offer(list) == items' = list /\ freq' = list[1]

ChooseCharacter(c) ==
    /\ c # character
    /\ character' = c
    /\ Offer(AttachChose(c, mode))
    /\ Moving
    /\ UNCHANGED <<mode, connected, config, tasks, log, clicks>>

ChooseMode(m) ==
    /\ m # mode
    /\ mode' = m
    /\ Offer(AttachChoseMode(character, m))
    /\ Moving
    /\ UNCHANGED <<character, connected, config, tasks, log, clicks>>

ChooseFreq(f) ==
    /\ \E i \in DOMAIN items : f = items[i]
    /\ freq' = f
    /\ UNCHANGED <<character, mode, items, connected, config, tasks, log, history>>

-----------------------------------------------------------------------------
\* The connect button: the data source is found and opens, or not; a default
\* connection that was open before is replaced either way.
Connect ==
    /\ \/ connected' = "open" /\ Calm
       \/ connected' = "closed" /\ Suffers("closed")
    /\ UNCHANGED <<combos, config, tasks, log, clicks>>

\* Every other button begins with db.open(), which opens the connection again.
Opens == connected # "none" /\ connected' = "open"

\* ... and returns with a message if that fails.
Unopened ==
    /\ connected # "none"
    /\ connected' = "closed" /\ Suffers("closed")
    /\ UNCHANGED <<combos, config, tasks, log, clicks>>

\* The details button opens a dialog where a source picks its tables.
OpenDialog ==
    /\ Opens
    /\ dialog' = (dialog \/ character = "source")
    /\ UNCHANGED <<combos, trigger, data_send, tasks, log, history>>

\* The triggers in place when the database refuses the schema or a trigger.
Refusals(t) == {trigger[t], trigger[t] \union {"insert"},
                trigger[t] \union {"insert", "delete"}}

\* Slip: the transfer is offered before the triggers are known to be in place.
AddTriggerOffersFirst(t) ==
    /\ dialog /\ connected = "open"
    /\ data_send' = t
    /\ \/ Calm /\ trigger' = [trigger EXCEPT ![t] = Operation]
       \/ /\ Suffers("refuse")
          /\ \E ops \in Refusals(t) : trigger' = [trigger EXCEPT ![t] = ops]
    /\ UNCHANGED <<combos, connected, dialog, tasks, log, clicks>>

\* add_trigger creates a trigger for each operation, gives up at the first
\* the database refuses, and offers the last one's text for transfer.  With
\* the connection closed it is refused at once, and nothing changes.
AddTrigger(t) ==
    /\ dialog /\ connected = "open"
    /\ \/ /\ Calm
          /\ trigger' = [trigger EXCEPT ![t] = Operation]
          /\ data_send' = t
       \/ /\ Suffers("refuse")
          /\ \E ops \in Refusals(t) : trigger' = [trigger EXCEPT ![t] = ops]
          /\ UNCHANGED data_send
    /\ UNCHANGED <<combos, connected, dialog, tasks, log, clicks>>

-----------------------------------------------------------------------------
\* add_log: a row has the strategy and the identity the window shows now.
Rows(states) ==
    IF connected' = "open"
    THEN {[state |-> s, mode |-> mode, character |-> character] : s \in states}
    ELSE {}

\* Log rows of the states, those a caller has logged before included.
Logs(states) == log' = log \union Rows(states)

\* get_data logs an update if it counts any rows in TEMP.
GetData(states) ==
    \E update \in SUBSET {"dingyue_update"} : Logs(states \union update)

\* get_data_transfer logs whatever it counts,
GetDataTransfer(states) == Logs(states \union {"peizhi_fabu"})

\* and so does get_data_from_source.
GetDataFromSource(states) == Logs(states \union {"dingyue_update"})

\* A timer is created; it runs if syn_fun knows the frequency.
StartTimer(slot, known, state) ==
    /\ timers' = [timers EXCEPT ![slot] = @ + (IF freq \in known THEN 1 ELSE 0)]
    /\ Logs({state})

\* Slip: a destination's create row has the other strategy's state.
SynFunSwapped ==
    \/ /\ character = "source" /\ mode = "subscribe"
       /\ StartTimer("get_data", {"seconds"}, "dingyue_create")
    \/ /\ character = "source" /\ mode = "publish"
       /\ IF freq = "once"
          THEN GetDataTransfer({"peizhi_create"}) /\ UNCHANGED timers
          ELSE StartTimer("get_data_transfer", {"minutes"}, "peizhi_create")
    \/ /\ character = "destination" /\ mode = "subscribe"
       /\ IF freq = "once"
          THEN GetDataFromSource({"peizhi_create"}) /\ UNCHANGED timers
          ELSE StartTimer("get_data_from_source", {"minutes"}, "peizhi_create")
    \/ /\ character = "destination" /\ mode = "publish"
       /\ Logs({"peizhi_create", "peizhi_fabu"}) /\ UNCHANGED timers

\* syn_fun, by what the combo boxes show when it runs.
SynFun ==
    \/ /\ character = "source" /\ mode = "subscribe"
       /\ StartTimer("get_data", {"seconds"}, "dingyue_create")
    \/ /\ character = "source" /\ mode = "publish"
       /\ IF freq = "once"
          THEN GetDataTransfer({"peizhi_create"}) /\ UNCHANGED timers
          ELSE StartTimer("get_data_transfer", {"minutes"}, "peizhi_create")
    \/ /\ character = "destination" /\ mode = "subscribe"
       /\ IF freq = "once"
          THEN GetDataFromSource({"dingyue_create"}) /\ UNCHANGED timers
          ELSE StartTimer("get_data_from_source", {"minutes"}, "dingyue_create")
    \/ /\ character = "destination" /\ mode = "publish"
       /\ Logs({"peizhi_create", "peizhi_fabu"}) /\ UNCHANGED timers

-----------------------------------------------------------------------------
\* The sync button: the task begins at once, or with a single shot.
Sync ==
    /\ clicks < MaxClicks
    /\ clicks' = clicks + 1
    /\ Opens
    /\ \/ SynFun /\ UNCHANGED pending
       \/ pending' = pending + 1 /\ UNCHANGED <<timers, log>>
    /\ UNCHANGED <<combos, config, troubles, happened>>

\* The single shot fires.
DelayedSync ==
    /\ pending > 0
    /\ pending' = pending - 1
    /\ UNCHANGED connected
    /\ SynFun
    /\ UNCHANGED <<combos, config, history>>

\* A timer fires.
Fires(slot) ==
    /\ timers[slot] > 0
    /\ UNCHANGED <<combos, connected, config, tasks, history>>

GetDataTimeout == Fires("get_data") /\ GetData({})
TransferTimeout == Fires("get_data_transfer") /\ GetDataTransfer({})
FromSourceTimeout == Fires("get_data_from_source") /\ GetDataFromSource({})

\* The program is killed and started again: the window is as Init says, and
\* the database with its triggers and its LOG is as it was.
Restart ==
    /\ Suffers("restart")
    /\ character' = "source" /\ mode' = "subscribe"
    /\ items' = <<"seconds">> /\ freq' = "seconds"
    /\ connected' = "none"
    /\ dialog' = FALSE /\ data_send' = NoTable
    /\ pending' = 0 /\ timers' = [s \in Slot |-> 0]
    /\ UNCHANGED <<trigger, log, clicks>>

User ==
    \/ \E c \in Character : ChooseCharacter(c)
    \/ \E m \in Mode : ChooseMode(m)
    \/ \E f \in Freq : ChooseFreq(f)
    \/ Connect \/ Unopened \/ OpenDialog \/ Sync
    \/ \E t \in Table : AddTrigger(t)

Timer == DelayedSync \/ GetDataTimeout \/ TransferTimeout \/ FromSourceTimeout

Next == User \/ Timer \/ Restart

Spec == Init /\ [][Next]_vars

-----------------------------------------------------------------------------
\* What the transfer window is given to send is the text of a table whose
\* three triggers are all in the database, however often add_trigger fails.
TriggersBeforeTransfer ==
    data_send # NoTable => trigger[data_send] = Operation

Running(slot) == timers[slot] > 0
Logged(c, state) == \E r \in log : r.character = c /\ r.state = state

\* A task the LOG shows as created is carried out: its timer runs or its one
\* pass was made, whatever way the combo boxes came to show what they do.
CarriedOut ==
    "restart" \notin happened =>
        /\ Logged("source", "dingyue_create") => Running("get_data")
        /\ Logged("source", "peizhi_create") =>
                Running("get_data_transfer") \/ Logged("source", "peizhi_fabu")
        /\ Logged("destination", "dingyue_create") =>
                \/ Running("get_data_from_source")
                \/ Logged("destination", "dingyue_update")
        /\ Logged("destination", "peizhi_create") => Logged("destination", "peizhi_fabu")

CreateOf(state) ==
    IF state \in {"dingyue_create", "dingyue_update"}
    THEN "dingyue_create" ELSE "peizhi_create"

\* Unless the combo boxes move while a task is open or the connection is
\* lost, every row has the create row of its own task beside it.
LogTellsTask ==
    happened \intersect {"fiddle", "closed"} = {} =>
        \A r \in log : [r EXCEPT !.state = CreateOf(@)] \in log

=============================================================================
