-------------------------- MODULE MainWindowProofs --------------------------
(***************************************************************************)
(* What MainWindow keeps invariant whatever the tables, the troubles and   *)
(* the bounds are.  TypeOK is inductive by itself; the triggers need only  *)
(* TypeOK beside them.  CarriedOut needs to know that the frequency combo  *)
(* box never shows an item syn_fun has no branch for, which is             *)
(* OffersMatch; LogTellsTask that the tasks of an undisturbed window are   *)
(* those its combo boxes show, which is TasksShown.                        *)
(***************************************************************************)
EXTENDS MainWindow, TLAPS

\* The combo box offers what the identity and the strategy call for, and
\* shows one of its items.
OffersMatch ==
    /\ items = AttachChose(character, mode)
    /\ \E i \in DOMAIN items : freq = items[i]

\* What a slot does to the log.
LogGrows == LogTypeOK' /\ log \subseteq log'

-----------------------------------------------------------------------------
(* The pieces the slots are made of.                                       *)

\* add_log writes rows of the log's type.
LEMMA RowsTyped ==
    ASSUME TypeOK, NEW S, S \subseteq State
    PROVE  Rows(S) \subseteq LogRow
BY DEF Rows, LogRow, TypeOK, CombosTypeOK

LEMMA LogsEffect ==
    ASSUME TypeOK, NEW S, S \subseteq State, Logs(S)
    PROVE  LogGrows
BY RowsTyped DEF Logs, LogGrows, TypeOK, LogTypeOK

\* So does each kind of pass.
LEMMA PassEffect ==
    ASSUME TypeOK, NEW S, S \subseteq State,
           GetData(S) \/ GetDataTransfer(S) \/ GetDataFromSource(S)
    PROVE  LogGrows
<1>1. CASE GetData(S)
  <2>1. PICK update \in SUBSET {"dingyue_update"} : Logs(S \union update)
    BY <1>1 DEF GetData
  <2>2. S \union update \subseteq State
    BY DEF State
  <2> QED
    BY <2>1, <2>2, LogsEffect
<1>2. CASE GetDataTransfer(S)
  <2>1. S \union {"peizhi_fabu"} \subseteq State
    BY DEF State
  <2> QED
    BY <1>2, <2>1, LogsEffect DEF GetDataTransfer
<1>3. CASE GetDataFromSource(S)
  <2>1. S \union {"dingyue_update"} \subseteq State
    BY DEF State
  <2> QED
    BY <1>3, <2>1, LogsEffect DEF GetDataFromSource
<1> QED
  BY <1>1, <1>2, <1>3

\* A new timer leaves the others alone.
LEMMA StartTimerEffect ==
    ASSUME TypeOK, NEW slot \in Slot, NEW known, NEW state \in State,
           StartTimer(slot, known, state)
    PROVE  /\ LogGrows
           /\ timers' \in [Slot -> Nat]
           /\ \A s \in Slot : timers'[s] >= timers[s]
<1>1. LogGrows
  BY LogsEffect DEF StartTimer
<1>2. /\ timers' \in [Slot -> Nat]
      /\ \A s \in Slot : timers'[s] >= timers[s]
  BY DEF StartTimer, TypeOK, TasksTypeOK
<1> QED
  BY <1>1, <1>2

\* syn_fun starts a timer or makes a pass.
LEMMA SynFunEffect ==
    ASSUME TypeOK, SynFun
    PROVE  /\ LogGrows
           /\ timers' \in [Slot -> Nat]
           /\ \A s \in Slot : timers'[s] >= timers[s]
<1> USE DEF SynFun
<1>1. /\ {"peizhi_create"} \subseteq State
      /\ {"dingyue_create"} \subseteq State
      /\ {"peizhi_create", "peizhi_fabu"} \subseteq State
      /\ "peizhi_create" \in State /\ "dingyue_create" \in State
      /\ "get_data" \in Slot /\ "get_data_transfer" \in Slot
      /\ "get_data_from_source" \in Slot
  BY DEF State, Slot
<1>2. /\ timers \in [Slot -> Nat]
      /\ \A s \in Slot : timers[s] >= timers[s]
  BY DEF TypeOK, TasksTypeOK
<1>3. CASE \/ StartTimer("get_data", {"seconds"}, "dingyue_create")
           \/ StartTimer("get_data_transfer", {"minutes"}, "peizhi_create")
           \/ StartTimer("get_data_from_source", {"minutes"}, "dingyue_create")
  BY <1>1, <1>3, StartTimerEffect
<1>4. CASE GetDataTransfer({"peizhi_create"}) /\ UNCHANGED timers
  BY <1>1, <1>2, <1>4, PassEffect
<1>5. CASE GetDataFromSource({"dingyue_create"}) /\ UNCHANGED timers
  BY <1>1, <1>2, <1>5, PassEffect
<1>6. CASE Logs({"peizhi_create", "peizhi_fabu"}) /\ UNCHANGED timers
  BY <1>1, <1>2, <1>6, LogsEffect
<1> QED
  BY <1>3, <1>4, <1>5, <1>6

-----------------------------------------------------------------------------
(* Type correctness.                                                       *)

\* Both slots that fill the combo box offer the same items, and so leave it
\* with one of them shown.
LEMMA OfferMatches ==
    ASSUME NEW c \in Character, NEW m \in Mode,
           Offer(AttachChose(c, m)) \/ Offer(AttachChoseMode(c, m))
    PROVE  /\ items' = AttachChose(c, m)
           /\ items' \in Seq(Freq)
           /\ freq' \in Freq
           /\ \E i \in DOMAIN items' : freq' = items'[i]
<1>1. AttachChoseMode(c, m) = AttachChose(c, m)
  BY DEF AttachChoseMode, AttachChose, Character, Mode
<1>2. \/ AttachChose(c, m) = <<"seconds">>
      \/ AttachChose(c, m) = <<"once", "minutes">>
      \/ AttachChose(c, m) = <<"listen">>
  BY DEF AttachChose, Character, Mode
<1>3. /\ <<"seconds">> \in Seq(Freq) /\ <<"seconds">>[1] \in Freq
      /\ <<"once", "minutes">> \in Seq(Freq) /\ <<"once", "minutes">>[1] \in Freq
      /\ <<"listen">> \in Seq(Freq) /\ <<"listen">>[1] \in Freq
  BY DEF Freq
<1>4. /\ 1 \in DOMAIN <<"seconds">> /\ 1 \in DOMAIN <<"listen">>
      /\ 1 \in DOMAIN <<"once", "minutes">>
  OBVIOUS
<1>5. items' = AttachChose(c, m) /\ freq' = AttachChose(c, m)[1]
  BY <1>1 DEF Offer
<1> QED
  BY <1>2, <1>3, <1>4, <1>5

\* The window starts in a state of the right type.
LEMMA TypeInit == Init => TypeOK
<1> SUFFICES ASSUME Init PROVE TypeOK
  OBVIOUS
<1> USE DEF Init
<1>1. CombosTypeOK
  BY DEF CombosTypeOK, Character, Mode, Freq
<1>2. ConfigTypeOK
  BY DEF ConfigTypeOK
<1>3. TasksTypeOK /\ LogTypeOK
  BY DEF TasksTypeOK, LogTypeOK
<1>4. HistoryTypeOK
  BY BoundAssumption DEF HistoryTypeOK
<1> QED
  BY <1>1, <1>2, <1>3, <1>4 DEF TypeOK

\* Trouble is counted up to its bound.
LEMMA TroubleTyped ==
    ASSUME TypeOK, Calm \/ \E t \in Trouble : Suffers(t)
    PROVE  troubles' \in 0..MaxTroubles /\ happened' \subseteq Trouble
BY BoundAssumption DEF TypeOK, HistoryTypeOK, Calm, Suffers

\* What the user does to the window.
LEMMA CombosStep ==
    ASSUME TypeOK,
           \/ \E c \in Character : ChooseCharacter(c)
           \/ \E m \in Mode : ChooseMode(m)
           \/ \E f \in Freq : ChooseFreq(f)
    PROVE  TypeOK'
<1>1. ASSUME NEW c \in Character, ChooseCharacter(c) PROVE TypeOK'
  <2>1. CombosTypeOK'
    BY <1>1, OfferMatches DEF ChooseCharacter, TypeOK, CombosTypeOK
  <2>2. HistoryTypeOK'
    BY <1>1, TroubleTyped DEF ChooseCharacter, Moving, Trouble, TypeOK, HistoryTypeOK
  <2> QED
    BY <1>1, <2>1, <2>2 DEF ChooseCharacter, config, tasks, TypeOK,
       ConfigTypeOK, TasksTypeOK, LogTypeOK
<1>2. ASSUME NEW m \in Mode, ChooseMode(m) PROVE TypeOK'
  <2>1. CombosTypeOK'
    BY <1>2, OfferMatches DEF ChooseMode, TypeOK, CombosTypeOK
  <2>2. HistoryTypeOK'
    BY <1>2, TroubleTyped DEF ChooseMode, Moving, Trouble, TypeOK, HistoryTypeOK
  <2> QED
    BY <1>2, <2>1, <2>2 DEF ChooseMode, config, tasks, TypeOK,
       ConfigTypeOK, TasksTypeOK, LogTypeOK
<1>3. ASSUME NEW f \in Freq, ChooseFreq(f) PROVE TypeOK'
  BY <1>3 DEF ChooseFreq, config, tasks, history, TypeOK, CombosTypeOK,
     ConfigTypeOK, TasksTypeOK, LogTypeOK, HistoryTypeOK
<1> QED
  BY <1>1, <1>2, <1>3

\* What the other buttons and the dialogs do to the connection, the triggers
\* and what is to be transferred.
LEMMA ConfigStep ==
    ASSUME TypeOK,
           \/ Connect \/ Unopened \/ OpenDialog
           \/ \E t \in Table : AddTrigger(t)
    PROVE  TypeOK'
<1>1. CASE Connect \/ Unopened
  <2>1. connected' \in {"none", "closed", "open"}
    BY <1>1 DEF Connect, Unopened
  <2>2. HistoryTypeOK'
    BY <1>1, TroubleTyped DEF Connect, Unopened, Trouble, TypeOK, HistoryTypeOK
  <2> QED
    BY <1>1, <2>1, <2>2 DEF Connect, Unopened, combos, config, tasks, TypeOK,
       CombosTypeOK, ConfigTypeOK, TasksTypeOK, LogTypeOK
<1>2. CASE OpenDialog
  BY <1>2 DEF OpenDialog, Opens, combos, tasks, history, TypeOK,
     CombosTypeOK, ConfigTypeOK, TasksTypeOK, LogTypeOK, HistoryTypeOK
<1>3. ASSUME NEW t \in Table, AddTrigger(t) PROVE TypeOK'
  <2>1. trigger' \in [Table -> SUBSET Operation]
    <3>1. ASSUME NEW ops \in Refusals(t) PROVE ops \subseteq Operation
      BY DEF Refusals, Operation, TypeOK, ConfigTypeOK
    <3> QED
      BY <1>3, <3>1 DEF AddTrigger, TypeOK, ConfigTypeOK
  <2>2. data_send' \in Table \union {NoTable}
    BY <1>3 DEF AddTrigger, TypeOK, ConfigTypeOK
  <2>3. HistoryTypeOK'
    BY <1>3, TroubleTyped DEF AddTrigger, Trouble, TypeOK, HistoryTypeOK
  <2> QED
    BY <1>3, <2>1, <2>2, <2>3 DEF AddTrigger, combos, tasks, TypeOK,
       CombosTypeOK, ConfigTypeOK, TasksTypeOK, LogTypeOK
<1> QED
  BY <1>1, <1>2, <1>3

\* Of a step that makes a pass, the effect is all that has to be typed.
LEMMA PassTyped ==
    ASSUME TypeOK, LogGrows,
           timers' \in [Slot -> Nat], pending' \in Nat,
           UNCHANGED <<combos, config, troubles, happened>>,
           connected' \in {"none", "closed", "open"},
           clicks' \in 0..MaxClicks
    PROVE  TypeOK'
BY DEF LogGrows, TypeOK, combos, config, CombosTypeOK, ConfigTypeOK, TasksTypeOK,
   HistoryTypeOK

\* The sync button and its single shot.
LEMMA SyncStep == ASSUME TypeOK, Sync \/ DelayedSync PROVE TypeOK'
<1>1. CASE Sync /\ SynFun /\ UNCHANGED pending
  <2>1. clicks' \in 0..MaxClicks /\ connected' = "open" /\ pending' \in Nat
    BY <1>1, BoundAssumption DEF Sync, Opens, TypeOK, HistoryTypeOK, TasksTypeOK
  <2> QED
    BY <1>1, <2>1, SynFunEffect, PassTyped DEF Sync
<1>2. CASE Sync /\ pending' = pending + 1 /\ UNCHANGED <<timers, log>>
  <2>1. clicks' \in 0..MaxClicks
    BY <1>2, BoundAssumption DEF Sync, TypeOK, HistoryTypeOK
  <2> QED
    BY <1>2, <2>1 DEF Sync, Opens, combos, config, TypeOK, CombosTypeOK,
       ConfigTypeOK, TasksTypeOK, LogTypeOK, HistoryTypeOK
<1>3. CASE DelayedSync
  <2>1. /\ pending' \in Nat /\ clicks' \in 0..MaxClicks
        /\ connected' \in {"none", "closed", "open"}
    BY <1>3 DEF DelayedSync, history, TypeOK, ConfigTypeOK, TasksTypeOK, HistoryTypeOK
  <2> QED
    BY <1>3, <2>1, SynFunEffect, PassTyped DEF DelayedSync, history
<1> QED
  BY <1>1, <1>2, <1>3 DEF Sync

\* The timers.
LEMMA TimeoutStep ==
    ASSUME TypeOK, GetDataTimeout \/ TransferTimeout \/ FromSourceTimeout
    PROVE  TypeOK' /\ LogGrows
<1>1. LogGrows
  BY PassEffect
     DEF GetDataTimeout, TransferTimeout, FromSourceTimeout, State
<1>2. /\ UNCHANGED <<combos, config, troubles, happened>>
      /\ timers' \in [Slot -> Nat] /\ pending' \in Nat
      /\ connected' \in {"none", "closed", "open"}
      /\ clicks' \in 0..MaxClicks
  BY DEF GetDataTimeout, TransferTimeout, FromSourceTimeout, Fires, tasks, history, TypeOK,
     ConfigTypeOK, TasksTypeOK, HistoryTypeOK
<1> QED
  BY <1>1, <1>2, PassTyped

\* A restart.
LEMMA RestartStep == ASSUME TypeOK, Restart PROVE TypeOK'
<1> USE DEF Restart
<1>1. CombosTypeOK'
  BY DEF CombosTypeOK, Character, Mode, Freq
<1>2. HistoryTypeOK'
  BY TroubleTyped DEF Trouble, TypeOK, HistoryTypeOK
<1> QED
  BY <1>1, <1>2 DEF TypeOK, ConfigTypeOK, TasksTypeOK, LogTypeOK

\* Every action leaves the window in a state of the right type.
LEMMA TypeStep == TypeOK /\ [Next]_vars => TypeOK'
<1> SUFFICES ASSUME TypeOK, [Next]_vars PROVE TypeOK'
  OBVIOUS
<1>1. CASE User
  BY <1>1, CombosStep, ConfigStep, SyncStep DEF User
<1>2. CASE Timer
  BY <1>2, SyncStep, TimeoutStep DEF Timer
<1>3. CASE Restart
  BY <1>3, RestartStep
<1>4. CASE UNCHANGED vars
  BY <1>4 DEF vars, combos, config, tasks, history, TypeOK, CombosTypeOK,
     ConfigTypeOK, TasksTypeOK, LogTypeOK, HistoryTypeOK
<1> QED
  BY <1>1, <1>2, <1>3, <1>4 DEF Next

\* Every variable keeps its type, whatever the tables, the troubles and the
\* bounds: the window, its timers, its triggers and its log.
THEOREM WindowTypeCorrect == Spec => []TypeOK
<1>1. Init => TypeOK
  BY TypeInit
<1>2. TypeOK /\ [Next]_vars => TypeOK'
  BY TypeStep
<1> QED
  BY <1>1, <1>2, PTL DEF Spec

-----------------------------------------------------------------------------
(* Triggers, and the histories.                                            *)

\* What happened is not forgotten.
LEMMA HappenedGrows == [Next]_vars => happened \subseteq happened'
BY DEF Next, User, ChooseCharacter, ChooseMode, ChooseFreq, Connect, Unopened,
   OpenDialog, AddTrigger, Sync, Timer, DelayedSync, GetDataTimeout, TransferTimeout,
   FromSourceTimeout, Fires, Restart, Moving, Calm, Suffers, history, vars

\* The transfer window is only ever given the text of a table whose three
\* triggers are all in the database, wherever add_trigger gives up.
THEOREM WindowTriggersFirst == Spec => []TriggersBeforeTransfer
<1>1. Init => TriggersBeforeTransfer
  BY DEF Init, TriggersBeforeTransfer
<1>2. TypeOK /\ TriggersBeforeTransfer /\ [Next]_vars => TriggersBeforeTransfer'
  <2> SUFFICES ASSUME TypeOK, TriggersBeforeTransfer, [Next]_vars
               PROVE  TriggersBeforeTransfer'
    OBVIOUS
  <2>1. ASSUME NEW t \in Table, AddTrigger(t) PROVE TriggersBeforeTransfer'
    <3>1. CASE /\ trigger' = [trigger EXCEPT ![t] = Operation]
               /\ data_send' = t
      BY <3>1 DEF TriggersBeforeTransfer, TypeOK, ConfigTypeOK
    <3>2. CASE /\ \E ops \in Refusals(t) : trigger' = [trigger EXCEPT ![t] = ops]
               /\ UNCHANGED data_send
      BY <3>2 DEF Refusals, Operation, TriggersBeforeTransfer, TypeOK, ConfigTypeOK
    <3> QED
      BY <2>1, <3>1, <3>2 DEF AddTrigger
  <2>2. CASE Restart
    BY <2>2 DEF Restart, TriggersBeforeTransfer
  <2>3. CASE User /\ ~\E t \in Table : AddTrigger(t)
    BY <2>3 DEF User, ChooseCharacter, ChooseMode, ChooseFreq, Connect, Unopened,
       OpenDialog, Sync, config, TriggersBeforeTransfer
  <2>4. CASE Timer
    BY <2>4 DEF Timer, DelayedSync, GetDataTimeout, TransferTimeout,
       FromSourceTimeout, Fires, config, TriggersBeforeTransfer
  <2>5. CASE UNCHANGED vars
    BY <2>5 DEF vars, config, TriggersBeforeTransfer
  <2> QED
    BY <2>1, <2>2, <2>3, <2>4, <2>5 DEF Next
<1> QED
  BY <1>1, <1>2, WindowTypeCorrect, PTL DEF Spec

-----------------------------------------------------------------------------
(* The frequency box shows an item syn_fun knows.                          *)

\* The items are those of the identity and the strategy.
THEOREM WindowOffersMatch == Spec => []OffersMatch
<1>1. Init => OffersMatch
  <2> SUFFICES ASSUME Init PROVE OffersMatch
    OBVIOUS
  <2>1. items = <<"seconds">> /\ 1 \in DOMAIN items /\ freq = items[1]
    BY DEF Init
  <2> QED
    BY <2>1 DEF Init, OffersMatch, AttachChose
<1>2. TypeOK /\ OffersMatch /\ [Next]_vars => OffersMatch'
  <2> SUFFICES ASSUME TypeOK, OffersMatch, [Next]_vars PROVE OffersMatch'
    OBVIOUS
  <2>1. ASSUME NEW c \in Character, ChooseCharacter(c) PROVE OffersMatch'
    BY <2>1, OfferMatches DEF ChooseCharacter, OffersMatch, AttachChose, TypeOK, CombosTypeOK
  <2>2. ASSUME NEW m \in Mode, ChooseMode(m) PROVE OffersMatch'
    BY <2>2, OfferMatches DEF ChooseMode, OffersMatch, AttachChose, TypeOK, CombosTypeOK
  <2>3. ASSUME NEW f \in Freq, ChooseFreq(f) PROVE OffersMatch'
    BY <2>3 DEF ChooseFreq, OffersMatch, AttachChose
  <2>4. CASE Restart
    <3>1. items' = <<"seconds">> /\ 1 \in DOMAIN items' /\ freq' = items'[1]
      BY <2>4 DEF Restart
    <3> QED
      BY <2>4, <3>1 DEF Restart, OffersMatch, AttachChose
  <2>5. CASE UNCHANGED combos
    BY <2>5 DEF combos, OffersMatch, AttachChose
  <2> QED
    BY <2>1, <2>2, <2>3, <2>4, <2>5 DEF Next, User, Timer, Connect, Unopened,
       OpenDialog, Sync, AddTrigger, DelayedSync, GetDataTimeout,
       TransferTimeout, FromSourceTimeout, Fires, vars
<1> QED
  BY <1>1, <1>2, WindowTypeCorrect, PTL DEF Spec

\* ... so each strategy and identity leaves syn_fun only frequencies it has
\* a branch for.
LEMMA KnownFrequency ==
    ASSUME TypeOK, OffersMatch
    PROVE  /\ character = "source" /\ mode = "subscribe" => freq = "seconds"
           /\ character = "source" /\ mode = "publish" => freq \in {"once", "minutes"}
           /\ character = "destination" /\ mode = "subscribe" => freq \in {"once", "minutes"}
<1>1. \A i \in DOMAIN <<"seconds">> : <<"seconds">>[i] = "seconds"
  OBVIOUS
<1>2. \A i \in DOMAIN <<"once", "minutes">> : <<"once", "minutes">>[i] \in {"once", "minutes"}
  OBVIOUS
<1> QED
  BY <1>1, <1>2 DEF OffersMatch, AttachChose, TypeOK, CombosTypeOK

-----------------------------------------------------------------------------
(* A task the log shows as created is carried out.                         *)

\* The log after a slot has written rows of some states to it.
LEMMA LoggedAfter ==
    ASSUME NEW S, log' = log \union Rows(S), NEW c, NEW state
    PROVE  Logged(c, state)' <=>
               Logged(c, state) \/ (connected' = "open" /\ c = character /\ state \in S)
<1>1. ASSUME NEW r \in Rows(S), r.character = c, r.state = state
      PROVE  connected' = "open" /\ c = character /\ state \in S
  BY <1>1 DEF Rows
<1>2. ASSUME connected' = "open", c = character, state \in S
      PROVE  \E r \in Rows(S) : r.character = c /\ r.state = state
  <2> DEFINE r == [state |-> state, mode |-> mode, character |-> character]
  <2>1. r \in Rows(S)
    BY <1>2 DEF Rows
  <2> QED
    BY <1>2, <2>1
<1> QED
  BY <1>1, <1>2 DEF Logged

Create == {"dingyue_create", "peizhi_create"}

\* Rows that do not create a task leave what was carried out carried out.
LEMMA OtherRows ==
    ASSUME CarriedOut, happened \subseteq happened',
           NEW S, S \intersect Create = {}, log' = log \union Rows(S),
           timers' = timers
    PROVE  CarriedOut'
BY LoggedAfter DEF CarriedOut, Running, Create

\* So does a step that changes neither the log nor the timers.
LEMMA SameLog ==
    ASSUME TypeOK, CarriedOut, happened \subseteq happened', log' = log,
           timers' = timers
    PROVE  CarriedOut'
BY DEF CarriedOut, Running, Logged

\* Each branch of syn_fun starts what it logs as created.
LEMMA SynFunCarriesOut ==
    ASSUME TypeOK, OffersMatch, CarriedOut, SynFun, happened \subseteq happened'
    PROVE  CarriedOut'
<1>1. happened \subseteq happened'
  OBVIOUS
<1>2. timers' \in [Slot -> Nat] /\ \A s \in Slot : Running(s) => Running(s)'
  BY SynFunEffect DEF Running, TypeOK, TasksTypeOK
<1>3. "get_data" \in Slot /\ "get_data_transfer" \in Slot /\ "get_data_from_source" \in Slot
  BY DEF Slot
<1>4. CASE character = "source" /\ mode = "subscribe"
  <2>1. StartTimer("get_data", {"seconds"}, "dingyue_create")
    BY <1>4 DEF SynFun
  <2>2. Running("get_data")'
    BY <1>3, <1>4, <2>1, KnownFrequency DEF StartTimer, Running, TypeOK, TasksTypeOK
  <2>3. log' = log \union Rows({"dingyue_create"})
    BY <2>1 DEF StartTimer, Logs
  <2> QED
    BY <1>1, <1>2, <1>3, <1>4, <2>2, <2>3, LoggedAfter DEF CarriedOut
<1>5. CASE character = "source" /\ mode = "publish" /\ freq = "once"
  <2>1. log' = log \union Rows({"peizhi_create"} \union {"peizhi_fabu"})
    BY <1>5 DEF SynFun, GetDataTransfer, Logs
  <2> QED
    BY <1>1, <1>2, <1>3, <1>5, <2>1, LoggedAfter DEF CarriedOut
<1>6. CASE character = "source" /\ mode = "publish" /\ freq # "once"
  <2>1. StartTimer("get_data_transfer", {"minutes"}, "peizhi_create")
    BY <1>6 DEF SynFun
  <2>2. Running("get_data_transfer")'
    BY <1>3, <1>6, <2>1, KnownFrequency DEF StartTimer, Running, TypeOK, TasksTypeOK
  <2>3. log' = log \union Rows({"peizhi_create"})
    BY <2>1 DEF StartTimer, Logs
  <2> QED
    BY <1>1, <1>2, <1>3, <1>6, <2>2, <2>3, LoggedAfter DEF CarriedOut
<1>7. CASE character = "destination" /\ mode = "subscribe" /\ freq = "once"
  <2>1. log' = log \union Rows({"dingyue_create"} \union {"dingyue_update"})
    BY <1>7 DEF SynFun, GetDataFromSource, Logs
  <2> QED
    BY <1>1, <1>2, <1>3, <1>7, <2>1, LoggedAfter DEF CarriedOut
<1>8. CASE character = "destination" /\ mode = "subscribe" /\ freq # "once"
  <2>1. StartTimer("get_data_from_source", {"minutes"}, "dingyue_create")
    BY <1>8 DEF SynFun
  <2>2. Running("get_data_from_source")'
    BY <1>3, <1>8, <2>1, KnownFrequency DEF StartTimer, Running, TypeOK, TasksTypeOK
  <2>3. log' = log \union Rows({"dingyue_create"})
    BY <2>1 DEF StartTimer, Logs
  <2> QED
    BY <1>1, <1>2, <1>3, <1>8, <2>2, <2>3, LoggedAfter DEF CarriedOut
<1>9. CASE character = "destination" /\ mode = "publish"
  <2>1. log' = log \union Rows({"peizhi_create", "peizhi_fabu"})
    BY <1>9 DEF SynFun, Logs
  <2> QED
    BY <1>1, <1>2, <1>3, <1>9, <2>1, LoggedAfter DEF CarriedOut
<1> QED
  BY <1>4, <1>5, <1>6, <1>7, <1>8, <1>9 DEF TypeOK, CombosTypeOK, Character, Mode

\* The timers' passes log no creation.
LEMMA TimeoutCarriesOut ==
    ASSUME TypeOK, CarriedOut, GetDataTimeout \/ TransferTimeout \/ FromSourceTimeout
    PROVE  CarriedOut'
<1>1. happened \subseteq happened' /\ timers' = timers
  BY DEF GetDataTimeout, TransferTimeout, FromSourceTimeout, Fires, tasks, history
<1>2. CASE GetDataTimeout
  <2>1. PICK update \in SUBSET {"dingyue_update"} : log' = log \union Rows({} \union update)
    BY <1>2 DEF GetDataTimeout, GetData, Logs
  <2>2. ({} \union update) \intersect Create = {}
    BY DEF Create
  <2> QED
    BY <1>1, <2>1, <2>2, OtherRows
<1>3. CASE TransferTimeout
  <2>1. log' = log \union Rows({} \union {"peizhi_fabu"})
    BY <1>3 DEF TransferTimeout, GetDataTransfer, Logs
  <2>2. ({} \union {"peizhi_fabu"}) \intersect Create = {}
    BY DEF Create
  <2> QED
    BY <1>1, <2>1, <2>2, OtherRows
<1>4. CASE FromSourceTimeout
  <2>1. log' = log \union Rows({} \union {"dingyue_update"})
    BY <1>4 DEF FromSourceTimeout, GetDataFromSource, Logs
  <2>2. ({} \union {"dingyue_update"}) \intersect Create = {}
    BY DEF Create
  <2> QED
    BY <1>1, <2>1, <2>2, OtherRows
<1> QED
  BY <1>2, <1>3, <1>4

\* Whatever way the combo boxes came to show what they do, a task that the
\* log shows as created has its timer running or its one pass made, until
\* the program is restarted.
THEOREM WindowCarriesOut == Spec => []CarriedOut
<1>1. Init => CarriedOut
  BY DEF Init, CarriedOut, Logged
<1>2. TypeOK /\ OffersMatch /\ CarriedOut /\ [Next]_vars => CarriedOut'
  <2> SUFFICES ASSUME TypeOK, OffersMatch, CarriedOut, [Next]_vars PROVE CarriedOut'
    OBVIOUS
  <2>a. happened \subseteq happened'
    BY HappenedGrows
  <2>1. CASE User /\ ~Sync
    <3>1. log' = log /\ timers' = timers
      BY <2>1 DEF User, ChooseCharacter, ChooseMode, ChooseFreq, Connect, Unopened,
         OpenDialog, AddTrigger, tasks
    <3> QED
      BY <2>a, <3>1, SameLog
  <2>2. CASE Sync
    <3>1. SynFun \/ UNCHANGED <<timers, log>>
      BY <2>2 DEF Sync
    <3> QED
      BY <2>a, <3>1, SynFunCarriesOut, SameLog
  <2>3. CASE DelayedSync
    BY <2>a, <2>3, SynFunCarriesOut DEF DelayedSync
  <2>4. CASE GetDataTimeout \/ TransferTimeout \/ FromSourceTimeout
    BY <2>4, TimeoutCarriesOut
  <2>5. CASE Restart
    BY <2>5 DEF Restart, Suffers, CarriedOut
  <2>6. CASE UNCHANGED vars
    BY <2>a, <2>6, SameLog DEF vars, tasks
  <2> QED
    BY <2>1, <2>2, <2>3, <2>4, <2>5, <2>6 DEF Next, Timer
<1> QED
  BY <1>1, <1>2, WindowTypeCorrect, WindowOffersMatch, PTL DEF Spec

-----------------------------------------------------------------------------
(* A row of the log stands beside the create row of its own task.          *)

\* No combo box has moved under a task and the connection was never lost.
Undisturbed == happened \intersect {"fiddle", "closed"} = {}

\* The window still shows the identity and the strategy of every task that
\* waits or runs, and the log has the row that created it.
ShownTask(slot, c, m, state) ==
    timers[slot] > 0 =>
        /\ character = c /\ mode = m
        /\ [state |-> state, mode |-> m, character |-> c] \in log

TasksShown ==
    Undisturbed =>
        /\ pending > 0 \/ (\E s \in Slot : timers[s] > 0) => connected = "open"
        /\ ShownTask("get_data", "source", "subscribe", "dingyue_create")
        /\ ShownTask("get_data_transfer", "source", "publish", "peizhi_create")
        /\ ShownTask("get_data_from_source", "destination", "subscribe", "dingyue_create")
        /\ \A r \in log : [r EXCEPT !.state = CreateOf(@)] \in log

\* Rows of a task are told by the row that creates it, which is among them
\* or in the log.
LEMMA RowsTell ==
    ASSUME TypeOK, \A r \in log : [r EXCEPT !.state = CreateOf(@)] \in log,
           NEW S, S \subseteq State, log' = log \union Rows(S),
           NEW create \in State, \A s \in S : CreateOf(s) = create,
           \/ create \in S
           \/ [state |-> create, mode |-> mode, character |-> character] \in log
    PROVE  \A r \in log' : [r EXCEPT !.state = CreateOf(@)] \in log'
<1>1. ASSUME NEW r \in Rows(S) PROVE [r EXCEPT !.state = CreateOf(@)] \in log'
  <2>1. PICK s \in S : /\ connected' = "open"
                       /\ r = [state |-> s, mode |-> mode, character |-> character]
    BY <1>1 DEF Rows
  <2>2. [r EXCEPT !.state = CreateOf(@)]
            = [state |-> create, mode |-> mode, character |-> character]
    BY <2>1
  <2>3. CASE create \in S
    BY <2>1, <2>2, <2>3 DEF Rows
  <2>4. CASE [state |-> create, mode |-> mode, character |-> character] \in log
    BY <2>2, <2>4
  <2> QED
    BY <2>3, <2>4
<1> QED
  BY <1>1

\* syn_fun logs the creation of the one task it starts.
LEMMA SynFunTells ==
    ASSUME TypeOK, TasksShown, Undisturbed, SynFun, connected' = "open",
           character' = character, mode' = mode
    PROVE  /\ ShownTask("get_data", "source", "subscribe", "dingyue_create")'
           /\ ShownTask("get_data_transfer", "source", "publish", "peizhi_create")'
           /\ ShownTask("get_data_from_source", "destination", "subscribe",
                        "dingyue_create")'
           /\ \A r \in log' : [r EXCEPT !.state = CreateOf(@)] \in log'
<1> USE DEF TasksShown, ShownTask
<1>0. \A r \in log : [r EXCEPT !.state = CreateOf(@)] \in log
  OBVIOUS
<1>1. /\ "dingyue_create" \in State /\ "dingyue_update" \in State
      /\ "peizhi_create" \in State /\ "peizhi_fabu" \in State
      /\ {"dingyue_create"} \subseteq State /\ {"peizhi_create"} \subseteq State
      /\ {"dingyue_create"} \union {"dingyue_update"} \subseteq State
      /\ {"peizhi_create"} \union {"peizhi_fabu"} \subseteq State
      /\ {"peizhi_create", "peizhi_fabu"} \subseteq State
  BY DEF State
<1>2. CreateOf("dingyue_create") = "dingyue_create"
      /\ CreateOf("dingyue_update") = "dingyue_create"
      /\ CreateOf("peizhi_create") = "peizhi_create"
      /\ CreateOf("peizhi_fabu") = "peizhi_create"
  BY DEF CreateOf
<1>3. /\ \A s \in {"dingyue_create"} : CreateOf(s) = "dingyue_create"
      /\ \A s \in {"peizhi_create"} : CreateOf(s) = "peizhi_create"
      /\ \A s \in {"dingyue_create"} \union {"dingyue_update"} :
            CreateOf(s) = "dingyue_create"
      /\ \A s \in {"peizhi_create"} \union {"peizhi_fabu"} :
            CreateOf(s) = "peizhi_create"
      /\ \A s \in {"peizhi_create", "peizhi_fabu"} : CreateOf(s) = "peizhi_create"
  BY <1>2
<1>4. /\ "dingyue_create" \in {"dingyue_create"} /\ "peizhi_create" \in {"peizhi_create"}
      /\ "dingyue_create" \in {"dingyue_create"} \union {"dingyue_update"}
      /\ "peizhi_create" \in {"peizhi_create"} \union {"peizhi_fabu"}
      /\ "peizhi_create" \in {"peizhi_create", "peizhi_fabu"}
  OBVIOUS
<1>5. CASE character = "source" /\ mode = "subscribe"
  <2>1. StartTimer("get_data", {"seconds"}, "dingyue_create")
    BY <1>5 DEF SynFun
  <2>2. log' = log \union Rows({"dingyue_create"})
    BY <2>1 DEF StartTimer, Logs
  <2>3. [state |-> "dingyue_create", mode |-> mode, character |-> character] \in log'
    BY <2>2 DEF Rows
  <2>4. \A r \in log' : [r EXCEPT !.state = CreateOf(@)] \in log'
    BY <1>0, <1>1, <1>3, <1>4, <2>2, RowsTell, Zenon
  <2>5. /\ timers'["get_data_transfer"] = timers["get_data_transfer"]
        /\ timers'["get_data_from_source"] = timers["get_data_from_source"]
    BY <2>1 DEF StartTimer, Slot, TypeOK, TasksTypeOK
  <2> QED
    BY <1>5, <2>2, <2>3, <2>4, <2>5
<1>6. CASE character = "source" /\ mode = "publish" /\ freq = "once"
  <2>1. log' = log \union Rows({"peizhi_create"} \union {"peizhi_fabu"}) /\ timers' = timers
    BY <1>6 DEF SynFun, GetDataTransfer, Logs
  <2>2. \A r \in log' : [r EXCEPT !.state = CreateOf(@)] \in log'
    BY <1>0, <1>1, <1>3, <1>4, <2>1, RowsTell, Zenon
  <2> QED
    BY <1>6, <2>1, <2>2
<1>7. CASE character = "source" /\ mode = "publish" /\ freq # "once"
  <2>1. StartTimer("get_data_transfer", {"minutes"}, "peizhi_create")
    BY <1>7 DEF SynFun
  <2>2. log' = log \union Rows({"peizhi_create"})
    BY <2>1 DEF StartTimer, Logs
  <2>3. [state |-> "peizhi_create", mode |-> mode, character |-> character] \in log'
    BY <2>2 DEF Rows
  <2>4. \A r \in log' : [r EXCEPT !.state = CreateOf(@)] \in log'
    BY <1>0, <1>1, <1>3, <1>4, <2>2, RowsTell, Zenon
  <2>5. /\ timers'["get_data"] = timers["get_data"]
        /\ timers'["get_data_from_source"] = timers["get_data_from_source"]
    BY <2>1 DEF StartTimer, Slot, TypeOK, TasksTypeOK
  <2> QED
    BY <1>7, <2>2, <2>3, <2>4, <2>5
<1>8. CASE character = "destination" /\ mode = "subscribe" /\ freq = "once"
  <2>1. /\ log' = log \union Rows({"dingyue_create"} \union {"dingyue_update"})
        /\ timers' = timers
    BY <1>8 DEF SynFun, GetDataFromSource, Logs
  <2>2. \A r \in log' : [r EXCEPT !.state = CreateOf(@)] \in log'
    BY <1>0, <1>1, <1>3, <1>4, <2>1, RowsTell, Zenon
  <2> QED
    BY <1>8, <2>1, <2>2
<1>9. CASE character = "destination" /\ mode = "subscribe" /\ freq # "once"
  <2>1. StartTimer("get_data_from_source", {"minutes"}, "dingyue_create")
    BY <1>9 DEF SynFun
  <2>2. log' = log \union Rows({"dingyue_create"})
    BY <2>1 DEF StartTimer, Logs
  <2>3. [state |-> "dingyue_create", mode |-> mode, character |-> character] \in log'
    BY <2>2 DEF Rows
  <2>4. \A r \in log' : [r EXCEPT !.state = CreateOf(@)] \in log'
    BY <1>0, <1>1, <1>3, <1>4, <2>2, RowsTell, Zenon
  <2>5. /\ timers'["get_data"] = timers["get_data"]
        /\ timers'["get_data_transfer"] = timers["get_data_transfer"]
    BY <2>1 DEF StartTimer, Slot, TypeOK, TasksTypeOK
  <2> QED
    BY <1>9, <2>2, <2>3, <2>4, <2>5
<1>10. CASE character = "destination" /\ mode = "publish"
  <2>1. log' = log \union Rows({"peizhi_create", "peizhi_fabu"}) /\ timers' = timers
    BY <1>10 DEF SynFun, Logs
  <2>2. \A r \in log' : [r EXCEPT !.state = CreateOf(@)] \in log'
    BY <1>0, <1>1, <1>3, <1>4, <2>1, RowsTell, Zenon
  <2> QED
    BY <1>10, <2>1, <2>2
<1> QED
  BY <1>5, <1>6, <1>7, <1>8, <1>9, <1>10 DEF TypeOK, CombosTypeOK, Character, Mode

\* A timer's pass logs rows of the task whose timer it is.
LEMMA TimeoutTells ==
    ASSUME TypeOK, TasksShown, Undisturbed,
           GetDataTimeout \/ TransferTimeout \/ FromSourceTimeout
    PROVE  /\ log \subseteq log'
           /\ \A r \in log' : [r EXCEPT !.state = CreateOf(@)] \in log'
<1> USE DEF TasksShown, ShownTask, Fires
<1>1. /\ {} \union {"peizhi_fabu"} \subseteq State
      /\ {} \union {"dingyue_update"} \subseteq State
      /\ "dingyue_create" \in State /\ "peizhi_create" \in State
  BY DEF State
<1>2. /\ CreateOf("dingyue_update") = "dingyue_create"
      /\ CreateOf("peizhi_fabu") = "peizhi_create"
  BY DEF CreateOf
<1>3. CASE GetDataTimeout
  <2>1. PICK update \in SUBSET {"dingyue_update"} : log' = log \union Rows({} \union update)
    BY <1>3 DEF GetDataTimeout, GetData, Logs
  <2>2. [state |-> "dingyue_create", mode |-> mode, character |-> character] \in log
    BY <1>3 DEF GetDataTimeout
  <2>3. /\ \A s \in {} \union update : CreateOf(s) = "dingyue_create"
        /\ {} \union update \subseteq State
    BY <1>2 DEF State
  <2> QED
    BY <1>1, <2>1, <2>2, <2>3, RowsTell
<1>4. CASE TransferTimeout
  <2>1. log' = log \union Rows({} \union {"peizhi_fabu"})
    BY <1>4 DEF TransferTimeout, GetDataTransfer, Logs
  <2>2. [state |-> "peizhi_create", mode |-> mode, character |-> character] \in log
    BY <1>4 DEF TransferTimeout
  <2> QED
    BY <1>1, <1>2, <2>1, <2>2, RowsTell
<1>5. CASE FromSourceTimeout
  <2>1. log' = log \union Rows({} \union {"dingyue_update"})
    BY <1>5 DEF FromSourceTimeout, GetDataFromSource, Logs
  <2>2. [state |-> "dingyue_create", mode |-> mode, character |-> character] \in log
    BY <1>5 DEF FromSourceTimeout
  <2> QED
    BY <1>1, <1>2, <2>1, <2>2, RowsTell
<1> QED
  BY <1>3, <1>4, <1>5

\* The window shows its tasks as long as it is undisturbed.
LEMMA TasksShownStep == TypeOK /\ TasksShown /\ [Next]_vars => TasksShown'
<1> SUFFICES ASSUME TypeOK, TasksShown, [Next]_vars, Undisturbed'
             PROVE  TasksShown'
  BY DEF TasksShown
<1>1. Undisturbed
  BY HappenedGrows DEF Undisturbed
<1>2. CASE User /\ ~Sync
  <2>1. log' = log /\ timers' = timers /\ pending' = pending
    BY <1>2 DEF User, ChooseCharacter, ChooseMode, ChooseFreq, Connect, Unopened,
       OpenDialog, AddTrigger, tasks
  <2>2. connected' = "open" \/ connected' = connected
    BY <1>2 DEF User, ChooseCharacter, ChooseMode, ChooseFreq, Connect, Unopened,
       OpenDialog, Opens, AddTrigger, Suffers, Undisturbed
  <2>3. \/ character' = character /\ mode' = mode
        \/ pending = 0 /\ \A s \in Slot : timers[s] = 0
    BY <1>2 DEF User, ChooseCharacter, ChooseMode, ChooseFreq, Connect, Unopened,
       OpenDialog, AddTrigger, Moving, Suffers, Undisturbed, combos,
       TypeOK, TasksTypeOK
  <2> QED
    BY <1>1, <2>1, <2>2, <2>3 DEF TasksShown, ShownTask, Slot
<1>3. CASE Sync
  <2>1. connected' = "open" /\ character' = character /\ mode' = mode
    BY <1>3 DEF Sync, Opens, combos
  <2>2. SynFun \/ UNCHANGED <<timers, log>>
    BY <1>3 DEF Sync
  <2> QED
    BY <1>1, <2>1, <2>2, SynFunTells DEF TasksShown, ShownTask
<1>4. CASE DelayedSync
  <2>1. connected' = "open" /\ character' = character /\ mode' = mode
    BY <1>1, <1>4 DEF DelayedSync, TasksShown, combos
  <2> QED
    BY <1>1, <1>4, <2>1, SynFunTells DEF DelayedSync, TasksShown
<1>5. CASE GetDataTimeout \/ TransferTimeout \/ FromSourceTimeout
  <2>1. UNCHANGED <<character, mode, connected, timers, pending>>
    BY <1>5 DEF GetDataTimeout, TransferTimeout, FromSourceTimeout, Fires, combos, tasks
  <2> QED
    BY <1>1, <1>5, <2>1, TimeoutTells DEF TasksShown, ShownTask
<1>6. CASE Restart
  <2>1. log' = log /\ pending' = 0 /\ timers' = [s \in Slot |-> 0]
    BY <1>6 DEF Restart
  <2> QED
    BY <1>1, <2>1 DEF TasksShown, ShownTask, Slot
<1>7. CASE UNCHANGED vars
  BY <1>1, <1>7 DEF vars, combos, tasks, TasksShown, ShownTask
<1> QED
  BY <1>2, <1>3, <1>4, <1>5, <1>6, <1>7 DEF Next, Timer

\* Unless the combo boxes move under a task or the connection is lost, every
\* row of the log has the create row of its own task beside it, through any
\* number of clicks, single shots, timers and restarts: add_log reads the
\* combo boxes when a pass is made, and they still show the task's.
THEOREM WindowLogTells == Spec => []LogTellsTask
<1>1. Init => TasksShown
  BY DEF Init, TasksShown, ShownTask, Slot
<1>2. TypeOK /\ TasksShown /\ [Next]_vars => TasksShown'
  BY TasksShownStep
<1>3. TasksShown => LogTellsTask
  BY DEF TasksShown, Undisturbed, LogTellsTask
<1> QED
  BY <1>1, <1>2, <1>3, WindowTypeCorrect, PTL DEF Spec

=============================================================================
