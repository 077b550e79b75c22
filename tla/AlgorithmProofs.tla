-------------------------- MODULE AlgorithmProofs --------------------------
(***************************************************************************)
(* What the arithmetic of the fragments and of the picture computes for    *)
(* every length, fragment size and number of machines.                     *)
(***************************************************************************)
EXTENDS Algorithms, WellFoundedInduction, TLAPS

LEMMA DivMod ==
    ASSUME NEW n \in Nat, NEW d \in Nat \ {0}
    PROVE  /\ n \div d \in Nat /\ n % d \in Nat
           /\ n = (n \div d) * d + (n % d)
           /\ n % d < d
  BY SMT

-----------------------------------------------------------------------------
\* The fragments hold the script, and one fewer would not; nothing is left
\* over exactly if the size divides the length.
LEMMA TotalCovers ==
    ASSUME NEW len \in Nat \ {0}, NEW size \in Nat \ {0}
    PROVE  /\ Total(len, size) \in Nat \ {0}
           /\ Total(len, size) * size \in Nat
           /\ (Total(len, size) - 1) * size < len
           /\ len <= Total(len, size) * size
           /\ Total(len, size) * size < len + size
           /\ len = Total(len, size) * size <=> len % size = 0
<1> DEFINE q == len \div size
           r == len % size
<1>1. q \in Nat /\ r \in Nat /\ r < size /\ len = q * size + r
  BY DivMod
<1>2. CASE r = 0
  <2>1. Total(len, size) = q /\ len = q * size
    BY <1>1, <1>2 DEF Total
  <2>2. q # 0
    BY <2>1, <1>1
  <2>3. (q - 1) * size = q * size - size
    BY <1>1
  <2> QED
    BY <1>1, <1>2, <2>1, <2>2, <2>3
<1>3. CASE r # 0
  <2>1. Total(len, size) = q + 1
    BY <1>1, <1>3 DEF Total
  <2>2. (q + 1) * size = q * size + size /\ (q + 1) - 1 = q
    BY <1>1
  <2>3. q * size \in Nat
    BY <1>1
  <2> QED
    BY <1>1, <1>3, <2>1, <2>2, <2>3
<1> QED
  BY <1>2, <1>3

\* Put together, the fragments are the sender's memory, byte by byte.
LEMMA BufferIsMemory ==
    ASSUME NEW size \in Nat \ {0}, NEW total \in Nat
    PROVE  Buffer(size, total) = [k \in 1..(total * size) |-> k]
<1> SUFFICES ASSUME NEW k \in 1..(total * size)
             PROVE  Fragment(size, (k - 1) \div size)[((k - 1) % size) + 1] = k
  BY DEF Buffer
<1> DEFINE q == (k - 1) \div size
           r == (k - 1) % size
<1>0. total * size \in Nat
  BY SMT
<1>1. k - 1 \in Nat
  BY <1>0
<1>2. q \in Nat /\ r \in Nat /\ r < size /\ k - 1 = q * size + r
  BY <1>1, DivMod
<1>3. r + 1 \in 1..size
  BY <1>2
<1>4. Fragment(size, q)[r + 1] = q * size + (r + 1)
  BY <1>3 DEF Fragment
<1>5. q * size \in Nat
  BY <1>2
<1> QED
  BY <1>1, <1>2, <1>4, <1>5

\* The first bytes of the memory are the script.
LEMMA MemoryPrefix ==
    ASSUME NEW n \in Nat, NEW m \in 0..n
    PROVE  SubSeq([k \in 1..n |-> k], 1, m) = [k \in 1..m |-> k]
<1> DEFINE memory == [k \in 1..n |-> k]
<1>1. memory \in Seq(Nat) /\ Len(memory) = n
  BY SMT
<1>2. SubSeq(memory, 1, m) \in Seq(Nat) /\ Len(SubSeq(memory, 1, m)) = m
  BY <1>1
<1>3. \A k \in 1..m : SubSeq(memory, 1, m)[k] = k
  BY <1>1
<1>4. DOMAIN SubSeq(memory, 1, m) = 1..m
  BY <1>2
<1> QED
  BY <1>2, <1>3, <1>4

\* No byte of a script is lost, repeated or displaced by cutting it into
\* fragments and putting them together again, whatever its length and the
\* fragment size; and the fragments are as few as can be.
THEOREM EveryScriptWhole ==
    ASSUME NEW len \in Nat \ {0}, NEW size \in Nat \ {0}
    PROVE  Whole(len, size)
<1> DEFINE n == Total(len, size) * size
<1>1. n \in Nat /\ len \in 0..n
  BY TotalCovers
<1>2. SubSeq(Buffer(size, Total(len, size)), 1, len) = Script(len)
  <2>1. Buffer(size, Total(len, size)) = [k \in 1..n |-> k]
    BY TotalCovers, BufferIsMemory
  <2>2. SubSeq([k \in 1..n |-> k], 1, len) = [k \in 1..len |-> k]
    BY <1>1, MemoryPrefix
  <2> QED
    BY <2>1, <2>2 DEF Script
<1> QED
  BY <1>2, TotalCovers DEF Whole

\* The receiver executes the script, followed by fewer bytes of the sender's
\* memory than a fragment has, and by none exactly if the fragment size
\* divides the script's length or a NUL follows the script.
THEOREM EveryScriptExact ==
    ASSUME NEW len \in Nat \ {0}, NEW size \in Nat \ {0}, NEW slack \in Nat
    PROVE  Exact(len, size, slack)
<1> DEFINE n == Total(len, size) * size
           e == IF len + slack < n THEN len + slack ELSE n
           script == [k \in 1..e |-> k]
<1>1. n \in Nat /\ len <= n /\ n < len + size /\ (len = n <=> len % size = 0)
  BY TotalCovers
<1>2. e \in Nat /\ len \in 0..e /\ e \in 0..n /\ e < len + size
  BY <1>1
<1>3. Executed(len, size, slack) = script
  <2>1. Buffer(size, Total(len, size)) = [k \in 1..n |-> k]
    BY TotalCovers, BufferIsMemory
  <2>2. CASE len + slack < n
    <3>1. SubSeq([k \in 1..n |-> k], 1, e) = [k \in 1..e |-> k]
      BY <1>1, <1>2, MemoryPrefix
    <3> QED
      BY <2>1, <2>2, <3>1 DEF Executed
  <2>3. CASE ~(len + slack < n)
    BY <2>1, <2>3 DEF Executed
  <2> QED
    BY <2>2, <2>3
<1>4. SubSeq(script, 1, len) = Script(len)
  BY <1>2, MemoryPrefix DEF Script
<1>5. Len(script) = e
  BY <1>2
<1>6. e = len <=> len % size = 0 \/ slack = 0
  BY <1>1
<1>7. script = Script(len) <=> e = len
  <2>1. Len(Script(len)) = len
    BY DEF Script
  <2>2. e = len => script = Script(len)
    BY DEF Script
  <2> QED
    BY <1>5, <2>1, <2>2
<1>8. script = Script(len) <=> len % size = 0 \/ slack = 0
  BY <1>6, <1>7
<1> HIDE DEF script
<1> QED
  BY <1>2, <1>3, <1>4, <1>5, <1>8 DEF Exact

-----------------------------------------------------------------------------
\* What is done to a task, and what a task is.
TaskOK ==
    /\ task.of = "cut" =>
        /\ task.len \in Nat /\ task.slack \in Nat
        /\ task.text \in Seq(Nat)
    /\ task.of = "paint" => task.setPcNum \in 7..MaxPcs

ResultOK ==
    /\ Done("cut") => result = Begin(task.len, task.text, task.slack)
    /\ Done("paint") => result = paintEvent(<<>>, task.setPcNum).drawn

TaskInv == TaskOK /\ ResultOK

LEMMA TaskInvHolds == Spec => []TaskInv
<1>1. Init => TaskInv
  <2> SUFFICES ASSUME Init PROVE TaskInv
    OBVIOUS
  <2>1. ResultOK
    BY DEF Init, ResultOK, Done
  <2>2. CASE task \in RewriteTask
    BY <2>1, <2>2 DEF RewriteTask, TaskInv, TaskOK
  <2>3. CASE task \in CutTask
    BY <2>1, <2>3, BoundAssumption, TextsAssumption DEF CutTask, TaskInv, TaskOK
  <2>4. CASE task \in PaintTask
    BY <2>1, <2>4 DEF PaintTask, TaskInv, TaskOK
  <2>5. CASE task \in SearchTask
    BY <2>1, <2>5 DEF SearchTask, TaskInv, TaskOK
  <2>6. CASE task \in PickTask
    BY <2>1, <2>6 DEF PickTask, TaskInv, TaskOK
  <2> QED
    BY <2>2, <2>3, <2>4, <2>5, <2>6 DEF Init
<1>2. TaskInv /\ [Next]_vars => TaskInv'
  <2> SUFFICES ASSUME TaskInv, [Next]_vars PROVE TaskInv'
    OBVIOUS
  <2>1. task' = task
    BY DEF Next, vars
  <2>2. TaskOK'
    BY <2>1 DEF TaskInv, TaskOK
  <2>3. CASE UNCHANGED vars
    BY <2>2, <2>3 DEF vars, TaskInv, ResultOK, Done
  <2>4. CASE Next
    <3>1. CASE Rewrite
      BY <2>1, <2>2, <3>1 DEF Rewrite, TaskInv, ResultOK, Done
    <3>2. CASE Cut
      BY <2>1, <2>2, <3>2 DEF Cut, TaskInv, ResultOK, Done
    <3>3. CASE Paint
      BY <2>1, <2>2, <3>3 DEF Paint, paintEvent, TaskInv, ResultOK, Done
    <3>4. CASE Search
      BY <2>1, <2>2, <3>4 DEF Search, TaskInv, ResultOK, Done
    <3>5. CASE Pick
      BY <2>1, <2>2, <3>5 DEF Pick, TaskInv, ResultOK, Done
    <3> QED
      BY <2>4, <3>1, <3>2, <3>3, <3>4, <3>5 DEF Next
  <2> QED
    BY <2>3, <2>4
<1> QED
  BY <1>1, <1>2, PTL DEF Spec

LEMMA SentIsSized ==
    ASSUME NEW len \in Nat, NEW text, NEW slack, Begin(len, text, slack).end = "sent"
    PROVE  len # 0 /\ ToInt(text) \in Nat \ {0}
  BY DEF Begin, ToInt

\* For scripts, fragment sizes and slacks of any bound: whatever a task sends
\* is the whole script.
THEOREM TasksSendWhole == Spec => []FragmentsWhole
<1>1. TaskInv => FragmentsWhole
  BY SentIsSized, EveryScriptWhole DEF TaskInv, TaskOK, ResultOK, FragmentsWhole, Done
<1> QED
  BY <1>1, TaskInvHolds, PTL

\* ... and what is executed of it is the script exactly if nothing is left
\* over in the last fragment or a NUL follows the script.
THEOREM TasksExecuteExact == Spec => []ExecutedExact
<1>1. TaskInv => ExecutedExact
  BY SentIsSized, EveryScriptExact DEF TaskInv, TaskOK, ResultOK, ExecutedExact, Done
<1> QED
  BY <1>1, TaskInvHolds, PTL

-----------------------------------------------------------------------------
\* A set of numbers has a least one; what holds for all numbers up to some n
\* is shown by assuming a least one for which it does not.
LEMMA LeastNumber ==
    ASSUME NEW T, T \subseteq Nat, T # {}
    PROVE  \E n \in T : \A m \in T : n <= m
<1>1. PICK n \in T : \A m \in T : <<m, n>> \notin OpToRel(<, Nat)
  BY NatLessThanWellFounded, WFMin
<1>2. ASSUME NEW m \in T PROVE n <= m
  <2>1. m \in Nat /\ n \in Nat
    OBVIOUS
  <2>2. ~(m < n)
    BY <1>1, <2>1 DEF OpToRel
  <2> QED
    BY <2>1, <2>2
<1> QED
  BY <1>2

\* f has the states of a loop that begins with a and goes on by g.
Loop(n, f, a, g) ==
    /\ f[0] = a
    /\ \A k \in 1..n : f[k] = g[k][f[k - 1]]

\* A loop of n rounds has a state before the first and after each.
LEMMA LoopHasStates ==
    ASSUME NEW n \in Nat, NEW a \in Nat, NEW g \in [1..n -> [Nat -> Nat]]
    PROVE  \E f \in [0..n -> Nat] : Loop(n, f, a, g)
<1> DEFINE T == {m \in 0..n : ~ \E f \in [0..m -> Nat] : Loop(m, f, a, g)}
<1>1. ASSUME T # {} PROVE FALSE
  <2>0. T \subseteq 0..n /\ T \subseteq Nat
    OBVIOUS
  <2>1. PICK m \in T : \A l \in T : m <= l
    <3> HIDE DEF T
    <3> QED
      BY <1>1, <2>0, LeastNumber
  <2>2. m # 0
    <3> DEFINE f == [k \in 0..0 |-> a]
    <3>1. f \in [0..0 -> Nat] /\ f[0] = a
      OBVIOUS
    <3>2. Loop(0, f, a, g)
      BY <3>1 DEF Loop
    <3> HIDE DEF f
    <3> QED
      BY <3>1, <3>2
  <2>3. m \in 1..n /\ m - 1 \in 0..n /\ m - 1 \notin T
    <3> HIDE DEF T
    <3> QED
      BY <2>0, <2>1, <2>2
  <2>4. PICK f \in [0..(m - 1) -> Nat] : Loop(m - 1, f, a, g)
    BY <2>3
  <2> DEFINE h == [k \in 0..m |-> IF k < m THEN f[k] ELSE g[m][f[m - 1]]]
  <2>5. h \in [0..m -> Nat] /\ h[0] = a
    BY <2>3, <2>4 DEF Loop
  <2>6. ASSUME NEW k \in 1..m PROVE h[k] = g[k][h[k - 1]]
    <3>1. k - 1 \in 0..(m - 1) /\ h[k - 1] = f[k - 1]
      BY <2>3
    <3>2. CASE k < m
      <4>1. k \in 1..(m - 1) /\ h[k] = f[k]
        BY <2>3, <3>2
      <4> QED
        BY <2>4, <3>1, <4>1 DEF Loop
    <3>3. CASE k = m
      BY <2>3, <3>1, <3>3
    <3> QED
      BY <2>3, <3>2, <3>3
  <2>7. Loop(m, h, a, g)
    BY <2>5, <2>6 DEF Loop
  <2> HIDE DEF h
  <2> QED
    BY <2>5, <2>7
<1> QED
  <2>1. n \in 0..n
    OBVIOUS
  <2>2. n \notin T
    <3> HIDE DEF T
    <3> QED
      BY <1>1
  <2> QED
    BY <2>1, <2>2

\* Numbers that make numbers are numbers all the way.
LEMMA NumbersThroughout ==
    ASSUME NEW n \in Nat, NEW f, f[0] \in Nat,
           \A k \in 1..n : f[k - 1] \in Nat => f[k] \in Nat
    PROVE  \A k \in 0..n : f[k] \in Nat
<1> DEFINE T == {k \in 0..n : f[k] \notin Nat}
<1>1. ASSUME T # {} PROVE FALSE
  <2>0. T \subseteq 0..n /\ T \subseteq Nat
    OBVIOUS
  <2>1. PICK m \in T : \A l \in T : m <= l
    <3> HIDE DEF T
    <3> QED
      BY <1>1, <2>0, LeastNumber
  <2>2. m # 0
    OBVIOUS
  <2>3. m \in 1..n /\ m - 1 \in 0..n /\ m - 1 \notin T
    <3> HIDE DEF T
    <3> QED
      BY <2>0, <2>1, <2>2
  <2> QED
    BY <2>3
<1> QED
  BY <1>1

-----------------------------------------------------------------------------
\* What the conversion has read after each character.
LEMMA ReadSteps ==
    ASSUME NEW text \in Seq(Nat)
    PROVE  \E v \in [0..Len(text) -> Nat] :
                /\ v[0] = 0
                /\ \A k \in 1..Len(text) : v[k] = 10 * v[k - 1] + text[k]
                /\ Read(text) = v[Len(text)]
<1> DEFINE n == Len(text)
           g == [k \in 1..n |-> [x \in Nat |-> 10 * x + text[k]]]
           Step(f) == [k \in 0..n |-> IF k = 0 THEN 0 ELSE 10 * f[k - 1] + text[k]]
           value == CHOOSE f : f = Step(f)
<1>0. \A k \in 1..n : text[k] \in Nat
  OBVIOUS
<1>1. n \in Nat
  OBVIOUS
<1>2. g \in [1..n -> [Nat -> Nat]]
  BY <1>0
<1>3. PICK f \in [0..n -> Nat] : Loop(n, f, 0, g)
  <2> HIDE DEF n, g
  <2> QED
    BY <1>1, <1>2, LoopHasStates
<1>4. f = Step(f)
  <2>1. ASSUME NEW k \in 0..n
        PROVE  f[k] = IF k = 0 THEN 0 ELSE 10 * f[k - 1] + text[k]
    <3>1. CASE k = 0
      BY <1>3, <3>1 DEF Loop
    <3>2. CASE k # 0
      <4>1. k \in 1..n /\ f[k - 1] \in Nat
        <5> HIDE DEF n, g
        <5> QED
          BY <1>1, <1>3, <3>2
      <4>2. f[k] = g[k][f[k - 1]]
        BY <1>3, <4>1 DEF Loop
      <4> QED
        BY <4>1, <4>2
    <3> QED
      BY <3>1, <3>2
  <2> HIDE DEF n
  <2> QED
    BY <2>1, <1>3
<1>5. value = Step(value)
  <2> HIDE DEF Step
  <2> QED
    BY <1>4
<1>6. /\ value[0] = 0
      /\ \A k \in 1..n : value[k] = 10 * value[k - 1] + text[k]
  <2> HIDE DEF value, n
  <2> QED
    BY <1>1, <1>5
<1>9. value = [k \in 0..n |-> value[k]]
  <2> HIDE DEF value, n
  <2> QED
    BY <1>5
<1>7. \A k \in 0..n : value[k] \in Nat
  <2> HIDE DEF value, n
  <2>1. ASSUME NEW k \in 1..n, value[k - 1] \in Nat PROVE value[k] \in Nat
    <3>1. text[k] \in Nat
      BY <1>0
    <3>2. value[k] = 10 * value[k - 1] + text[k]
      BY <1>6
    <3> QED
      BY <2>1, <3>1, <3>2
  <2>2. value[0] \in Nat
    BY <1>6
  <2> QED
    BY <1>1, <2>1, <2>2, NumbersThroughout
<1>8. Read(text) = value[n]
  BY DEF Read
<1> HIDE DEF value, n
<1> QED
  BY <1>6, <1>7, <1>8, <1>9 DEF n

\* What taking digits off a number leaves after each.
LEMMA SpellsSteps ==
    ASSUME NEW text \in Seq(Nat), NEW x \in Nat
    PROVE  \E l \in [0..Len(text) -> Nat] :
                /\ l[0] = x
                /\ \A k \in 1..Len(text) : l[k] = l[k - 1] \div 10
                /\ Spells(text, x) <=>
                        /\ l[Len(text)] = 0
                        /\ \A k \in 1..Len(text) : text[Len(text) + 1 - k] = l[k - 1] % 10
<1> DEFINE n == Len(text)
           g == [k \in 1..n |-> [y \in Nat |-> y \div 10]]
           Step(f) == [k \in 0..n |-> IF k = 0 THEN x ELSE f[k - 1] \div 10]
           left == CHOOSE f : f = Step(f)
<1>1. n \in Nat
  OBVIOUS
<1>2. g \in [1..n -> [Nat -> Nat]]
  BY DivMod
<1>3. PICK f \in [0..n -> Nat] : Loop(n, f, x, g)
  <2> HIDE DEF n, g
  <2> QED
    BY <1>1, <1>2, LoopHasStates
<1>4. f = Step(f)
  <2>1. ASSUME NEW k \in 0..n PROVE f[k] = IF k = 0 THEN x ELSE f[k - 1] \div 10
    <3>1. CASE k = 0
      BY <1>3, <3>1 DEF Loop
    <3>2. CASE k # 0
      <4>1. k \in 1..n /\ f[k - 1] \in Nat
        <5> HIDE DEF n, g
        <5> QED
          BY <1>1, <1>3, <3>2
      <4>2. f[k] = g[k][f[k - 1]]
        BY <1>3, <4>1 DEF Loop
      <4> QED
        BY <4>1, <4>2
    <3> QED
      BY <3>1, <3>2
  <2> HIDE DEF n
  <2> QED
    BY <2>1, <1>3
<1>5. left = Step(left)
  <2> HIDE DEF Step
  <2> QED
    BY <1>4
<1>6. /\ left[0] = x
      /\ \A k \in 1..n : left[k] = left[k - 1] \div 10
  <2> HIDE DEF left, n
  <2> QED
    BY <1>1, <1>5
<1>9. left = [k \in 0..n |-> left[k]]
  <2> HIDE DEF left, n
  <2> QED
    BY <1>5
<1>7. \A k \in 0..n : left[k] \in Nat
  <2> HIDE DEF left, n
  <2>1. ASSUME NEW k \in 1..n, left[k - 1] \in Nat PROVE left[k] \in Nat
    BY <1>6, <2>1, DivMod
  <2> QED
    BY <1>1, <1>6, <2>1, NumbersThroughout
<1>8. Spells(text, x) <=> /\ left[n] = 0
                          /\ \A k \in 1..n : text[n + 1 - k] = left[k - 1] % 10
  BY DEF Spells
<1> HIDE DEF left, n
<1> QED
  BY <1>6, <1>7, <1>8, <1>9 DEF n

\* A digit is taken off as it was put on.
LEMMA DigitOff ==
    ASSUME NEW m \in Nat, NEW d \in 0..9
    PROVE  (10 * m + d) \div 10 = m /\ (10 * m + d) % 10 = d
  BY SMT

\* The conversion reads x exactly from the digits that spell x: reading from
\* the left and taking off from the right meet at every place of the text.
LEMMA SpellsIsRead ==
    ASSUME NEW text \in Seq(Nat), NEW x \in Nat
    PROVE  Spells(text, x) <=> Read(text) = x /\ \A i \in DOMAIN text : text[i] \in Digit
<1> DEFINE n == Len(text)
<1>1. n \in Nat /\ DOMAIN text = 1..n /\ \A k \in 1..n : text[k] \in Nat
  OBVIOUS
<1>2. PICK v \in [0..n -> Nat] :
            /\ v[0] = 0
            /\ \A k \in 1..n : v[k] = 10 * v[k - 1] + text[k]
            /\ Read(text) = v[n]
  BY ReadSteps
<1>3. PICK l \in [0..n -> Nat] :
            /\ l[0] = x
            /\ \A k \in 1..n : l[k] = l[k - 1] \div 10
            /\ Spells(text, x) <=> /\ l[n] = 0
                                   /\ \A k \in 1..n : text[n + 1 - k] = l[k - 1] % 10
  BY SpellsSteps
<1> HIDE DEF n
<1>4. ASSUME Spells(text, x)
      PROVE  Read(text) = x /\ \A i \in DOMAIN text : text[i] \in Digit
  <2>1. \A k \in 1..n : text[k] = l[n - k] % 10 /\ l[n + 1 - k] = l[n - k] \div 10
    <3> SUFFICES ASSUME NEW k \in 1..n
                 PROVE  text[k] = l[n - k] % 10 /\ l[n + 1 - k] = l[n - k] \div 10
      OBVIOUS
    <3> DEFINE j == n + 1 - k
    <3>1. j \in 1..n /\ n + 1 - j = k /\ j - 1 = n - k
      BY <1>1
    <3>2. text[n + 1 - j] = l[j - 1] % 10 /\ l[j] = l[j - 1] \div 10
      <4> HIDE DEF j
      <4> QED
        BY <1>3, <1>4, <3>1
    <3> QED
      BY <3>1, <3>2
  <2> DEFINE T == {k \in 0..n : v[k] # l[n - k]}
  <2>2. ASSUME T # {} PROVE FALSE
    <3>0. T \subseteq 0..n /\ T \subseteq Nat
      BY <1>1
    <3>1. PICK m \in T : \A i \in T : m <= i
      <4> HIDE DEF T
      <4> QED
        BY <2>2, <3>0, LeastNumber
    <3>2. m # 0
      BY <1>1, <1>2, <1>3, <1>4
    <3>3. m \in 1..n /\ m - 1 \in 0..n /\ m - 1 \notin T
      <4> HIDE DEF T
      <4> QED
        BY <1>1, <3>0, <3>1, <3>2
    <3>4. v[m - 1] = l[n - (m - 1)] /\ n - (m - 1) = n + 1 - m
      BY <1>1, <3>3
    <3>5. v[m] = 10 * (l[n - m] \div 10) + (l[n - m] % 10)
      BY <1>2, <2>1, <3>3, <3>4
    <3>6. l[n - m] \in Nat
      BY <1>1, <1>3, <3>3
    <3>7. l[n - m] = 10 * (l[n - m] \div 10) + (l[n - m] % 10)
      BY <3>6
    <3> QED
      BY <3>5, <3>7
  <2>3. v[n] = l[n - n] /\ n - n = 0
    BY <1>1, <2>2
  <2>4. \A k \in 1..n : text[k] \in Digit
    <3> SUFFICES ASSUME NEW k \in 1..n PROVE text[k] \in Digit
      OBVIOUS
    <3>1. n - k \in 0..n
      BY <1>1
    <3>2. l[n - k] \in Nat /\ text[k] = l[n - k] % 10
      BY <1>3, <2>1, <3>1
    <3>3. l[n - k] % 10 \in 0..9
      BY <3>2
    <3> QED
      BY <3>2, <3>3 DEF Digit
  <2> QED
    BY <1>1, <1>2, <1>3, <2>3, <2>4
<1>5. ASSUME Read(text) = x, \A i \in DOMAIN text : text[i] \in Digit
      PROVE  Spells(text, x)
  <2>1. ASSUME NEW k \in 1..n
        PROVE  v[k] \div 10 = v[k - 1] /\ v[k] % 10 = text[k]
    <3>0. k - 1 \in 0..n
      BY <1>1
    <3>1. v[k - 1] \in Nat /\ text[k] \in 0..9
      BY <1>1, <1>2, <1>5, <3>0 DEF Digit
    <3>2. v[k] = 10 * v[k - 1] + text[k]
      BY <1>2
    <3>3. /\ (10 * v[k - 1] + text[k]) \div 10 = v[k - 1]
          /\ (10 * v[k - 1] + text[k]) % 10 = text[k]
      BY <3>1, DigitOff
    <3> QED
      BY <3>2, <3>3
  <2> DEFINE T == {k \in 0..n : l[k] # v[n - k]}
  <2>2. ASSUME T # {} PROVE FALSE
    <3>0. T \subseteq 0..n /\ T \subseteq Nat
      BY <1>1
    <3>1. PICK m \in T : \A i \in T : m <= i
      <4> HIDE DEF T
      <4> QED
        BY <2>2, <3>0, LeastNumber
    <3>2. m # 0
      <4>1. n - 0 = n /\ l[0] = v[n]
        BY <1>1, <1>2, <1>3, <1>5
      <4> QED
        BY <4>1
    <3>3. m \in 1..n /\ m - 1 \in 0..n /\ m - 1 \notin T
      <4> HIDE DEF T
      <4> QED
        BY <1>1, <3>0, <3>1, <3>2
    <3>4. l[m - 1] = v[n + 1 - m]
      <4>1. l[m - 1] = v[n - (m - 1)] /\ n - (m - 1) = n + 1 - m
        BY <1>1, <3>3
      <4> QED
        BY <4>1
    <3>5. v[n + 1 - m] \div 10 = v[n - m]
      <4>1. n + 1 - m \in 1..n /\ (n + 1 - m) - 1 = n - m
        BY <1>1, <3>3
      <4> QED
        BY <2>1, <4>1
    <3>6. l[m] = l[m - 1] \div 10
      BY <1>3, <3>3
    <3> QED
      BY <3>4, <3>5, <3>6
  <2>3. \A k \in 0..n : l[k] = v[n - k]
    BY <2>2
  <2>4. l[n] = 0
    <3>1. n \in 0..n /\ n - n = 0
      BY <1>1
    <3> QED
      BY <1>2, <2>3, <3>1
  <2>5. ASSUME NEW k \in 1..n PROVE text[n + 1 - k] = l[k - 1] % 10
    <3>1. n + 1 - k \in 1..n /\ k - 1 \in 0..n /\ n - (k - 1) = n + 1 - k
      BY <1>1
    <3>2. l[k - 1] = v[n + 1 - k]
      BY <2>3, <3>1
    <3> QED
      BY <2>1, <3>1, <3>2
  <2> QED
    BY <1>3, <2>4, <2>5
<1> QED
  BY <1>4, <1>5

\* A text that isDigitStr takes is usable exactly if it is neither zero nor too
\* large for an int or for a datagram.
LEMMA UsableSize ==
    ASSUME NEW text \in Seq(Nat)
    PROVE  Usable(text) <=>
                isDigitStr(text) /\ ToInt(text) # 0 /\ ToInt(text) + Header <= MaxDatagram
<1>1. Read(text) \in Nat
  BY ReadSteps
<1>2. text = <<>> => Read(text) = 0
  BY ReadSteps
<1>3. Usable(text) <=> /\ Read(text) \in 1..(MaxDatagram - Header)
                       /\ \A i \in DOMAIN text : text[i] \in Digit
  <2>1. 1..(MaxDatagram - Header) \subseteq Nat
    BY WidthAssumption
  <2> QED
    BY <2>1, SpellsIsRead DEF Usable
<1> QED
  BY <1>1, <1>2, <1>3, WidthAssumption DEF isDigitStr, ToInt

\* Whatever text of whatever length is typed, and whatever an int and a datagram
\* hold: a script is sent exactly if there is one and the text spells a number
\* from 1 to what a datagram has room for.
THEOREM TasksSendExactly == Spec => []SentExactly
<1>1. TaskInv => SentExactly
  <2> SUFFICES ASSUME TaskInv, Done("cut")
               PROVE  result.end = "sent" <=> task.len > 0 /\ Usable(task.text)
    BY DEF SentExactly
  <2>1. /\ task.len \in Nat /\ task.text \in Seq(Nat)
        /\ result = Begin(task.len, task.text, task.slack)
    BY DEF TaskInv, TaskOK, ResultOK, Done
  <2>2. ToInt(task.text) \in Nat
    BY <2>1, ReadSteps DEF ToInt
  <2>3. result.end = "sent" <=>
            /\ isDigitStr(task.text) /\ task.len # 0 /\ ToInt(task.text) # 0
            /\ ~(ToInt(task.text) + Header > MaxDatagram)
    BY <2>1 DEF Begin
  <2> QED
    BY <2>1, <2>2, <2>3, UsableSize, WidthAssumption
<1> QED
  BY <1>1, TaskInvHolds, PTL

-----------------------------------------------------------------------------
\* Angles grow by at least a degree up to 360 machines, and by none beyond.
LEMMA AnglesApart ==
    ASSUME NEW n \in Nat \ {0}, NEW i \in 0..(n - 1), NEW j \in 0..(n - 1), i # j
    PROVE  /\ Rotated(i, n) # Rotated(j, n) <=> n <= 360
           /\ Rotated(i, n) < 360
<1> DEFINE d == 360 \div n
<1>1. d \in Nat /\ d * n <= 360 /\ 360 < (d + 1) * n
  <2>1. d \in Nat /\ 360 % n \in Nat /\ 360 = d * n + (360 % n) /\ 360 % n < n
    BY DivMod
  <2>2. (d + 1) * n = d * n + n /\ d * n \in Nat
    BY <2>1
  <2> QED
    BY <2>1, <2>2
<1>2. d * i < 360
  <2>1. d * i <= d * (n - 1)
    BY <1>1
  <2>2. d * (n - 1) = d * n - d
    BY <1>1
  <2> QED
    BY <1>1, <2>1, <2>2
<1>3. CASE n <= 360
  <2>1. d > 0
    BY <1>1, <1>3
  <2>2. d * i # d * j
    BY <1>1, <2>1
  <2> QED
    BY <1>2, <1>3, <2>2 DEF Rotated
<1>4. CASE n > 360
  <2>1. d = 0
    BY <1>1, <1>4
  <2>2. d * i = 0 /\ d * j = 0
    BY <2>1
  <2> QED
    BY <1>2, <1>4, <2>2 DEF Rotated
<1> QED
  BY <1>3, <1>4

\* However many machines are connected, each is painted once, and at a place
\* of its own exactly while there are no more than 360.
THEOREM MachinesPaintedApart == Spec => []MachinesApart
<1>1. TaskInv => MachinesApart
  <2> SUFFICES ASSUME TaskInv, Done("paint") PROVE MachinesApart
    BY DEF MachinesApart
  <2> DEFINE n == task.setPcNum
  <2>1. n \in Nat \ {0} /\ n >= 7
    BY BoundAssumption DEF TaskInv, TaskOK, Done
  <2>2. Len(getInput(<<>>, n)) = n
    BY <2>1 DEF getInput
  <2>3. /\ Len(result) = n /\ DOMAIN result = 1..n
        /\ \A i \in 1..n : result[i].angle = Rotated(i - 1, n)
    BY <2>1, <2>2 DEF TaskInv, ResultOK, paintEvent
  <2>4. ASSUME NEW i \in 1..n, NEW j \in 1..n, i # j
        PROVE  /\ result[i].angle # result[j].angle <=> n <= 360
               /\ result[i].angle < 360
    <3>1. i - 1 \in 0..(n - 1) /\ j - 1 \in 0..(n - 1) /\ i - 1 # j - 1
      BY <2>1, <2>4
    <3>2. /\ Rotated(i - 1, n) # Rotated(j - 1, n) <=> n <= 360
          /\ Rotated(i - 1, n) < 360
      BY <2>1, <3>1, AnglesApart
    <3> QED
      BY <2>3, <3>2
  <2>5. \A i \in 1..n : \E j \in 1..n : i # j
    BY <2>1
  <2> HIDE DEF n
  <2> QED
    BY <2>3, <2>4, <2>5 DEF MachinesApart, n
<1> QED
  BY <1>1, TaskInvHolds, PTL

=============================================================================
