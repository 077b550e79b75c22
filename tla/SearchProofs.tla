---------------------------- MODULE SearchProofs ----------------------------
(***************************************************************************)
(* What the search of /etc/odbc.ini finds in a file of any length, and     *)
(* what the dialogs emit after any number of clicks in any database: the   *)
(* invariants of the loop and of the boxes.                                *)
(***************************************************************************)
EXTENDS Algorithms, TLAPS

Typing == [section : STRING, value : [Wanted -> STRING]]

\* Line j is in a section of the name typed, or begins one.
InSection(lines, typed, j) ==
    \E i \in Sections(lines, typed) : j \in Body(lines, i) \union {i}

\* A line of such a section among the first n says v for key k.
Says(lines, typed, n, k, v) ==
    \E j \in 1..n : /\ InSection(lines, typed, j)
                    /\ k \in lines[j].keys /\ lines[j].value = v

StateOK(s, lines) ==
    /\ s.at \in 0..Len(lines)
    /\ s.record \in BOOLEAN /\ s.setting_localhost \in BOOLEAN /\ s.find_dsn \in BOOLEAN

\* The variables tell of the lines read: whether the last one is in a section
\* of the name typed, and what some line of such a section said.
Tells(s, lines, typed) ==
    /\ s.record <=> InSection(lines, typed, s.at)
    /\ \A k \in Wanted : s.value[k] # "" => Says(lines, typed, s.at, k, s.value[k])
    /\ s.setting_localhost =>
            \E v \in Localhost : Says(lines, typed, s.at, "SERVER", v)
    /\ s.find_dsn => Matches(s, typed)

\* In a well-formed file what a section said is kept to its end ...
Keeps(s, lines, typed) ==
    \A i \in Sections(lines, typed) : \A j \in Body(lines, i) : \A k \in lines[j].keys :
        j <= s.at =>
            /\ s.value[k] = lines[j].value
            /\ k = "SERVER" /\ lines[j].value \in Localhost => s.setting_localhost

\* ... and found as soon as it is complete.
Misses(s, lines, typed) ==
    s.find_dsn \/ \A i \in Sections(lines, typed) : \E k \in Wanted :
        \A j \in Body(lines, i) :
            j <= s.at => ~(k \in lines[j].keys /\ Same(k, lines[j].value, typed))

LoopInv(s, lines, typed) ==
    /\ StateOK(s, lines) /\ Tells(s, lines, typed)
    /\ WellFormed(lines, typed) => Keeps(s, lines, typed) /\ Misses(s, lines, typed)

-----------------------------------------------------------------------------
LEMMA SectionLines ==
    ASSUME NEW lines \in Seq(Line), NEW typed \in Typing, NEW i \in Sections(lines, typed)
    PROVE  /\ i \in 1..Len(lines) /\ lines[i].section = typed.section
           /\ typed.section # NoSection
           /\ Body(lines, i) \subseteq (i + 1)..Len(lines)
           /\ \A j \in Body(lines, i) : lines[j].section = NoSection
<1>1. i \in 1..Len(lines) /\ lines[i].section = typed.section
  BY DEF Sections
<1>2. typed.section # NoSection
  BY FilesAssumption DEF Typing
<1>3. ASSUME NEW j \in Body(lines, i)
      PROVE  j \in (i + 1)..Len(lines) /\ lines[j].section = NoSection
  <2>1. j \in (i + 1)..Len(lines) /\ \A k \in (i + 1)..j : lines[k].section = NoSection
    BY <1>3 DEF Body
  <2>2. j \in (i + 1)..j
    BY <1>1, <2>1
  <2> QED
    BY <2>1, <2>2
<1> QED
  BY <1>1, <1>2, <1>3

\* A line without a "[" is in the section of the line before it, one with a
\* "[" in its own.
LEMMA NextInSection ==
    ASSUME NEW lines \in Seq(Line), NEW typed \in Typing, NEW n \in 0..(Len(lines) - 1)
    PROVE  InSection(lines, typed, n + 1) <=>
                IF lines[n + 1].section = NoSection THEN InSection(lines, typed, n)
                ELSE lines[n + 1].section = typed.section
<1>0. n \in Nat /\ Len(lines) \in Nat /\ n + 1 \in 1..Len(lines)
  OBVIOUS
<1>1. CASE lines[n + 1].section = NoSection
  <2>1. ASSUME NEW i \in Sections(lines, typed)
        PROVE  n + 1 \in Body(lines, i) \union {i} <=> n \in Body(lines, i) \union {i}
    <3>1. i \in 1..Len(lines) /\ i # n + 1
      BY <1>1, <2>1, SectionLines
    <3>2. n + 1 \in Body(lines, i) => n \in Body(lines, i) \union {i}
      <4> SUFFICES ASSUME n + 1 \in Body(lines, i), n # i PROVE n \in Body(lines, i)
        OBVIOUS
      <4>1. /\ n + 1 \in (i + 1)..Len(lines)
            /\ \A k \in (i + 1)..(n + 1) : lines[k].section = NoSection
        BY DEF Body
      <4>2. n \in (i + 1)..Len(lines) /\ (i + 1)..n \subseteq (i + 1)..(n + 1)
        BY <1>0, <3>1, <4>1
      <4> QED
        BY <4>1, <4>2 DEF Body
    <3>3. n \in Body(lines, i) \union {i} => n + 1 \in Body(lines, i)
      <4> SUFFICES ASSUME n \in Body(lines, i) \union {i} PROVE n + 1 \in Body(lines, i)
        OBVIOUS
      <4>1. n = i \/ /\ n \in (i + 1)..Len(lines)
                     /\ \A k \in (i + 1)..n : lines[k].section = NoSection
        BY DEF Body
      <4>2. n + 1 \in (i + 1)..Len(lines)
        BY <1>0, <3>1, <4>1
      <4>3. ASSUME NEW k \in (i + 1)..(n + 1) PROVE lines[k].section = NoSection
        <5>1. k = n + 1 \/ k \in (i + 1)..n
          BY <1>0, <3>1, <4>3
        <5>2. n = i => k = n + 1
          BY <1>0, <3>1, <4>3
        <5> QED
          BY <1>1, <4>1, <5>1, <5>2
      <4> QED
        BY <4>2, <4>3 DEF Body
    <3> QED
      BY <3>1, <3>2, <3>3
  <2> QED
    BY <1>1, <2>1 DEF InSection
<1>2. CASE lines[n + 1].section # NoSection
  <2>1. \A i \in Sections(lines, typed) : n + 1 \notin Body(lines, i)
    BY <1>2, SectionLines
  <2>2. n + 1 \in Sections(lines, typed) <=> lines[n + 1].section = typed.section
    BY <1>0 DEF Sections
  <2> QED
    BY <1>2, <2>1, <2>2 DEF InSection
<1> QED
  BY <1>1, <1>2

\* What a round of the loop does.
LEMMA RoundEffect ==
    ASSUME NEW s, NEW line, NEW typed
    PROVE  LET t == ReadLine(s, line, typed)
           IN  /\ t.at = s.at + 1 /\ t.record = Record(s, line, typed)
               /\ t.value = [k \in Wanted |-> IF t.record /\ k \in line.keys
                                              THEN line.value ELSE s.value[k]]
               /\ t.setting_localhost =
                    (s.setting_localhost \/ t.value["SERVER"] \in Localhost)
               /\ t.find_dsn = Matches(t, typed)
BY DEF ReadLine, Matches

-----------------------------------------------------------------------------
\* The first line has no line before it.
LEMMA NothingBefore ==
    ASSUME NEW lines \in Seq(Line), NEW typed \in Typing
    PROVE  ~InSection(lines, typed, 0)
<1>1. ASSUME NEW i \in Sections(lines, typed) PROVE 0 \notin Body(lines, i) \union {i}
  <2>1. i \in 1..Len(lines) /\ Body(lines, i) \subseteq (i + 1)..Len(lines)
    BY SectionLines
  <2> QED
    BY <2>1
<1> QED
  BY <1>1 DEF InSection

LEMMA LoopStarts ==
    ASSUME NEW lines \in Seq(Line), NEW typed \in Typing
    PROVE  LoopInv(Start, lines, typed)
<1>1. StateOK(Start, lines)
  BY DEF StateOK, Start
<1>2. Tells(Start, lines, typed)
  BY NothingBefore DEF Tells, Start
<1>3. \A i \in Sections(lines, typed) : \A j \in Body(lines, i) : ~(j <= 0)
  <2> SUFFICES ASSUME NEW i \in Sections(lines, typed), NEW j \in Body(lines, i)
               PROVE  ~(j <= 0)
    OBVIOUS
  <2>1. i \in 1..Len(lines) /\ j \in (i + 1)..Len(lines)
    BY SectionLines
  <2> QED
    BY <2>1
<1>4. Keeps(Start, lines, typed)
  BY <1>3 DEF Keeps, Start
<1>5. Misses(Start, lines, typed)
  <2>1. "UID" \in Wanted
    BY DEF Wanted
  <2> QED
    BY <1>3, <2>1 DEF Misses, Start
<1> QED
  BY <1>1, <1>2, <1>4, <1>5 DEF LoopInv

\* What record becomes: whether the line read is in a section of the name typed.
LEMMA RoundRecord ==
    ASSUME NEW lines \in Seq(Line), NEW typed \in Typing, NEW s,
           Tells(s, lines, typed), s.at \in 0..(Len(lines) - 1)
    PROVE  Record(s, lines[s.at + 1], typed) <=> InSection(lines, typed, s.at + 1)
<1> DEFINE n == s.at
           line == lines[n + 1]
<1>1. InSection(lines, typed, n + 1) <=>
        IF line.section = NoSection THEN InSection(lines, typed, n)
        ELSE line.section = typed.section
  BY NextInSection
<1>2. s.record <=> InSection(lines, typed, n)
  BY DEF Tells
<1> HIDE DEF n, line
<1>3. Record(s, line, typed) <=> InSection(lines, typed, n + 1)
  <2>1. CASE line.section = NoSection
    BY <1>1, <1>2, <2>1 DEF Record
  <2>2. CASE line.section # NoSection
    BY <1>1, <2>2 DEF Record
  <2> QED
    BY <2>1, <2>2
<1> QED
  BY <1>3 DEF n, line

LEMMA RoundTells ==
    ASSUME NEW lines \in Seq(Line), NEW typed \in Typing, NEW s,
           StateOK(s, lines), Tells(s, lines, typed), Searching(s, lines)
    PROVE  LET t == ReadLine(s, lines[s.at + 1], typed)
           IN  StateOK(t, lines) /\ Tells(t, lines, typed)
<1> DEFINE n == s.at
           line == lines[n + 1]
           t == ReadLine(s, line, typed)
<1>1. n \in 0..(Len(lines) - 1) /\ n \in Nat /\ n + 1 \in 1..Len(lines)
  BY DEF StateOK, Searching
<1>3. /\ t.at = n + 1 /\ t.record = Record(s, line, typed)
      /\ t.value = [k \in Wanted |-> IF t.record /\ k \in line.keys
                                     THEN line.value ELSE s.value[k]]
      /\ t.setting_localhost = (s.setting_localhost \/ t.value["SERVER"] \in Localhost)
      /\ t.find_dsn = Matches(t, typed)
  BY RoundEffect
<1> HIDE DEF t
<1>4. t.record \in BOOLEAN
  BY <1>3 DEF Record, StateOK
<1>5. StateOK(t, lines)
  <2>1. t.find_dsn \in BOOLEAN
    BY <1>3, <1>4 DEF Matches
  <2>2. t.setting_localhost \in BOOLEAN
    BY <1>3 DEF StateOK
  <2> QED
    BY <1>1, <1>3, <1>4, <2>1, <2>2 DEF StateOK
<1>6. t.record <=> InSection(lines, typed, n + 1)
  BY <1>1, <1>3, RoundRecord
<1>7. ASSUME NEW k \in Wanted, NEW v
      PROVE  /\ Says(lines, typed, n, k, v) => Says(lines, typed, n + 1, k, v)
             /\ t.record /\ k \in line.keys /\ v = line.value
                    => Says(lines, typed, n + 1, k, v)
  <2>1. 1..n \subseteq 1..(n + 1) /\ n + 1 \in 1..(n + 1)
    BY <1>1
  <2> QED
    BY <1>6, <2>1 DEF Says
<1>8. ASSUME NEW k \in Wanted, t.value[k] # ""
      PROVE  Says(lines, typed, n + 1, k, t.value[k])
  BY <1>3, <1>7, <1>8 DEF Tells
<1>9. ASSUME t.setting_localhost
      PROVE  \E v \in Localhost : Says(lines, typed, n + 1, "SERVER", v)
  <2>1. "SERVER" \in Wanted
    BY DEF Wanted
  <2>2. CASE s.setting_localhost
    BY <1>7, <2>1, <2>2 DEF Tells
  <2>3. CASE t.value["SERVER"] \in Localhost
    BY <1>8, <2>1, <2>3, LocalhostAssumption
  <2> QED
    BY <1>3, <1>9, <2>2, <2>3
<1>10. Tells(t, lines, typed)
  BY <1>3, <1>6, <1>8, <1>9 DEF Tells
<1> QED
  BY <1>5, <1>10 DEF t

\* No line of a section of the name typed but the last one read says what
\* this one says.
LEMMA RoundKeeps ==
    ASSUME NEW lines \in Seq(Line), NEW typed \in Typing, NEW s,
           StateOK(s, lines), Tells(s, lines, typed), Searching(s, lines),
           WellFormed(lines, typed), Keeps(s, lines, typed)
    PROVE  Keeps(ReadLine(s, lines[s.at + 1], typed), lines, typed)
<1> DEFINE n == s.at
           line == lines[n + 1]
           t == ReadLine(s, line, typed)
<1>1. n \in 0..(Len(lines) - 1) /\ n \in Nat /\ n + 1 \in 1..Len(lines)
  BY DEF StateOK, Searching
<1>2. /\ t.at = n + 1 /\ t.record = Record(s, line, typed)
      /\ t.value = [k \in Wanted |-> IF t.record /\ k \in line.keys
                                     THEN line.value ELSE s.value[k]]
      /\ t.setting_localhost = (s.setting_localhost \/ t.value["SERVER"] \in Localhost)
  BY RoundEffect
<1>3. t.record <=> InSection(lines, typed, n + 1)
  BY <1>1, <1>2, RoundRecord
<1> HIDE DEF t
<1> SUFFICES ASSUME NEW i \in Sections(lines, typed), NEW j \in Body(lines, i),
                    NEW k \in lines[j].keys, j <= n + 1
             PROVE  /\ t.value[k] = lines[j].value
                    /\ k = "SERVER" /\ lines[j].value \in Localhost => t.setting_localhost
  BY <1>2 DEF Keeps, t
<1>4. i \in 1..Len(lines) /\ j \in (i + 1)..Len(lines) /\ j \in 1..Len(lines)
  BY SectionLines
<1>5. k \in Wanted
  <2>1. lines[j] \in Line
    BY <1>4
  <2> QED
    BY <2>1 DEF Line
<1>6. CASE j = n + 1
  <2>1. t.record
    BY <1>3, <1>6 DEF InSection
  <2> QED
    BY <1>2, <1>5, <1>6, <2>1
<1>7. CASE j <= n
  <2>1. /\ s.value[k] = lines[j].value
        /\ k = "SERVER" /\ lines[j].value \in Localhost => s.setting_localhost
    BY <1>7 DEF Keeps
  <2>2. ~(t.record /\ k \in line.keys)
    <3> SUFFICES ASSUME t.record, k \in line.keys PROVE FALSE
      OBVIOUS
    <3>1. PICK i2 \in Sections(lines, typed) : n + 1 \in Body(lines, i2) \union {i2}
      BY <1>3 DEF InSection
    <3>2. i2 = i
      BY <3>1 DEF WellFormed
    <3>3. n + 1 # i
      <4>1. lines[i].section = typed.section /\ typed.section # NoSection
        BY SectionLines
      <4>2. DOMAIN lines = 1..Len(lines)
        OBVIOUS
      <4>3. lines[i].keys = {}
        BY <1>4, <4>1, <4>2 DEF WellFormed
      <4> QED
        BY <4>3
    <3>4. n + 1 \in Body(lines, i)
      BY <3>1, <3>2, <3>3
    <3>5. j = n + 1
      BY <3>4 DEF WellFormed
    <3> QED
      BY <1>1, <1>4, <1>7, <3>5
  <2> QED
    BY <1>2, <1>5, <2>1, <2>2
<1> QED
  BY <1>1, <1>4, <1>6, <1>7

\* The round that reads the last thing a section has to say finds it.
LEMMA RoundMisses ==
    ASSUME NEW lines \in Seq(Line), NEW typed \in Typing, NEW s,
           StateOK(s, lines), Tells(s, lines, typed), Searching(s, lines),
           Misses(s, lines, typed),
           Keeps(ReadLine(s, lines[s.at + 1], typed), lines, typed)
    PROVE  Misses(ReadLine(s, lines[s.at + 1], typed), lines, typed)
<1> DEFINE n == s.at
           line == lines[n + 1]
           t == ReadLine(s, line, typed)
<1>1. n \in 0..(Len(lines) - 1) /\ n \in Nat /\ n + 1 \in 1..Len(lines)
  BY DEF StateOK, Searching
<1>2. /\ t.at = n + 1 /\ t.record = Record(s, line, typed)
      /\ t.value = [k \in Wanted |-> IF t.record /\ k \in line.keys
                                     THEN line.value ELSE s.value[k]]
      /\ t.setting_localhost = (s.setting_localhost \/ t.value["SERVER"] \in Localhost)
      /\ t.find_dsn = Matches(t, typed)
  BY RoundEffect
<1>3. t.record <=> InSection(lines, typed, n + 1)
  BY <1>1, <1>2, RoundRecord
<1>4. Keeps(t, lines, typed)
  OBVIOUS
<1> HIDE DEF t
<1> SUFFICES ASSUME NEW i \in Sections(lines, typed),
                    \A k \in Wanted : \E j \in Body(lines, i) :
                        j <= n + 1 /\ k \in lines[j].keys /\ Same(k, lines[j].value, typed)
             PROVE  Matches(t, typed)
  BY <1>2 DEF Misses, t
<1>5. t.record
  <2>1. PICK k \in Wanted : \A j \in Body(lines, i) :
            j <= n => ~(k \in lines[j].keys /\ Same(k, lines[j].value, typed))
    BY DEF Misses, Searching
  <2>2. PICK j \in Body(lines, i) :
            j <= n + 1 /\ k \in lines[j].keys /\ Same(k, lines[j].value, typed)
    OBVIOUS
  <2>3. i \in 1..Len(lines) /\ j \in (i + 1)..Len(lines)
    BY SectionLines
  <2>4. j = n + 1
    BY <1>1, <2>1, <2>2, <2>3
  <2> QED
    BY <1>3, <2>4 DEF InSection
<1>6. ASSUME NEW k \in Wanted
      PROVE  /\ k # "SERVER" => t.value[k] = typed.value[k]
             /\ k = "SERVER" => \/ t.value[k] = typed.value[k]
                                \/ t.setting_localhost /\ typed.value[k] \in Localhost
  <2>1. PICK j \in Body(lines, i) :
            j <= n + 1 /\ k \in lines[j].keys /\ Same(k, lines[j].value, typed)
    OBVIOUS
  <2>2. /\ t.value[k] = lines[j].value
        /\ k = "SERVER" /\ lines[j].value \in Localhost => t.setting_localhost
    BY <1>2, <1>4, <2>1 DEF Keeps
  <2> QED
    BY <2>1, <2>2 DEF Same
<1> QED
  BY <1>5, <1>6 DEF Matches, Wanted

LEMMA LoopGoesOn ==
    ASSUME NEW lines \in Seq(Line), NEW typed \in Typing, NEW s,
           LoopInv(s, lines, typed), Searching(s, lines)
    PROVE  LoopInv(ReadLine(s, lines[s.at + 1], typed), lines, typed)
BY RoundTells, RoundKeeps, RoundMisses DEF LoopInv

-----------------------------------------------------------------------------
\* What is found is backed.
LEMMA FoundBacked ==
    ASSUME NEW lines \in Seq(Line), NEW typed \in Typing, NEW s,
           LoopInv(s, lines, typed), s.find_dsn
    PROVE  Backed(lines, typed)
<1>1. Matches(s, typed) /\ s.at \in 0..Len(lines)
  BY DEF LoopInv, Tells, StateOK
<1>2. ASSUME NEW k \in Wanted, NEW v, Says(lines, typed, s.at, k, v), Same(k, v, typed)
      PROVE  \E i \in Sections(lines, typed) : \E j \in Body(lines, i) \union {i} :
                k \in lines[j].keys /\ Same(k, lines[j].value, typed)
  BY <1>2 DEF Says, InSection
<1>3. ASSUME NEW k \in Wanted, typed.value[k] # ""
      PROVE  \E v : Says(lines, typed, s.at, k, v) /\ Same(k, v, typed)
  <2>1. CASE s.value[k] = typed.value[k]
    BY <1>3, <2>1 DEF LoopInv, Tells, Same
  <2>2. CASE k = "SERVER" /\ s.setting_localhost /\ typed.value[k] \in Localhost
    <3>1. PICK v \in Localhost : Says(lines, typed, s.at, "SERVER", v)
      BY <2>2 DEF LoopInv, Tells
    <3> QED
      BY <2>2, <3>1 DEF Same
  <2> QED
    BY <1>1, <2>1, <2>2 DEF Matches, Wanted
<1> QED
  BY <1>2, <1>3 DEF Backed

\* In a well-formed file what is backed is defined, and what is defined is not
\* missed.
LEMMA WellFormedFinds ==
    ASSUME NEW lines \in Seq(Line), NEW typed \in Typing, NEW s,
           LoopInv(s, lines, typed), ~Searching(s, lines), WellFormed(lines, typed)
    PROVE  s.find_dsn <=> Defined(lines, typed)
<1>1. ASSUME s.find_dsn PROVE Defined(lines, typed)
  <2>1. Backed(lines, typed)
    BY <1>1, FoundBacked
  <2>2. ASSUME NEW k \in Wanted
        PROVE  \E i \in Sections(lines, typed) : \E j \in Body(lines, i) :
                    k \in lines[j].keys /\ Same(k, lines[j].value, typed)
    <3>1. PICK i \in Sections(lines, typed) : \E j \in Body(lines, i) \union {i} :
                k \in lines[j].keys /\ Same(k, lines[j].value, typed)
      BY <2>1 DEF Backed, WellFormed
    <3>2. i \in DOMAIN lines /\ lines[i].section # NoSection
      <4>1. i \in 1..Len(lines) /\ lines[i].section = typed.section
            /\ typed.section # NoSection
        BY SectionLines
      <4> QED
        BY <4>1
    <3>3. lines[i].keys = {}
      BY <3>2 DEF WellFormed
    <3> QED
      BY <3>1, <3>3
  <2>3. "UID" \in Wanted
    BY DEF Wanted
  <2>4. PICK i \in Sections(lines, typed) : TRUE
    BY <2>2, <2>3
  <2>5. \A i2 \in Sections(lines, typed) : i2 = i
    BY DEF WellFormed
  <2> QED
    BY <2>2, <2>4, <2>5 DEF Defined
<1>2. ASSUME Defined(lines, typed), ~s.find_dsn PROVE FALSE
  <2>1. s.at = Len(lines)
    BY <1>2 DEF Searching, LoopInv, StateOK
  <2>2. PICK i \in Sections(lines, typed) : \A k \in Wanted :
            \E j \in Body(lines, i) :
                k \in lines[j].keys /\ Same(k, lines[j].value, typed)
    BY <1>2 DEF Defined
  <2>3. \A j \in Body(lines, i) : j <= Len(lines)
    BY DEF Body
  <2> QED
    BY <1>2, <2>1, <2>2, <2>3 DEF LoopInv, Misses
<1> QED
  BY <1>1, <1>2

-----------------------------------------------------------------------------
SearchInv ==
    /\ task.of = "search" => task.lines \in Seq(Line) /\ task.typed \in Typing
    /\ Done("search") => LoopInv(result, task.lines, task.typed)

LEMMA SearchInvHolds == Spec => []SearchInv
<1>1. Init => SearchInv
  <2> SUFFICES ASSUME Init PROVE SearchInv
    OBVIOUS
  <2>1. ~Done("search")
    BY DEF Init, Done
  <2>2. ASSUME task.of = "search" PROVE task.lines \in Files /\ task.typed \in Typings
    BY <2>2 DEF Init, RewriteTask, CutTask, PaintTask, SearchTask, PickTask
  <2> QED
    BY <2>1, <2>2, FilesAssumption DEF SearchInv, Typing
<1>2. SearchInv /\ [Next]_vars => SearchInv'
  <2> SUFFICES ASSUME SearchInv, [Next]_vars PROVE SearchInv'
    OBVIOUS
  <2>1. task' = task
    BY DEF Next, vars
  <2>2. CASE UNCHANGED vars
    BY <2>1, <2>2 DEF vars, SearchInv, Done
  <2>3. CASE Search
    <3>1. task.of = "search"
      BY <2>3 DEF Search
    <3>2. CASE result' = Start
      BY <2>1, <3>1, <3>2, LoopStarts DEF SearchInv
    <3>3. CASE /\ result # Nothing /\ Searching(result, task.lines)
               /\ result' = ReadLine(result, task.lines[result.at + 1], task.typed)
      BY <2>1, <3>1, <3>3, LoopGoesOn DEF SearchInv, Done
    <3> QED
      BY <2>3, <3>2, <3>3 DEF Search
  <2>4. CASE Rewrite \/ Cut \/ Paint \/ Pick
    BY <2>1, <2>4 DEF Rewrite, Cut, Paint, Pick, SearchInv, Done
  <2> QED
    BY <2>2, <2>3, <2>4 DEF Next
<1> QED
  BY <1>1, <1>2, PTL DEF Spec

\* In a file of any length in which sections have different names, keys occur
\* once and no value has a bracket, the loop finds the data source exactly if
\* a section defines it.
THEOREM SearchFindsDefined == Spec => []FindsDefined
<1>1. SearchInv => FindsDefined
  BY WellFormedFinds DEF SearchInv, FindsDefined, Done
<1> QED
  BY <1>1, SearchInvHolds, PTL

\* In any file, each value of a data source that is found was given by a
\* section of the name typed.
THEOREM SearchFindsBacked == Spec => []FoundIsBacked
<1>1. SearchInv => FoundIsBacked
  BY FoundBacked DEF SearchInv, FoundIsBacked, Done
<1> QED
  BY <1>1, SearchInvHolds, PTL

-----------------------------------------------------------------------------
\* A box that has items shows one of them; the box of tables has those of the
\* pattern shown once another pattern than the first was clicked.
BoxesOK(d, db) ==
    /\ d.pattern \in ToSet(db.patterns)
    /\ IF d.left THEN d.items = db.tablesOf[d.pattern]
       ELSE d.items = <<>> /\ d.pattern = Head(db.patterns)
    /\ d.left \in BOOLEAN
    /\ IF d.items = <<>> THEN d.table = NoTable ELSE d.table \in ToSet(d.items)

\* What PickedExists says of a table that was picked.
GoodPick(e, db) ==
    LET tables == ToSet(db.tablesOf[e.pattern])
    IN  /\ e.table \in tables \union {NoTable}
        /\ e.table = NoTable <=> tables = {} \/ ~e.left

DialogInv(d, db) ==
    /\ d = [pattern |-> d.pattern, items |-> d.items, table |-> d.table,
            sent |-> d.sent, left |-> d.left]
    /\ BoxesOK(d, db)
    /\ \E S : d.sent \in Seq(S)
    /\ \A n \in DOMAIN d.sent : GoodPick(d.sent[n], db)

LEMMA DatabaseBoxes ==
    ASSUME NEW db \in Databases
    PROVE  /\ Head(db.patterns) \in ToSet(db.patterns)
           /\ \A p \in ToSet(db.patterns) :
                /\ db.tablesOf[p] \in Seq(STRING)
                /\ NoTable \notin ToSet(db.tablesOf[p])
                /\ db.tablesOf[p] # <<>> => Head(db.tablesOf[p]) \in ToSet(db.tablesOf[p])
                /\ db.tablesOf[p] = <<>> <=> ToSet(db.tablesOf[p]) = {}
<1>1. ASSUME NEW s \in Seq(STRING)
      PROVE  /\ s # <<>> => Head(s) \in ToSet(s)
             /\ s = <<>> <=> ToSet(s) = {}
             /\ NoTable \notin ToSet(s)
  <2>1. s # <<>> => 1 \in DOMAIN s /\ Head(s) = s[1]
    OBVIOUS
  <2>2. s = <<>> => DOMAIN s = {}
    OBVIOUS
  <2>3. \A i \in DOMAIN s : s[i] \in STRING
    OBVIOUS
  <2> QED
    BY <2>1, <2>2, <2>3, DatabaseAssumption DEF ToSet
<1> QED
  BY <1>1, DatabaseAssumption

LEMMA DialogOpens ==
    ASSUME NEW db \in Databases
    PROVE  DialogInv(Open(db), db)
<1>1. BoxesOK(Open(db), db)
  BY DatabaseBoxes DEF BoxesOK, Open
<1>2. Open(db).sent \in Seq({}) /\ DOMAIN Open(db).sent = {}
  BY DEF Open
<1> QED
  BY <1>1, <1>2 DEF DialogInv, Open

LEMMA PatternClicked ==
    ASSUME NEW db \in Databases, NEW d, DialogInv(d, db), NEW p \in ToSet(db.patterns)
    PROVE  DialogInv(ChoosePattern(d, p, db), db)
<1> DEFINE left == d.left \/ p # Head(db.patterns)
           tables == db.tablesOf[p]
           e == ChoosePattern(d, p, db)
<1>1. CASE p = d.pattern
  <2>1. e = [pattern |-> d.pattern, items |-> d.items, table |-> d.table,
             sent |-> d.sent, left |-> left]
    BY <1>1 DEF DialogInv, ChoosePattern
  <2>2. left = d.left
    BY <1>1 DEF DialogInv, BoxesOK
  <2>3. e = d
    BY <2>1, <2>2 DEF DialogInv
  <2> QED
    BY <2>3
<1>2. CASE p # d.pattern
  <2>1. e = [pattern |-> p, items |-> tables, table |-> Shown(tables),
             sent |-> d.sent, left |-> left]
    BY <1>2 DEF DialogInv, ChoosePattern, AttachChose
  <2>2. left = TRUE
    BY <1>2 DEF DialogInv, BoxesOK
  <2> HIDE DEF e, left
  <2>3. /\ tables # <<>> => Head(tables) \in ToSet(tables)
        /\ Shown(tables) = IF tables = <<>> THEN NoTable ELSE Head(tables)
    BY DatabaseBoxes DEF Shown
  <2>4. BoxesOK(e, db)
    BY <2>1, <2>2, <2>3 DEF BoxesOK
  <2>5. e.sent = d.sent
    BY <2>1
  <2> QED
    BY <2>1, <2>4, <2>5 DEF DialogInv, e
<1> QED
  BY <1>1, <1>2

LEMMA TableClicked ==
    ASSUME NEW db \in Databases, NEW d, DialogInv(d, db), NEW t \in ToSet(d.items)
    PROVE  DialogInv(ChooseTable(d, t), db)
<1> DEFINE e == ChooseTable(d, t)
<1>1. e = [pattern |-> d.pattern, items |-> d.items, table |-> t,
           sent |-> d.sent, left |-> d.left]
  BY DEF DialogInv, ChooseTable
<1>2. d.items # <<>>
  BY DEF ToSet
<1> HIDE DEF e
<1>3. BoxesOK(e, db)
  BY <1>1, <1>2 DEF DialogInv, BoxesOK
<1> QED
  BY <1>1, <1>3 DEF DialogInv, e

LEMMA AddClicked ==
    ASSUME NEW db \in Databases, NEW d, DialogInv(d, db)
    PROVE  DialogInv(Add(d), db)
<1> DEFINE pick == [pattern |-> d.pattern, table |-> d.table, left |-> d.left]
           e == Add(d)
<1>0. d = [pattern |-> d.pattern, items |-> d.items, table |-> d.table,
           sent |-> d.sent, left |-> d.left]
  BY DEF DialogInv
<1>1. e = [pattern |-> d.pattern, items |-> d.items, table |-> d.table,
           sent |-> Append(d.sent, pick), left |-> d.left]
  BY <1>0 DEF Add
<1>2. GoodPick(pick, db)
  <2>1. BoxesOK(d, db)
    BY DEF DialogInv
  <2>2. pick.pattern = d.pattern /\ pick.table = d.table /\ pick.left = d.left
    OBVIOUS
  <2> HIDE DEF pick
  <2>3. CASE d.left
    <3> DEFINE tables == ToSet(d.items)
    <3>1. d.items = db.tablesOf[d.pattern] /\ d.pattern \in ToSet(db.patterns)
      BY <2>1, <2>3 DEF BoxesOK
    <3>2. NoTable \notin tables /\ (d.items = <<>> <=> tables = {})
      BY <3>1, DatabaseBoxes
    <3>3. IF d.items = <<>> THEN d.table = NoTable ELSE d.table \in tables
      BY <2>1 DEF BoxesOK
    <3> HIDE DEF tables
    <3>4. /\ d.table \in tables \union {NoTable}
          /\ d.table = NoTable <=> tables = {}
      BY <3>2, <3>3
    <3> QED
      BY <2>2, <2>3, <3>1, <3>4 DEF GoodPick, tables
  <2>4. CASE ~d.left
    BY <2>1, <2>2, <2>4 DEF BoxesOK, GoodPick
  <2> QED
    BY <2>3, <2>4
<1> HIDE DEF e, pick
<1>3. BoxesOK(e, db)
  BY <1>1 DEF DialogInv, BoxesOK
<1>4. PICK S : d.sent \in Seq(S)
  BY DEF DialogInv
<1>5. /\ d.sent \in Seq(S \union {pick}) /\ pick \in S \union {pick}
      /\ Append(d.sent, pick) \in Seq(S \union {pick})
  BY <1>4
<1>6. \A n \in DOMAIN Append(d.sent, pick) :
        \/ n \in DOMAIN d.sent /\ Append(d.sent, pick)[n] = d.sent[n]
        \/ Append(d.sent, pick)[n] = pick
  BY <1>4
<1>7. \A n \in DOMAIN e.sent : GoodPick(e.sent[n], db)
  BY <1>1, <1>2, <1>6 DEF DialogInv
<1> QED
  BY <1>1, <1>3, <1>5, <1>7 DEF DialogInv, e

PickInv ==
    /\ task.of = "pick" => task.database \in Databases
    /\ Done("pick") => DialogInv(result, task.database)

\* After any number of clicks in a dialog over any database, each table that
\* was picked is one of its pattern, or none for the reasons PickedExists has.
THEOREM PickedTablesExist == Spec => []PickedExists
<1>1. Init => PickInv
  BY DEF Init, PickInv, Done, RewriteTask, CutTask, PaintTask, SearchTask, PickTask
<1>2. PickInv /\ [Next]_vars => PickInv'
  <2> SUFFICES ASSUME PickInv, [Next]_vars PROVE PickInv'
    OBVIOUS
  <2>1. task' = task
    BY DEF Next, vars
  <2>2. CASE UNCHANGED vars
    BY <2>1, <2>2 DEF vars, PickInv, Done
  <2>3. CASE Pick
    <3>1. task.of = "pick"
      BY <2>3 DEF Pick
    <3>2. CASE result' = Open(task.database)
      BY <2>1, <3>1, <3>2, DialogOpens DEF PickInv
    <3>3. CASE result # Nothing /\ result' \in Clicks(result, task.database)
      BY <2>1, <3>1, <3>3, PatternClicked, TableClicked, AddClicked
         DEF PickInv, Done, Clicks
    <3> QED
      BY <2>3, <3>2, <3>3 DEF Pick
  <2>4. CASE Rewrite \/ Cut \/ Paint \/ Search
    BY <2>1, <2>4 DEF Rewrite, Cut, Paint, Search, PickInv, Done
  <2> QED
    BY <2>2, <2>3, <2>4 DEF Next
<1>3. PickInv => PickedExists
  BY DEF PickInv, PickedExists, DialogInv, GoodPick, Done
<1> QED
  BY <1>1, <1>2, <1>3, PTL DEF Spec

=============================================================================
