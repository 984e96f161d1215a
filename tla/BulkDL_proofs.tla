---------------------------- MODULE BulkDL_proofs ----------------------------
(***************************************************************************)
(* Proofs about BulkDL for every number of runs, length of the channel,    *)
(* page size and limit.  That the checkpoint loses no message follows from *)
(* what each run knows of the history: below its cursor every message  *)
(* with media is accounted for, and every other one up to the newest it    *)
(* has seen is in a page it has yet to replay, the pages being in          *)
(* descending order.                                                       *)
(***************************************************************************)
EXTENDS BulkDL, FiniteSetTheorems, TLAPS

Members(s) == UNION {s[i] : i \in 1..Len(s)}

Descending(s) == \A i, j \in 1..Len(s) : i < j => \A x \in s[i], y \in s[j] : y < x

Settled(r) == store \cup run[r].failed \cup passed \cup skipped

\* What the run has dealt with.
Done(r) == {m \in Media : Dealt(r, m)}

\* Where a run is and what it has at hand.
Control(r) ==
    /\ run[r].pc \in {"retrying", "batch"} <=> run[r].block # {}
    /\ \A i \in 1..Len(run[r].blocks) : run[r].blocks[i] # {}
    /\ run[r].pc \in {"idle", "load", "retry", "retrying"} => run[r].blocks = <<>> /\ run[r].offset = 0
    /\ run[r].pc \in {"retry", "retrying", "collect"} => run[r].resume = run[r].cursor
    /\ run[r].pc = "collect" => run[r].horizon <= posted
    /\ run[r].pc \notin {"save", "final"} => run[r].ending = "none"
    /\ run[r].pc = "save" => run[r].ending # "complete"
    /\ run[r].ending = "complete" => run[r].blocks = <<>>

\* The page that is being replayed is older than those that are left.
Sorted(r) ==
    /\ Descending(run[r].blocks)
    /\ \A x \in Members(run[r].blocks), y \in run[r].block : y < x

\* While it collects: what lies between the offset and the newest message seen.
Collected(r) ==
    run[r].pc = "collect" =>
        /\ run[r].offset = 0 => run[r].blocks = <<>>
        /\ \A x \in Members(run[r].blocks) : run[r].offset <= x /\ x <= posted
        /\ \A m \in Media :
              /\ m > run[r].resume /\ run[r].offset # 0 /\ m >= run[r].offset
              /\ m <= run[r].horizon \/ \E x \in Members(run[r].blocks) : m <= x
              => m \in Members(run[r].blocks)

\* While it replays: what is left to do.
Covers(r) ==
    run[r].pc \in {"replay", "batch", "save", "final"} /\ run[r].ending \in {"none", "complete"} =>
        \A m \in Media :
            m <= run[r].horizon \/ (\E x \in Members(run[r].blocks) \cup run[r].block : m <= x)
            => m \in Members(run[r].blocks) \cup run[r].block \cup Done(r)

Known(r) == Accounted(run[r].cursor, run[r].failed)

RunInv(r) == Control(r) /\ Sorted(r) /\ Collected(r) /\ Covers(r) /\ Known(r)

IInv == TypeOK /\ NothingLost /\ \A r \in Runs : RunInv(r)

-----------------------------------------------------------------------------
(* Sets of messages *)

LEMMA MessagesFinite ==
    ASSUME NEW S \in SUBSET Messages
    PROVE  IsFiniteSet(S) /\ Cardinality(S) \in Nat
<1>1. IsFiniteSet(Messages)
  BY BulkAssumption, FS_Interval DEF Messages
<1>2. QED
  BY <1>1, FS_Subset, FS_CardinalityType

LEMMA FewerMessages ==
    ASSUME NEW S \in SUBSET Messages, NEW T \in SUBSET S
    PROVE  Cardinality(T) <= Cardinality(S)
<1>1. QED
  BY MessagesFinite, FS_Subset

\* A set of messages has a first one: the messages before it, ordered by
\* inclusion, have a smallest set, and that is empty.
LEMMA MinIsLeast ==
    ASSUME NEW S \in SUBSET Messages, S # {}
    PROVE  Min(S) \in S /\ \A x \in S : Min(S) <= x
<1> DEFINE Before(m) == {x \in S : x < m}
           T == {Before(m) : m \in S}
           R == StrictSubsetOrdering(S)
<1>1. T \subseteq FiniteSubsetsOf(S) /\ T # {}
  BY MessagesFinite DEF FiniteSubsetsOf
<1>2. PICK B \in T : \A C \in T : <<C, B>> \notin R
  BY <1>1, FS_StrictSubsetOrderingWellFounded, WFMin
<1>3. PICK m \in S : B = Before(m)
  OBVIOUS
<1>n. \A x \in S : x \in Nat
  BY BulkAssumption DEF Messages
<1>4. ASSUME NEW x \in S, x < m PROVE FALSE
  <2>1. x \in Before(m) /\ x \notin Before(x)
    BY <1>4, <1>n
  <2>2. Before(x) \subseteq Before(m)
    <3> SUFFICES ASSUME NEW y \in S, y < x PROVE y < m
      OBVIOUS
    <3>1. QED
      BY <1>4, <1>n
  <2>3. Before(x) \in SUBSET S /\ B \in SUBSET S /\ Before(x) \subseteq B /\ Before(x) # B
    BY <1>3, <2>1, <2>2
  <2> HIDE DEF Before
  <2>4. <<Before(x), B>> \in R
    BY <2>3 DEF StrictSubsetOrdering
  <2>5. Before(x) \in T
    OBVIOUS
  <2>6. QED
    BY <1>2, <2>4, <2>5
<1>5. \A x \in S : m <= x
  BY <1>4, BulkAssumption DEF Messages
<1>6. QED
  BY <1>5 DEF Min

\* A set of messages has a last one, which comes after the others: it is the
\* first of those that no message of the set exceeds.
LEMMA MaxIsGreatest ==
    ASSUME NEW S \in SUBSET Messages, S # {}
    PROVE  Max(S) \in S /\ \A x \in S : Max(S) >= x
<1> DEFINE U == {u \in Messages : \A x \in S : x <= u}
<1>0. MaxId \in Nat
  BY BulkAssumption
<1>s. PICK x \in S : TRUE
  OBVIOUS
<1>n. \A u \in Messages : u \in Nat /\ 1 <= u /\ u <= MaxId
  BY <1>0 DEF Messages
<1>1. MaxId \in U
  BY <1>0, <1>s, <1>n DEF Messages
<1>2. Min(U) \in U /\ \A u \in U : Min(U) <= u
  BY <1>1, MinIsLeast
<1>3. Min(U) \in S
  <2> SUFFICES ASSUME Min(U) \notin S PROVE FALSE
    OBVIOUS
  <2>1. PICK u \in U : u = Min(U)
    BY <1>2
  <2>2. \A y \in S : y <= u - 1
    <3> SUFFICES ASSUME NEW y \in S PROVE y <= u - 1
      OBVIOUS
    <3>1. y <= u /\ y # u
      BY <2>1
    <3>2. QED
      BY <1>n, <3>1
  <2>3. u - 1 \in Messages
    <3>1. 1 <= x /\ x <= u - 1 /\ u <= MaxId /\ u \in Nat
      BY <1>n, <2>2
    <3>2. QED
      BY <1>0, <3>1, <1>n DEF Messages
  <2>4. u - 1 \in U
    BY <2>2, <2>3
  <2>5. u <= u - 1
    BY <1>2, <2>1, <2>4
  <2>6. QED
    BY <1>n, <2>5
<1>4. QED
  <2>1. \A y \in S : y <= Min(U)
    BY <1>2
  <2>2. Min(U) \in Nat
    BY <1>2, <1>n
  <2>3. \A y \in S : Min(U) >= y
    BY <1>n, <2>1, <2>2
  <2>4. QED
    BY <1>3, <2>3 DEF Max
-----------------------------------------------------------------------------
(* Pages *)

LEMMA Numbers ==
    /\ MaxId \in Nat /\ Messages \subseteq Nat /\ \A m \in Messages : 1 <= m /\ m <= MaxId
    /\ \A m \in Nat : 1 <= m /\ m <= MaxId => m \in Messages
    /\ Media \subseteq Messages /\ Media \cap Service = {} /\ Initially \in 0..MaxId
    /\ PageSize \in Nat /\ PageSize > 0 /\ Caps \subseteq Nat
<1>1. MaxId \in Nat /\ PageSize \in Nat /\ PageSize > 0 /\ Caps \subseteq Nat /\ Initially \in 0..MaxId
  BY BulkAssumption
<1>2. Media \subseteq Messages /\ Media \cap Service = {}
  BY BulkAssumption
<1>3. /\ Messages \subseteq Nat /\ \A m \in Messages : 1 <= m /\ m <= MaxId
      /\ \A m \in Nat : 1 <= m /\ m <= MaxId => m \in Messages
  BY <1>1 DEF Messages
<1>4. QED
  BY <1>1, <1>2, <1>3

\* The newest of a set of messages are closed towards newer ones.
LEMMA NewestClosed ==
    ASSUME NEW S \in SUBSET Messages, NEW n \in Nat, NEW p \in Newest(S, n), NEW m \in S, p <= m
    PROVE  m \in Newest(S, n)
<1> DEFINE Over(x) == {y \in S : y > x}
<1>1. p \in S /\ Cardinality(Over(p)) < n
  BY DEF Newest
<1>2. Over(m) \in SUBSET Over(p)
  <2> SUFFICES ASSUME NEW y \in S, y > m PROVE y > p
    BY <1>1
  <2>1. y \in Nat /\ m \in Nat /\ p \in Nat
    BY <1>1, Numbers
  <2>2. QED
    BY <2>1
<1>3. Over(p) \in SUBSET Messages /\ Over(m) \in SUBSET Messages
  OBVIOUS
<1> HIDE DEF Over
<1>4. Cardinality(Over(m)) <= Cardinality(Over(p))
  BY <1>2, <1>3, FewerMessages
<1>5. Cardinality(Over(p)) \in Nat /\ Cardinality(Over(m)) \in Nat
  BY <1>3, MessagesFinite
<1>6. Cardinality(Over(m)) < n
  BY <1>1, <1>4, <1>5
<1>7. QED
  BY <1>6 DEF Newest, Over

\* A page has every wanted message down to its oldest one, and what it misses
\* of the rest although it is the last one is cut.
LEMMA PageFacts ==
    ASSUME TypeOK, NEW r \in Runs
    PROVE  /\ Page(r) \subseteq Above(r) /\ Above(r) \subseteq Messages
           /\ Cut(r) \subseteq Media
           /\ \A m \in Media \cap Above(r) :
                 m \in Page(r) \/ m \in Cut(r) \/ Cardinality(Page(r)) = PageSize
           /\ \A m \in Media \cap Above(r), x \in Page(r) : x <= m => m \in Page(r)
<1>1. Above(r) \subseteq Messages
  <2>1. posted \in Nat /\ posted <= MaxId
    BY Numbers DEF TypeOK
  <2>2. QED
    BY <2>1, Numbers DEF Above
<1>2. Newest(Above(r), PageSize) \subseteq Above(r)
  BY DEF Newest
<1>3. \A m \in Media : m \notin Service
  BY Numbers
<1>4. \A m \in Media \cap Above(r), x \in Page(r) : x <= m => m \in Page(r)
  <2> SUFFICES ASSUME NEW m \in Media \cap Above(r), NEW x \in Page(r), x <= m PROVE m \in Page(r)
    OBVIOUS
  <2>1. x \in Newest(Above(r), PageSize)
    BY DEF Page
  <2>2. m \in Newest(Above(r), PageSize)
    BY <1>1, <2>1, Numbers, NewestClosed
  <2>3. QED
    BY <1>3, <2>2 DEF Page
<1>5. \A m \in Media \cap Above(r) : m \in Page(r) \/ m \in Cut(r) \/ Cardinality(Page(r)) = PageSize
  BY <1>3 DEF Cut, Page
<1>6. QED
  BY <1>1, <1>2, <1>4, <1>5 DEF Page, Cut

\* Collecting a page.
LEMMA AppendPage ==
    ASSUME NEW s \in Seq(SUBSET Messages), NEW e \in SUBSET Messages
    PROVE  /\ Append(s, e) \in Seq(SUBSET Messages)
           /\ Members(Append(s, e)) = Members(s) \cup e
           /\ (Descending(s) /\ \A x \in Members(s), y \in e : y < x) => Descending(Append(s, e))
           /\ (e # {} /\ \A i \in 1..Len(s) : s[i] # {})
              => \A i \in 1..Len(Append(s, e)) : Append(s, e)[i] # {}
<1> DEFINE t == Append(s, e)
<1>1. t \in Seq(SUBSET Messages) /\ Len(t) = Len(s) + 1 /\ Len(s) \in Nat
  OBVIOUS
<1>2. (\A i \in 1..Len(s) : t[i] = s[i]) /\ t[Len(s) + 1] = e
  OBVIOUS
<1> HIDE DEF t
<1>3. \A i \in 1..Len(t) : i \in 1..Len(s) \/ i = Len(s) + 1
  BY <1>1
<1>4. Members(t) = Members(s) \cup e
  <2>1. Members(t) \subseteq Members(s) \cup e
    BY <1>2, <1>3 DEF Members
  <2>2. Members(s) \subseteq Members(t)
    <3>1. \A i \in 1..Len(s) : i \in 1..Len(t) /\ t[i] = s[i]
      BY <1>1, <1>2
    <3>2. QED
      BY <3>1 DEF Members
  <2>3. e \subseteq Members(t)
    <3>1. Len(s) + 1 \in 1..Len(t)
      BY <1>1
    <3>2. QED
      BY <1>2, <3>1 DEF Members
  <2>4. QED
    BY <2>1, <2>2, <2>3
<1>5. ASSUME Descending(s), \A x \in Members(s), y \in e : y < x PROVE Descending(t)
  <2> SUFFICES ASSUME NEW i \in 1..Len(t), NEW j \in 1..Len(t), i < j, NEW x \in t[i], NEW y \in t[j]
               PROVE  y < x
    BY DEF Descending
  <2>1. i \in 1..Len(s) /\ t[i] = s[i]
    BY <1>1, <1>2
  <2>2. CASE j \in 1..Len(s)
    BY <1>2, <1>5, <2>1, <2>2 DEF Descending
  <2>3. CASE j = Len(s) + 1
    <3>1. y \in e /\ x \in Members(s)
      BY <1>2, <2>1, <2>3 DEF Members
    <3>2. QED
      BY <1>5, <3>1
  <2>4. QED
    BY <1>3, <2>2, <2>3
<1>6. (e # {} /\ \A i \in 1..Len(s) : s[i] # {}) => \A i \in 1..Len(t) : t[i] # {}
  BY <1>2, <1>3
<1>7. QED
  BY <1>1, <1>4, <1>5, <1>6 DEF t

\* Taking the oldest page that is left.
LEMMA TakePage ==
    ASSUME NEW s \in Seq(SUBSET Messages), s # <<>>
    PROVE  LET n == Len(s)
               t == SubSeq(s, 1, n - 1)
           IN  /\ t \in Seq(SUBSET Messages) /\ s[n] \in SUBSET Messages
               /\ Members(s) = Members(t) \cup s[n]
               /\ Descending(s) => Descending(t) /\ \A x \in Members(t), y \in s[n] : y < x
               /\ (\A i \in 1..n : s[i] # {}) => s[n] # {} /\ \A i \in 1..Len(t) : t[i] # {}
<1> DEFINE n == Len(s)
           t == SubSeq(s, 1, n - 1)
<1>1. n \in Nat /\ n > 0 /\ n \in 1..n
  OBVIOUS
<1>2. t \in Seq(SUBSET Messages) /\ Len(t) = n - 1
  <2>1. \A k \in Nat : k <= Len(s) => Len(SubSeq(s, 1, k)) = k
    OBVIOUS
  <2>2. n - 1 \in Nat /\ n - 1 <= Len(s)
    BY <1>1
  <2>3. t \in Seq(SUBSET Messages)
    OBVIOUS
  <2>4. QED
    BY <2>1, <2>2, <2>3
<1>3. \A i \in 1..n - 1 : t[i] = s[i]
  BY <1>1
<1>4. s[n] \in SUBSET Messages
  BY <1>1
<1> HIDE DEF t
<1>5. \A i \in 1..n : i \in 1..Len(t) \/ i = n
  BY <1>1, <1>2
<1>6. \A i \in 1..Len(t) : i \in 1..n /\ i < n /\ t[i] = s[i]
  BY <1>1, <1>2, <1>3
<1> HIDE DEF n
<1>7. Members(s) = Members(t) \cup s[n]
  BY <1>1, <1>5, <1>6 DEF Members, n
<1>8. Descending(s) => Descending(t) /\ \A x \in Members(t), y \in s[n] : y < x
  BY <1>1, <1>6 DEF Members, Descending, n
<1>9. (\A i \in 1..n : s[i] # {}) => s[n] # {} /\ \A i \in 1..Len(t) : t[i] # {}
  BY <1>1, <1>6
<1>10. QED
  BY <1>2, <1>4, <1>7, <1>8, <1>9 DEF n, t

-----------------------------------------------------------------------------
(* What a block can come to *)

LEMMA OutcomeFacts ==
    ASSUME TypeOK, NEW r \in Runs, run[r].block # {}, NEW unbuilt \in SUBSET Files(r)
    PROVE  /\ Scanned(r, unbuilt) \in SUBSET run[r].block
           /\ Max(Scanned(r, unbuilt)) \in run[r].block
           /\ \A m \in Scanned(r, unbuilt) : m <= Max(Scanned(r, unbuilt))
           /\ \A m \in run[r].block :
                 m \in Scanned(r, unbuilt) \/ (Reaching(r, unbuilt) # {} /\ m > Max(Scanned(r, unbuilt)))
<1> DEFINE cuts == Reaching(r, unbuilt)
           scanned == Scanned(r, unbuilt)
<1>b. run[r].block \in SUBSET Messages
  BY DEF TypeOK, RunState
<1>c. cuts \in SUBSET Messages /\ cuts \subseteq run[r].block
  BY <1>b DEF Reaching, Files
<1>1. scanned = IF cuts = {} THEN run[r].block ELSE {m \in run[r].block : m <= Min(cuts)}
  BY DEF Scanned
<1> HIDE DEF cuts, scanned
<1>2. scanned \in SUBSET run[r].block /\ scanned # {}
  <2>1. CASE cuts = {}
    BY <1>1, <2>1
  <2>2. CASE cuts # {}
    <3>1. PICK e \in cuts : e = Min(cuts)
      BY <1>c, <2>2, MinIsLeast
    <3>2. e \in run[r].block /\ e <= e
      BY <1>b, <1>c, Numbers
    <3>3. QED
      BY <1>1, <2>2, <3>1, <3>2
  <2>3. QED
    BY <2>1, <2>2
<1>3. PICK h \in scanned : h = Max(scanned) /\ \A x \in scanned : h >= x
  BY <1>b, <1>2, MaxIsGreatest
<1>4. h \in Nat /\ \A m \in run[r].block : m \in Nat
  BY <1>b, <1>2, Numbers
<1>5. \A m \in scanned : m <= h
  BY <1>2, <1>3, <1>4
<1>6. ASSUME NEW m \in run[r].block, m \notin scanned PROVE cuts # {} /\ m > h
  <2>1. cuts # {} /\ ~(m <= Min(cuts))
    BY <1>1, <1>6
  <2>2. PICK e \in cuts : e = Min(cuts)
    BY <1>c, <2>1, MinIsLeast
  <2>3. h <= e /\ e \in Nat
    BY <1>1, <1>3, <1>4, <1>c, <2>1, <2>2
  <2>4. QED
    BY <1>4, <2>1, <2>2, <2>3
<1>7. QED
  BY <1>2, <1>3, <1>5, <1>6 DEF cuts, scanned
-----------------------------------------------------------------------------
(* Types *)

LEMMA NewRunTyped == NewRun \in RunState
<1>1. <<>> \in Seq(SUBSET Messages) /\ 0 \in 0..MaxId
  BY Numbers
<1>2. QED
  BY <1>1 DEF NewRun, RunState

LEMMA InitTyped == Init => TypeOK
<1> SUFFICES ASSUME Init PROVE TypeOK
  OBVIOUS
<1>1. run \in [Runs -> RunState]
  BY NewRunTyped DEF Init
<1>2. row \in [lastRead : 0..MaxId, failed : SUBSET Media]
  BY Numbers DEF Init, NoRow
<1>3. QED
  BY <1>1, <1>2, Numbers DEF Init, TypeOK

LEMMA Update ==
    ASSUME TypeOK, NEW r \in Runs, NEW t \in RunState, run' = [run EXCEPT ![r] = t]
    PROVE  run' \in [Runs -> RunState] /\ run'[r] = t /\ \A q \in Runs \ {r} : run'[q] = run[q]
<1>1. QED
  BY DEF TypeOK

\* A block leaves what the run may store, list or pass.
LEMMA BlockTyped ==
    ASSUME TypeOK, NEW r \in Runs, NEW unbuilt \in SUBSET Files(r),
           NEW ok \in SUBSET (Files(r) \ unbuilt), NEW bad \in SUBSET (Files(r) \ unbuilt)
    PROVE  /\ FailedAfter(r, unbuilt, ok, bad) \in SUBSET Media
           /\ SavedAfter(r, ok) \in Nat
           /\ ok \in SUBSET Media /\ Unfinished(r, unbuilt, ok, bad) \in SUBSET Media
           /\ Unselected(r, unbuilt) \in SUBSET Media
<1>1. /\ Files(r) \in SUBSET Media /\ ok \in SUBSET Messages
      /\ run[r].saved \in Nat /\ run[r].failed \in SUBSET Media
  BY Numbers DEF Files, TypeOK, RunState
<1>2. Cardinality(ok) \in Nat
  BY <1>1, MessagesFinite
<1>3. QED
  BY <1>1, <1>2 DEF FailedAfter, SavedAfter, Unfinished, Unselected

-----------------------------------------------------------------------------
(* What a step changes *)

\* The step is one of r and leaves the types and the other runs as they are.
Moves(r) ==
    /\ TypeOK'
    /\ \A q \in Runs \ {r} : run'[q] = run[q]
    /\ store \subseteq store' /\ passed \subseteq passed' /\ skipped \subseteq skipped' /\ posted' = posted

LEMMA MovesTo ==
    ASSUME TypeOK, NEW r \in Runs, NEW t \in RunState, run' = [run EXCEPT ![r] = t],
           posted' = posted, store' \in SUBSET Media, passed' \in SUBSET Media, skipped' \in SUBSET Media,
           row' \in [lastRead : 0..MaxId, failed : SUBSET Media],
           store \subseteq store', passed \subseteq passed', skipped \subseteq skipped'
    PROVE  Moves(r) /\ run'[r] = t
<1>1. run' \in [Runs -> RunState] /\ run'[r] = t /\ \A q \in Runs \ {r} : run'[q] = run[q]
  BY Update
<1>2. QED
  BY <1>1 DEF Moves, TypeOK

LEMMA LocalMove ==
    ASSUME TypeOK, NEW r \in Runs, NEW t \in RunState, run' = [run EXCEPT ![r] = t],
           UNCHANGED <<posted, store, row, passed, skipped>>
    PROVE  Moves(r) /\ run'[r] = t
<1>1. QED
  BY MovesTo DEF TypeOK

\* What a run has dealt with stays dealt with while it forgets a failure only
\* when the file is stored.
LEMMA DoneGrows ==
    ASSUME NEW r \in Runs, store \subseteq store', passed \subseteq passed', skipped \subseteq skipped',
           run'[r].types = run[r].types, run'[r].resume = run[r].resume,
           run[r].failed \subseteq run'[r].failed \cup store'
    PROVE  Done(r) \subseteq Done(r)' /\ Settled(r) \subseteq Settled(r)' /\ Done(r) \subseteq Settled(r)
<1>1. QED
  BY DEF Done, Dealt, Settled

LEMMA Constants ==
    ASSUME TypeOK, NEW r \in Runs
    PROVE  /\ 0 \in 0..MaxId /\ MaxId \in Nat /\ Messages \subseteq 0..MaxId
           /\ <<>> \in Seq(SUBSET Messages) /\ Members(<<>>) = {} /\ Descending(<<>>)
           /\ run[r] \in RunState /\ run[r].cursor \in Nat /\ posted \in Nat
<1>1. run[r] \in RunState /\ posted \in 0..MaxId
  BY DEF TypeOK
<1>2. Members(<<>>) = {} /\ Descending(<<>>)
  BY DEF Members, Descending
<1>3. run[r].cursor \in 0..MaxId
  BY <1>1 DEF RunState
<1>4. QED
  BY <1>1, <1>2, <1>3, Numbers

\* The saved failures are failures, and those that are left out are passed.
LEMMA SaveEffect ==
    ASSUME TypeOK, NEW r \in Runs, SaveCheckpoint(r)
    PROVE  /\ row' \in [lastRead : 0..MaxId, failed : SUBSET Media]
           /\ passed' \in SUBSET Media /\ passed \subseteq passed'
           /\ \/ row' = row
              \/ /\ row'.lastRead = run[r].cursor
                 /\ run[r].failed \subseteq row'.failed \cup passed'
<1>1. run[r].failed \in SUBSET Media /\ run[r].cursor \in 0..MaxId
  BY Constants DEF RunState
<1>2. CASE UNCHANGED <<row, passed>>
  BY <1>2 DEF TypeOK
<1>3. CASE ~UNCHANGED <<row, passed>>
  <2> DEFINE kept == Newest(run[r].failed, MaxFailed)
  <2>1. kept \in SUBSET run[r].failed
    BY DEF Newest
  <2>2. row' = [lastRead |-> run[r].cursor, failed |-> kept] /\ passed' = passed \cup (run[r].failed \ kept)
    BY <1>3 DEF SaveCheckpoint
  <2> HIDE DEF kept
  <2>3. QED
    BY <1>1, <2>1, <2>2 DEF TypeOK
<1>4. QED
  BY <1>2, <1>3

-----------------------------------------------------------------------------
(* The steps of a run, one by one *)

\* A failure that the row lists is the only thing a run learns from it.
LEMMA LoadKeeps ==
    ASSUME IInv, NEW r \in Runs, LoadCheckpoint(r)
    PROVE  Moves(r) /\ RunInv(r)'
<1>0. TypeOK /\ NothingLost /\ RunInv(r)
  BY DEF IInv
<1>1. PICK read \in {row, NoRow} :
        run' = [run EXCEPT ![r] = [run[r] EXCEPT !.pc = "retry", !.failed = read.failed, !.todo = read.failed,
                                                 !.resume = read.lastRead, !.cursor = read.lastRead]]
  BY DEF LoadCheckpoint
<1>2. read.failed \in SUBSET Media /\ read.lastRead \in 0..MaxId
  BY <1>0, Constants DEF NoRow, TypeOK
<1> DEFINE t == [run[r] EXCEPT !.pc = "retry", !.failed = read.failed, !.todo = read.failed,
                               !.resume = read.lastRead, !.cursor = read.lastRead]
<1>3. t \in RunState
  BY <1>0, <1>2, Constants, ZenonT(60) DEF RunState
<1>4. Moves(r) /\ run'[r] = t /\ UNCHANGED <<store, passed, skipped, posted>>
  BY <1>0, <1>1, <1>3, LocalMove DEF LoadCheckpoint
<1>5. /\ t.pc = "retry" /\ t.block = run[r].block /\ t.blocks = run[r].blocks /\ t.offset = run[r].offset
      /\ t.resume = read.lastRead /\ t.cursor = read.lastRead /\ t.failed = read.failed
      /\ t.ending = run[r].ending /\ run[r].pc = "load"
  BY <1>0, Constants DEF RunState, LoadCheckpoint
<1> HIDE DEF t
<1>6. Accounted(read.lastRead, read.failed)
  <2>1. CASE read = row
    BY <1>0, <2>1 DEF NothingLost
  <2>2. CASE read = NoRow
    <3>1. read.lastRead = 0 /\ \A m \in Media : m \in Nat /\ 1 <= m
      BY <2>2, Numbers DEF NoRow
    <3>2. QED
      BY <3>1 DEF Accounted
  <2>3. QED
    BY <2>1, <2>2
<1>7. Known(r)'
  BY <1>4, <1>5, <1>6 DEF Known, Accounted
<1>8. Control(r)' /\ Sorted(r)'
  BY <1>0, <1>4, <1>5 DEF RunInv, Control, Sorted
<1>9. QED
  BY <1>4, <1>5, <1>7, <1>8 DEF RunInv, Collected, Covers

LEMMA RetryFetchKeeps ==
    ASSUME IInv, NEW r \in Runs, RetryFetch(r)
    PROVE  Moves(r) /\ RunInv(r)'
<1>0. TypeOK /\ RunInv(r)
  BY DEF IInv
<1>1. run[r].todo \in SUBSET Messages /\ run[r].todo # {} /\ run[r].todo \subseteq Media
  BY <1>0, Constants, Numbers DEF RetryFetch, RunState
<1> DEFINE m == Min(run[r].todo)
           t == [run[r] EXCEPT !.pc = "retrying", !.todo = run[r].todo \ {m}, !.block = {m}]
<1>2. m \in Messages
  BY <1>1, MinIsLeast
<1>3. run' = [run EXCEPT ![r] = t] /\ run[r].pc = "retry"
  BY <1>0, Constants DEF RetryFetch, RunState
<1> HIDE DEF m
<1>4. t \in RunState
  <2>1. {m} \in SUBSET Messages /\ run[r].todo \ {m} \in SUBSET Media
    BY <1>1, <1>2
  <2>2. QED
    BY <1>0, <2>1, Constants, ZenonT(60) DEF RunState
<1>5. /\ t.pc = "retrying" /\ t.block = {m} /\ t.blocks = run[r].blocks /\ t.offset = run[r].offset
      /\ t.resume = run[r].resume /\ t.cursor = run[r].cursor /\ t.failed = run[r].failed
      /\ t.ending = run[r].ending
  BY <1>0, Constants DEF RunState
<1> HIDE DEF t
<1>6. Moves(r) /\ run'[r] = t /\ UNCHANGED <<store, passed, skipped, posted>>
  BY <1>0, <1>3, <1>4, LocalMove DEF RetryFetch
<1>7. Control(r)'
  BY <1>0, <1>3, <1>5, <1>6 DEF RunInv, Control
<1>8. Sorted(r)'
  BY <1>0, <1>3, <1>5, <1>6, Constants DEF RunInv, Control, Sorted
<1>9. QED
  BY <1>0, <1>5, <1>6, <1>7, <1>8 DEF RunInv, Collected, Covers, Known, Accounted

LEMMA RetrySkipKeeps ==
    ASSUME IInv, NEW r \in Runs, RetrySkip(r)
    PROVE  Moves(r) /\ RunInv(r)'
<1>0. TypeOK /\ RunInv(r)
  BY DEF IInv
<1> DEFINE left == run[r].todo \ {Min(run[r].todo)}
           t == [run[r] EXCEPT !.todo = left]
<1>1. run' = [run EXCEPT ![r] = t] /\ run[r].pc = "retry"
  <2>1. run' = [run EXCEPT ![r] = [run[r] EXCEPT !.todo = run[r].todo \ {Min(run[r].todo)}]]
    BY <1>0, Constants DEF RetrySkip, RunState
  <2>2. QED
    BY <2>1 DEF RetrySkip
<1>2. left \in SUBSET Media
  BY <1>0, Constants DEF RunState
<1> HIDE DEF left
<1>3. t \in RunState
  BY <1>0, <1>2, Constants, ZenonT(60) DEF RunState
<1>5. /\ t.pc = run[r].pc /\ t.block = run[r].block /\ t.blocks = run[r].blocks /\ t.offset = run[r].offset
      /\ t.resume = run[r].resume /\ t.cursor = run[r].cursor /\ t.failed = run[r].failed
      /\ t.ending = run[r].ending
  BY <1>0, Constants DEF RunState
<1> HIDE DEF t
<1>6. Moves(r) /\ run'[r] = t /\ UNCHANGED <<store, passed, skipped, posted>>
  BY <1>0, <1>1, <1>3, LocalMove DEF RetrySkip
<1>7. Control(r)' /\ Sorted(r)'
  BY <1>0, <1>1, <1>5, <1>6 DEF RunInv, Control, Sorted
<1>8. QED
  BY <1>0, <1>1, <1>5, <1>6, <1>7 DEF RunInv, Collected, Covers, Known, Accounted

LEMMA RetryBlockKeeps ==
    ASSUME IInv, NEW r \in Runs, RetryBlock(r)
    PROVE  Moves(r) /\ RunInv(r)'
<1>0. TypeOK /\ RunInv(r) /\ run[r].pc = "retrying"
  BY DEF IInv, RetryBlock
<1>1. PICK unbuilt \in SUBSET Files(r) : \E ok, bad \in SUBSET (Files(r) \ unbuilt) :
        /\ store' = store \cup ok
        /\ run' = [run EXCEPT ![r] = [run[r] EXCEPT !.pc = "retry", !.block = {},
                                                    !.failed = FailedAfter(r, unbuilt, ok, bad),
                                                    !.saved = SavedAfter(r, ok)]]
  BY DEF RetryBlock
<1>2. PICK ok, bad \in SUBSET (Files(r) \ unbuilt) :
        /\ store' = store \cup ok
        /\ run' = [run EXCEPT ![r] = [run[r] EXCEPT !.pc = "retry", !.block = {},
                                                    !.failed = FailedAfter(r, unbuilt, ok, bad),
                                                    !.saved = SavedAfter(r, ok)]]
  BY <1>1
<1> DEFINE F == FailedAfter(r, unbuilt, ok, bad)
           n == SavedAfter(r, ok)
           t == [run[r] EXCEPT !.pc = "retry", !.block = {}, !.failed = F, !.saved = n]
<1>3. F \in SUBSET Media /\ n \in Nat /\ ok \in SUBSET Media
  BY <1>0, BlockTyped
<1>4. run[r].failed \subseteq F \cup ok
  BY DEF FailedAfter
<1>5. run' = [run EXCEPT ![r] = t]
  BY <1>2
<1> HIDE DEF F, n
<1>6. t \in RunState
  BY <1>0, <1>3, Constants, ZenonT(60) DEF RunState
<1>7. /\ t.pc = "retry" /\ t.block = {} /\ t.blocks = run[r].blocks /\ t.offset = run[r].offset
      /\ t.resume = run[r].resume /\ t.cursor = run[r].cursor /\ t.failed = F
      /\ t.ending = run[r].ending
  BY <1>0, Constants DEF RunState
<1> HIDE DEF t
<1>8. UNCHANGED <<posted, row, passed, skipped>> /\ store' = store \cup ok
  BY <1>2 DEF RetryBlock
<1>9. Moves(r) /\ run'[r] = t
  <2>1. store' \in SUBSET Media /\ row' \in [lastRead : 0..MaxId, failed : SUBSET Media]
        /\ passed' \in SUBSET Media /\ skipped' \in SUBSET Media
    BY <1>0, <1>3, <1>8 DEF TypeOK
  <2>2. QED
    BY <1>0, <1>5, <1>6, <1>8, <2>1, MovesTo
<1>10. Control(r)' /\ Sorted(r)'
  BY <1>0, <1>7, <1>9 DEF RunInv, Control, Sorted
<1>11. Known(r)'
  BY <1>0, <1>4, <1>7, <1>8, <1>9 DEF RunInv, Known, Accounted
<1>12. QED
  BY <1>7, <1>9, <1>10, <1>11 DEF RunInv, Collected, Covers

LEMMA RetryDoneKeeps ==
    ASSUME IInv, NEW r \in Runs, RetryDone(r)
    PROVE  Moves(r) /\ RunInv(r)'
<1>0. TypeOK /\ RunInv(r) /\ run[r].pc = "retry"
  BY DEF IInv, RetryDone
<1> DEFINE t == [run[r] EXCEPT !.pc = "collect", !.todo = {}, !.horizon = posted]
<1>1. t \in RunState
  <2>1. posted \in 0..MaxId
    BY <1>0 DEF TypeOK
  <2>2. QED
    BY <1>0, <2>1, Constants, ZenonT(60) DEF RunState
<1>2. run' = [run EXCEPT ![r] = t]
  BY DEF RetryDone
<1>3. /\ t.pc = "collect" /\ t.block = run[r].block /\ t.blocks = run[r].blocks /\ t.offset = run[r].offset
      /\ t.resume = run[r].resume /\ t.cursor = run[r].cursor /\ t.failed = run[r].failed
      /\ t.ending = run[r].ending /\ t.horizon = posted
  BY <1>0, Constants DEF RunState
<1> HIDE DEF t
<1>4. Moves(r) /\ run'[r] = t /\ UNCHANGED <<store, passed, skipped, posted>>
  BY <1>0, <1>1, <1>2, LocalMove DEF RetryDone
<1>5. posted <= posted /\ Members(<<>>) = {}
  BY <1>0, Constants
<1>6. Control(r)' /\ Sorted(r)'
  BY <1>0, <1>3, <1>4, <1>5 DEF RunInv, Control, Sorted
<1>7. Collected(r)'
  BY <1>0, <1>3, <1>4, <1>5 DEF RunInv, Control, Collected
<1>8. QED
  BY <1>0, <1>3, <1>4, <1>6, <1>7 DEF RunInv, Covers, Known, Accounted

LEMMA CollectFailsKeeps ==
    ASSUME IInv, NEW r \in Runs, CollectFails(r)
    PROVE  Moves(r) /\ RunInv(r)'
<1>0. TypeOK /\ RunInv(r) /\ run[r].pc = "collect"
  BY DEF IInv, CollectFails
<1> DEFINE t == [run[r] EXCEPT !.pc = "final", !.ending = "failed", !.blocks = <<>>, !.offset = 0]
<1>1. t \in RunState
  BY <1>0, Constants, ZenonT(60) DEF RunState
<1>2. run' = [run EXCEPT ![r] = t]
  BY DEF CollectFails
<1>3. /\ t.pc = "final" /\ t.block = run[r].block /\ t.blocks = <<>> /\ t.offset = 0
      /\ t.cursor = run[r].cursor /\ t.failed = run[r].failed /\ t.ending = "failed"
  BY <1>0, Constants DEF RunState
<1> HIDE DEF t
<1>4. Moves(r) /\ run'[r] = t /\ UNCHANGED <<store, passed, skipped, posted>>
  BY <1>0, <1>1, <1>2, LocalMove DEF CollectFails
<1>5. Len(<<>>) = 0 /\ Members(<<>>) = {} /\ Descending(<<>>)
  BY <1>0, Constants
<1>6. Control(r)' /\ Sorted(r)'
  BY <1>0, <1>3, <1>4, <1>5 DEF RunInv, Control, Sorted
<1>7. QED
  BY <1>0, <1>3, <1>4, <1>6 DEF RunInv, Collected, Covers, Known, Accounted

LEMMA ReplayNextKeeps ==
    ASSUME IInv, NEW r \in Runs, ReplayNext(r)
    PROVE  Moves(r) /\ RunInv(r)'
<1>0. TypeOK /\ RunInv(r) /\ run[r].pc = "replay"
  BY DEF IInv, ReplayNext
<1> DEFINE s == run[r].blocks
           e == s[Len(s)]
           left == SubSeq(s, 1, Len(s) - 1)
           t == [run[r] EXCEPT !.pc = "batch", !.block = e, !.blocks = left]
<1>1. s \in Seq(SUBSET Messages) /\ s # <<>>
  BY <1>0, Constants DEF RunState, ReplayNext
<1>2. /\ left \in Seq(SUBSET Messages) /\ e \in SUBSET Messages
      /\ Members(s) = Members(left) \cup e
      /\ Descending(s) => Descending(left) /\ \A x \in Members(left), y \in e : y < x
      /\ (\A i \in 1..Len(s) : s[i] # {}) => e # {} /\ \A i \in 1..Len(left) : left[i] # {}
  BY <1>1, TakePage
<1>3. run' = [run EXCEPT ![r] = t]
  BY DEF ReplayNext
<1> HIDE DEF e, left
<1>4. t \in RunState
  BY <1>0, <1>2, Constants, ZenonT(60) DEF RunState
<1>5. /\ t.pc = "batch" /\ t.block = e /\ t.blocks = left /\ t.cursor = run[r].cursor
      /\ t.failed = run[r].failed /\ t.ending = run[r].ending /\ t.horizon = run[r].horizon
      /\ t.types = run[r].types /\ t.resume = run[r].resume
  BY <1>0, Constants DEF RunState
<1> HIDE DEF t
<1>6. Moves(r) /\ run'[r] = t /\ UNCHANGED <<store, passed, skipped, posted>>
  BY <1>0, <1>3, <1>4, LocalMove DEF ReplayNext
<1>7. Control(r)'
  BY <1>0, <1>2, <1>5, <1>6 DEF RunInv, Control
<1>8. Sorted(r)'
  BY <1>0, <1>2, <1>5, <1>6 DEF RunInv, Sorted
<1>f. Done(r) \subseteq Done(r)'
  BY <1>5, <1>6, DoneGrows
<1>9. Covers(r)'
  BY <1>0, <1>2, <1>5, <1>6, <1>f DEF RunInv, Control, Covers
<1>10. QED
  BY <1>0, <1>5, <1>6, <1>7, <1>8, <1>9 DEF RunInv, Collected, Known, Accounted

LEMMA ReplayEndsKeeps ==
    ASSUME IInv, NEW r \in Runs, ReplayEnds(r)
    PROVE  Moves(r) /\ RunInv(r)'
<1>0. TypeOK /\ RunInv(r) /\ run[r].pc = "replay"
  BY DEF IInv, ReplayEnds
<1> DEFINE how == IF run[r].blocks = <<>> THEN "complete" ELSE "failed"
           t == [run[r] EXCEPT !.pc = "final", !.blocks = <<>>, !.ending = how]
<1>1. run' = [run EXCEPT ![r] = t]
  BY DEF ReplayEnds
<1>2. how \in {"complete", "failed"} /\ (how = "complete" => run[r].blocks = <<>>)
  OBVIOUS
<1> HIDE DEF how
<1>3. t \in RunState
  BY <1>0, <1>2, Constants, ZenonT(60) DEF RunState
<1>4. /\ t.pc = "final" /\ t.block = run[r].block /\ t.blocks = <<>> /\ t.cursor = run[r].cursor
      /\ t.failed = run[r].failed /\ t.ending = how /\ t.horizon = run[r].horizon
      /\ t.types = run[r].types /\ t.resume = run[r].resume
  BY <1>0, Constants DEF RunState
<1> HIDE DEF t
<1>5. Moves(r) /\ run'[r] = t /\ UNCHANGED <<store, passed, skipped, posted>>
  BY <1>0, <1>1, <1>3, LocalMove DEF ReplayEnds
<1>6. Len(<<>>) = 0 /\ Members(<<>>) = {} /\ Descending(<<>>)
  BY <1>0, Constants
<1>7. Control(r)' /\ Sorted(r)'
  BY <1>0, <1>2, <1>4, <1>5, <1>6 DEF RunInv, Control, Sorted
<1>f. Done(r) \subseteq Done(r)'
  BY <1>4, <1>5, DoneGrows
<1>8. Covers(r)'
  BY <1>0, <1>2, <1>4, <1>5, <1>f DEF RunInv, Control, Covers
<1>9. QED
  BY <1>0, <1>4, <1>5, <1>7, <1>8 DEF RunInv, Collected, Known, Accounted

\* What the page comes to is settled up to the cursor, unless the page was
\* only failures; and all of it is settled if the run goes on.
LEMMA BlockSettles ==
    ASSUME TypeOK, NEW r \in Runs, run[r].block # {}, NEW unbuilt \in SUBSET Files(r),
           NEW ok \in SUBSET (Files(r) \ unbuilt), NEW bad \in SUBSET (Files(r) \ unbuilt),
           NEW m \in Media, m \in run[r].block
    PROVE  \/ m \in FailedAfter(r, unbuilt, ok, bad) \cup ok \cup Unfinished(r, unbuilt, ok, bad)
           \/ m \in Unselected(r, unbuilt) /\ m \notin run[r].types
           \/ Reaching(r, unbuilt) # {} /\ m > Max(Scanned(r, unbuilt))
<1>1. m \in Scanned(r, unbuilt) \/ (Reaching(r, unbuilt) # {} /\ m > Max(Scanned(r, unbuilt)))
  BY OutcomeFacts
<1>2. CASE m \in Scanned(r, unbuilt)
  <2>1. CASE m \in run[r].types
    <3>1. m \in Files(r) \cap Scanned(r, unbuilt)
      BY <1>2, <2>1 DEF Files
    <3>2. QED
      BY <3>1 DEF FailedAfter, Unfinished
  <2>2. CASE m \notin run[r].types
    BY <1>2, <2>2 DEF Unselected
  <2>3. QED
    BY <2>1, <2>2
<1>3. QED
  BY <1>1, <1>2

LEMMA ReplayBlockKeeps ==
    ASSUME IInv, NEW r \in Runs, ReplayBlock(r)
    PROVE  Moves(r) /\ RunInv(r)'
<1>0. TypeOK /\ RunInv(r) /\ run[r].pc = "batch" /\ run[r].block # {} /\ run[r].ending = "none"
  BY DEF IInv, ReplayBlock, RunInv, Control
<1> DEFINE Step(unbuilt, ok, bad) ==
             LET dead == DeadConnection(r, ok, bad)
                 highest == Max(Scanned(r, unbuilt))
                 total == SavedAfter(r, ok)
                 full == Reaching(r, unbuilt) # {} \/ (run[r].cap > 0 /\ total >= run[r].cap)
             IN  /\ store' = store \cup ok
                 /\ run' = [run EXCEPT ![r] = [run[r] EXCEPT
                      !.pc = "save", !.block = {}, !.saved = total,
                      !.failed = FailedAfter(r, unbuilt, ok, bad),
                      !.cursor = IF dead \/ highest < run[r].cursor THEN run[r].cursor ELSE highest,
                      !.ending = IF dead THEN "failed" ELSE IF full THEN "capped" ELSE "none"]]
                 /\ passed' = passed \cup (IF dead THEN {} ELSE Unfinished(r, unbuilt, ok, bad))
                 /\ skipped' = skipped \cup (IF dead THEN {} ELSE Unselected(r, unbuilt))
<1>1. PICK unbuilt \in SUBSET Files(r) : \E ok, bad \in SUBSET (Files(r) \ unbuilt) : Step(unbuilt, ok, bad)
  BY DEF ReplayBlock
<1>2. PICK ok, bad \in SUBSET (Files(r) \ unbuilt) : Step(unbuilt, ok, bad)
  BY <1>1
<1> DEFINE dead == DeadConnection(r, ok, bad)
           highest == Max(Scanned(r, unbuilt))
           total == SavedAfter(r, ok)
           full == Reaching(r, unbuilt) # {} \/ (run[r].cap > 0 /\ total >= run[r].cap)
           F == FailedAfter(r, unbuilt, ok, bad)
           U == Unfinished(r, unbuilt, ok, bad)
           K == Unselected(r, unbuilt)
           mark == IF dead \/ highest < run[r].cursor THEN run[r].cursor ELSE highest
           how == IF dead THEN "failed" ELSE IF full THEN "capped" ELSE "none"
           t == [run[r] EXCEPT !.pc = "save", !.block = {}, !.saved = total, !.failed = F,
                               !.cursor = mark, !.ending = how]
<1>3. F \in SUBSET Media /\ total \in Nat /\ ok \in SUBSET Media /\ U \in SUBSET Media /\ K \in SUBSET Media
  BY <1>0, BlockTyped
<1>4. run[r].failed \subseteq F \cup ok
  BY DEF FailedAfter
<1>5. /\ run' = [run EXCEPT ![r] = t] /\ store' = store \cup ok
      /\ passed' = passed \cup (IF dead THEN {} ELSE U)
      /\ skipped' = skipped \cup (IF dead THEN {} ELSE K)
  BY <1>2
<1>6. UNCHANGED <<posted, row>>
  BY DEF ReplayBlock
<1>7. highest \in run[r].block /\ run[r].block \subseteq Messages
  BY <1>0, Constants, OutcomeFacts DEF RunState
<1>8. \A m \in Media : m \in run[r].block =>
        \/ m \in F \cup ok \cup U
        \/ m \in K /\ m \notin run[r].types
        \/ Reaching(r, unbuilt) # {} /\ m > highest
  BY <1>0, BlockSettles
<1>9. how \in {"none", "capped", "failed"} /\ (how = "none" => ~dead /\ Reaching(r, unbuilt) = {})
  OBVIOUS
<1> HIDE DEF Step, F, U, K, total, highest, full, how
<1>10. mark \in 0..MaxId /\ (mark = run[r].cursor \/ (mark = highest /\ ~dead))
  <2>1. run[r].cursor \in 0..MaxId /\ highest \in 0..MaxId
    BY <1>0, <1>7, Constants DEF RunState
  <2>2. QED
    BY <2>1
<1> HIDE DEF dead, mark
<1>11. t \in RunState
  <2>1. run[r] \in RunState /\ {} \in SUBSET Messages
    BY <1>0, Constants
  <2>2. how \in {"none", "complete", "capped", "failed"}
    BY <1>9
  <2>3. F \in SUBSET Media /\ total \in Nat /\ mark \in 0..MaxId
    BY <1>3, <1>10
  <2>4. QED
    BY <2>1, <2>2, <2>3 DEF RunState
<1>12. /\ t.pc = "save" /\ t.block = {} /\ t.blocks = run[r].blocks /\ t.cursor = mark
       /\ t.failed = F /\ t.ending = how /\ t.horizon = run[r].horizon
       /\ t.types = run[r].types /\ t.resume = run[r].resume
  BY <1>0, Constants DEF RunState
<1> HIDE DEF t
<1>13. Moves(r) /\ run'[r] = t
  <2>1. store' \in SUBSET Media /\ row' \in [lastRead : 0..MaxId, failed : SUBSET Media]
        /\ passed' \in SUBSET Media /\ store \subseteq store' /\ passed \subseteq passed'
        /\ skipped' \in SUBSET Media /\ skipped \subseteq skipped'
    BY <1>0, <1>3, <1>5, <1>6 DEF TypeOK
  <2>2. QED
    BY <1>0, <1>5, <1>6, <1>11, <2>1, MovesTo
<1>14. /\ Settled(r) \subseteq Settled(r)' /\ Done(r) \subseteq Done(r)' /\ Done(r) \subseteq Settled(r)
       /\ ~dead => F \cup ok \cup U \cup K \subseteq Settled(r)'
       /\ ~dead => \A m \in Media : m \in F \cup ok \cup U \/ (m \in K /\ m \notin run[r].types) => m \in Done(r)'
  <2>1. run[r].failed \subseteq run'[r].failed \cup store'
    BY <1>4, <1>5, <1>12, <1>13
  <2>2. store \subseteq store' /\ passed \subseteq passed' /\ skipped \subseteq skipped'
    BY <1>5
  <2>3. run'[r].types = run[r].types /\ run'[r].resume = run[r].resume /\ run'[r].failed = F
    BY <1>12, <1>13
  <2>4. Settled(r) \subseteq Settled(r)' /\ Done(r) \subseteq Done(r)' /\ Done(r) \subseteq Settled(r)
    BY <2>1, <2>2, <2>3, DoneGrows
  <2>5. ASSUME ~dead
        PROVE  ok \subseteq store' /\ U \subseteq passed' /\ K \subseteq skipped'
    BY <1>5, <2>5
  <2>6. QED
    BY <2>3, <2>4, <2>5 DEF Settled, Done, Dealt
<1>15. Control(r)' /\ Sorted(r)'
  BY <1>0, <1>9, <1>12, <1>13 DEF RunInv, Control, Sorted
<1>16. Known(r)'
  <2> SUFFICES ASSUME NEW m \in Media, m <= mark PROVE m \in Settled(r)'
    BY <1>12, <1>13 DEF Known, Accounted, Settled
  <2>1. CASE mark = run[r].cursor
    <3>1. m \in Settled(r)
      BY <1>0, <2>1 DEF RunInv, Known, Accounted, Settled
    <3>2. QED
      BY <1>14, <3>1
  <2>2. CASE mark = highest /\ ~dead
    <3>1. m \in Members(run[r].blocks) \cup run[r].block \cup Done(r)
      BY <1>0, <1>7, <2>2 DEF RunInv, Covers
    <3>2. m \in Nat /\ highest \in Nat
      BY <1>7, Numbers
    <3>3. m \notin Members(run[r].blocks)
      <4>1. m \in Members(run[r].blocks) => highest < m
        BY <1>0, <1>7 DEF RunInv, Sorted
      <4>2. QED
        BY <2>2, <3>2, <4>1
    <3>4. CASE m \in run[r].block
      BY <1>8, <1>14, <2>2, <3>2, <3>4
    <3>5. QED
      BY <1>14, <3>1, <3>3, <3>4
  <2>3. QED
    BY <1>10, <2>1, <2>2
<1>17. Covers(r)'
  <2> SUFFICES ASSUME how = "none", NEW m \in Media,
                      m <= run[r].horizon \/ \E x \in Members(run[r].blocks) : m <= x
               PROVE  m \in Members(run[r].blocks) \cup Done(r)'
    BY <1>9, <1>12, <1>13 DEF Covers
  <2>1. m \in Members(run[r].blocks) \cup run[r].block \cup Done(r)
    BY <1>0 DEF RunInv, Covers
  <2>2. m \in run[r].block => m \in Done(r)'
    BY <1>8, <1>9, <1>14
  <2>3. QED
    BY <1>14, <2>1, <2>2
<1>18. QED
  BY <1>12, <1>13, <1>15, <1>16, <1>17 DEF RunInv, Collected

LEMMA SaveBlockKeeps ==
    ASSUME IInv, NEW r \in Runs, SaveBlock(r)
    PROVE  Moves(r) /\ RunInv(r)'
<1>0. TypeOK /\ RunInv(r) /\ run[r].pc = "save"
  BY DEF IInv, SaveBlock
<1> DEFINE to == IF run[r].ending = "none" THEN "replay" ELSE "final"
           left == IF run[r].ending = "none" THEN run[r].blocks ELSE <<>>
           t == [run[r] EXCEPT !.pc = to, !.blocks = left]
<1>1. run' = [run EXCEPT ![r] = t] /\ UNCHANGED <<posted, store, skipped>> /\ SaveCheckpoint(r)
  BY DEF SaveBlock
<1>2. /\ to \in {"replay", "final"} /\ left \in Seq(SUBSET Messages) /\ (left = run[r].blocks \/ left = <<>>)
      /\ run[r].ending = "none" => to = "replay" /\ left = run[r].blocks
      /\ run[r].ending # "none" => to = "final" /\ left = <<>>
  BY <1>0, Constants DEF RunState
<1> HIDE DEF to, left
<1>3. t \in RunState
  BY <1>0, <1>2, Constants, ZenonT(60) DEF RunState
<1>4. /\ t.pc = to /\ t.block = run[r].block /\ t.blocks = left /\ t.cursor = run[r].cursor
      /\ t.failed = run[r].failed /\ t.ending = run[r].ending /\ t.horizon = run[r].horizon
      /\ t.types = run[r].types /\ t.resume = run[r].resume
  BY <1>0, Constants DEF RunState
<1> HIDE DEF t
<1>5. Moves(r) /\ run'[r] = t
  BY <1>0, <1>1, <1>3, MovesTo, SaveEffect DEF TypeOK
<1>6. Len(<<>>) = 0 /\ Members(<<>>) = {} /\ Descending(<<>>)
  BY <1>0, Constants
<1>7. Control(r)' /\ Sorted(r)'
  BY <1>0, <1>2, <1>4, <1>5, <1>6 DEF RunInv, Control, Sorted
<1>8. Settled(r) \subseteq Settled(r)' /\ Done(r) \subseteq Done(r)'
  BY <1>4, <1>5, DoneGrows DEF Moves
<1>9. Covers(r)'
  <2>1. CASE run[r].ending = "none"
    BY <1>0, <1>2, <1>4, <1>5, <1>8, <2>1 DEF RunInv, Covers
  <2>2. CASE run[r].ending # "none"
    BY <1>0, <1>4, <1>5, <2>2 DEF RunInv, Control, Covers
  <2>3. QED
    BY <2>1, <2>2
<1>10. Known(r)'
  BY <1>0, <1>4, <1>5, <1>8 DEF RunInv, Known, Accounted, Settled
<1>11. QED
  BY <1>2, <1>4, <1>5, <1>7, <1>9, <1>10 DEF RunInv, Collected

\* A run that has not started knows nothing and has nothing to do.
LEMMA NewRunInv ==
    ASSUME TypeOK, NEW r \in Runs, run'[r] = NewRun
    PROVE  RunInv(r)'
<1>1. Len(<<>>) = 0 /\ Members(<<>>) = {} /\ Descending(<<>>)
  BY Constants
<1>2. /\ run'[r].pc = "idle" /\ run'[r].block = {} /\ run'[r].blocks = <<>> /\ run'[r].offset = 0
      /\ run'[r].cursor = 0 /\ run'[r].ending = "none"
  BY DEF NewRun
<1>3. Control(r)' /\ Sorted(r)'
  BY <1>1, <1>2 DEF Control, Sorted
<1>4. Known(r)'
  <2>1. \A m \in Media : m \in Nat /\ 1 <= m
    BY Numbers
  <2>2. QED
    BY <1>2, <2>1 DEF Known, Accounted
<1>5. QED
  BY <1>2, <1>3, <1>4 DEF RunInv, Collected, Covers

LEMMA SaveFinalKeeps ==
    ASSUME IInv, NEW r \in Runs, SaveFinal(r)
    PROVE  Moves(r) /\ RunInv(r)'
<1>0. TypeOK
  BY DEF IInv
<1>1. run' = [run EXCEPT ![r] = NewRun] /\ UNCHANGED <<posted, store, skipped>> /\ SaveCheckpoint(r)
  BY DEF SaveFinal
<1>2. Moves(r) /\ run'[r] = NewRun
  BY <1>0, <1>1, NewRunTyped, MovesTo, SaveEffect DEF TypeOK
<1>3. QED
  BY <1>0, <1>2, NewRunInv

\* The user starts a run, or cancels it.
LEMMA UserKeeps ==
    ASSUME IInv, NEW r \in Runs, Cancel(r) \/ \E n \in Caps, types \in Selections : Start(r, n, types)
    PROVE  Moves(r) /\ RunInv(r)'
<1>0. TypeOK /\ RunInv(r) /\ run[r] \in RunState
  BY Constants DEF IInv
<1>1. PICK t \in RunState :
        /\ run' = [run EXCEPT ![r] = t]
        /\ t.block = run[r].block /\ t.blocks = run[r].blocks /\ t.offset = run[r].offset
        /\ t.resume = run[r].resume /\ t.cursor = run[r].cursor /\ t.failed = run[r].failed
        /\ t.ending = run[r].ending /\ t.horizon = run[r].horizon
        /\ \/ t.pc = run[r].pc /\ t.types = run[r].types
           \/ run[r].pc = "idle" /\ t.pc = "load"
  <2>1. CASE Cancel(r)
    <3> DEFINE t == [run[r] EXCEPT !.cancelled = TRUE]
    <3>1. t \in RunState /\ run' = [run EXCEPT ![r] = t]
      BY <1>0, <2>1 DEF Cancel, RunState
    <3>2. QED
      BY <1>0, <3>1 DEF RunState
  <2>2. CASE \E n \in Caps, types \in Selections : Start(r, n, types)
    <3>1. PICK n \in Caps, types \in Selections : Start(r, n, types)
      BY <2>2
    <3> DEFINE t == [run[r] EXCEPT !.pc = "load", !.cap = n, !.types = types]
    <3>2. t \in RunState /\ run' = [run EXCEPT ![r] = t] /\ run[r].pc = "idle"
      BY <1>0, <3>1, Numbers, BulkAssumption DEF Start, RunState
    <3>3. QED
      BY <1>0, <3>2 DEF RunState
  <2>3. QED
    BY <2>1, <2>2
<1>2. UNCHANGED <<posted, store, row, passed, skipped>>
  BY DEF Cancel, Start
<1>3. Moves(r) /\ run'[r] = t
  BY <1>0, <1>1, <1>2, LocalMove
<1>4. Control(r)' /\ Sorted(r)'
  BY <1>0, <1>1, <1>2, <1>3 DEF RunInv, Control, Sorted
<1>5. Collected(r)' /\ Known(r)'
  BY <1>0, <1>1, <1>2, <1>3 DEF RunInv, Collected, Known, Accounted
<1>6. Covers(r)'
  <2>1. CASE t.pc = run[r].pc /\ t.types = run[r].types
    <3>1. Done(r) \subseteq Done(r)'
      BY <1>1, <1>2, <1>3, <2>1, DoneGrows
    <3>2. QED
      BY <1>0, <1>1, <1>3, <2>1, <3>1 DEF RunInv, Covers
  <2>2. CASE t.pc = "load"
    BY <1>3, <2>2 DEF Covers
  <2>3. QED
    BY <1>1, <2>1, <2>2
<1>7. QED
  BY <1>3, <1>4, <1>5, <1>6 DEF RunInv

\* What collecting one more page adds: the pages stay in descending order, and
\* the history that was in sight before it still is.
LEMMA PageAdds ==
    ASSUME IInv, NEW r \in Runs, run[r].pc = "collect", NEW more,
           more = IF Page(r) = {} THEN run[r].blocks ELSE Append(run[r].blocks, Page(r))
    PROVE  /\ more \in Seq(SUBSET Messages) /\ Descending(more)
           /\ Members(more) = Members(run[r].blocks) \cup Page(r)
           /\ \A i \in 1..Len(more) : more[i] # {}
           /\ \A x \in Members(more) : x <= posted
           /\ \A x \in Members(run[r].blocks), y \in Page(r) : y < x
           /\ \A m \in Media :
                 /\ m > run[r].resume
                 /\ m <= run[r].horizon \/ \E x \in Members(more) : m <= x
                 => m \in Above(r) \/ m \in Members(run[r].blocks)
<1> DEFINE s == run[r].blocks
           e == Page(r)
<1>0. /\ TypeOK /\ Control(r) /\ Sorted(r) /\ Collected(r)
      /\ s \in Seq(SUBSET Messages) /\ posted \in Nat /\ run[r].offset \in 0..MaxId
      /\ run[r].horizon \in 0..MaxId
  BY Constants DEF IInv, RunInv, RunState
<1>1. e \subseteq Above(r) /\ Above(r) \in SUBSET Messages /\ e \in SUBSET Messages
  BY <1>0, PageFacts
<1>2. Members(s) \in SUBSET Messages
  BY <1>0 DEF Members
<1>n. /\ \A x \in Messages : x \in Nat
      /\ \A m \in Media : m \in Nat /\ 1 <= m
      /\ run[r].offset \in Nat /\ run[r].horizon \in Nat
  <2>1. /\ \A x \in Messages : x \in Nat
        /\ \A m \in Media : m \in Nat /\ 1 <= m
    BY Numbers
  <2>2. \A n \in 0..MaxId : n \in Nat
    OBVIOUS
  <2>3. QED
    BY <1>0, <2>1, <2>2, Zenon
<1>3. \A x \in Members(s), y \in e : y < x
  <2> SUFFICES ASSUME NEW x \in Members(s), NEW y \in e PROVE y < x
    OBVIOUS
  <2>1. run[r].offset <= x /\ run[r].offset # 0
    BY <1>0, Constants DEF Collected
  <2>2. y < run[r].offset
    BY <1>1, <2>1 DEF Above
  <2>3. QED
    BY <1>1, <1>2, <1>n, <2>1, <2>2
<1>4. /\ more \in Seq(SUBSET Messages) /\ Members(more) = Members(s) \cup e
      /\ Descending(more) /\ \A i \in 1..Len(more) : more[i] # {}
  <2>1. CASE e = {}
    BY <1>0, <2>1 DEF Sorted, Control
  <2>2. CASE e # {}
    <3>1. more = Append(s, e)
      BY <2>2
    <3>2. Descending(s) /\ \A i \in 1..Len(s) : s[i] # {}
      BY <1>0 DEF Sorted, Control
    <3> HIDE DEF s, e
    <3>3. QED
      BY <1>0, <1>1, <1>3, <2>2, <3>1, <3>2, AppendPage DEF s
  <2>3. QED
    BY <2>1, <2>2
<1>5. \A x \in Members(more) : x <= posted
  <2>1. \A x \in Members(s) : x <= posted
    BY <1>0 DEF Collected
  <2>2. \A x \in e : x <= posted
    BY <1>0, <1>1, <1>n DEF Above
  <2>3. QED
    BY <1>4, <2>1, <2>2
<1>6. ASSUME NEW m \in Media, m > run[r].resume,
             m <= run[r].horizon \/ \E x \in Members(more) : m <= x
      PROVE  m \in Above(r) \/ m \in Members(s)
  <2>1. m \in Nat /\ 1 <= m
    BY <1>n
  <2>2. m <= posted
    <3>1. run[r].horizon <= posted
      BY <1>0 DEF Control
    <3>2. \A x \in Members(more) : x \in Nat /\ x <= posted
      BY <1>1, <1>2, <1>4, <1>5, <1>n
    <3>3. QED
      BY <1>0, <1>6, <1>n, <2>1, <3>1, <3>2
  <2>3. CASE run[r].offset = 0 \/ m < run[r].offset
    BY <1>0, <1>6, <2>1, <2>2, <2>3 DEF Above
  <2>4. CASE run[r].offset # 0 /\ m >= run[r].offset
    <3>1. m <= run[r].horizon \/ \E x \in Members(s) : m <= x
      <4>1. \A x \in e : x \in Nat /\ x < run[r].offset
        BY <1>1, <1>n, <2>4 DEF Above
      <4>2. \A x \in e : ~(m <= x)
        BY <1>n, <2>1, <2>4, <4>1
      <4>3. QED
        BY <1>4, <1>6, <4>2
    <3>2. QED
      BY <1>0, <1>6, <2>4, <3>1 DEF Collected
  <2>5. QED
    BY <1>n, <2>1, <2>3, <2>4
<1>7. QED
  BY <1>3, <1>4, <1>5, <1>6

LEMMA CollectPageKeeps ==
    ASSUME IInv, NEW r \in Runs, CollectPage(r)
    PROVE  Moves(r) /\ RunInv(r)'
<1> DEFINE msgs == Page(r)
           more == IF msgs = {} THEN run[r].blocks ELSE Append(run[r].blocks, msgs)
           last == [run[r] EXCEPT !.blocks = more, !.pc = "replay", !.offset = 0]
           many == [run[r] EXCEPT !.blocks = <<>>, !.pc = "final", !.ending = "failed", !.offset = 0]
           on == [run[r] EXCEPT !.blocks = more, !.offset = Min(msgs)]
<1>0. /\ TypeOK /\ Control(r) /\ Sorted(r) /\ Collected(r) /\ Known(r) /\ run[r].pc = "collect"
      /\ run[r] \in RunState
  BY Constants DEF IInv, RunInv, CollectPage
<1>1. /\ more \in Seq(SUBSET Messages) /\ Descending(more)
      /\ Members(more) = Members(run[r].blocks) \cup msgs
      /\ \A i \in 1..Len(more) : more[i] # {}
      /\ \A x \in Members(more) : x <= posted
      /\ \A x \in Members(run[r].blocks), y \in msgs : y < x
      /\ \A m \in Media :
            /\ m > run[r].resume
            /\ m <= run[r].horizon \/ \E x \in Members(more) : m <= x
            => m \in Above(r) \/ m \in Members(run[r].blocks)
  BY <1>0, PageAdds
<1>2. /\ msgs \subseteq Above(r) /\ msgs \in SUBSET Messages /\ Cut(r) \in SUBSET Media
      /\ \A m \in Media \cap Above(r) : m \in msgs \/ m \in Cut(r) \/ Cardinality(msgs) = PageSize
      /\ \A m \in Media \cap Above(r), x \in msgs : x <= m => m \in msgs
  BY <1>0, PageFacts
<1>3. passed' = passed \cup Cut(r) /\ UNCHANGED <<posted, store, row, skipped>>
  BY DEF CollectPage
<1>4. \/ Cardinality(msgs) < PageSize /\ run' = [run EXCEPT ![r] = last]
      \/ run' = [run EXCEPT ![r] = many]
      \/ ~(Cardinality(msgs) < PageSize) /\ run' = [run EXCEPT ![r] = on]
  BY DEF CollectPage
<1> HIDE DEF msgs, more
<1>5. /\ 0 \in 0..MaxId /\ Messages \subseteq 0..MaxId /\ <<>> \in Seq(SUBSET Messages)
      /\ Members(<<>>) = {} /\ Descending(<<>>) /\ Len(<<>>) = 0
      /\ run[r].resume \in Nat /\ run[r].offset \in Nat /\ PageSize \in Nat /\ PageSize > 0
      /\ \A m \in Messages : m \in Nat
  BY <1>0, Constants, Numbers DEF RunState
<1>6. ASSUME NEW t \in RunState, run' = [run EXCEPT ![r] = t]
      PROVE  Moves(r) /\ run'[r] = t
  <2>1. passed' \in SUBSET Media /\ passed \subseteq passed'
    BY <1>0, <1>2, <1>3 DEF TypeOK
  <2>2. QED
    BY <1>0, <1>3, <1>6, <2>1, MovesTo DEF TypeOK
<1>7. CASE Cardinality(msgs) < PageSize /\ run' = [run EXCEPT ![r] = last]
  <2>1. last \in RunState
    BY <1>0, <1>1, <1>5 DEF RunState
  <2>2. /\ last.pc = "replay" /\ last.block = run[r].block /\ last.blocks = more /\ last.cursor = run[r].cursor
        /\ last.failed = run[r].failed /\ last.ending = run[r].ending /\ last.horizon = run[r].horizon
        /\ last.types = run[r].types /\ last.resume = run[r].resume
    BY <1>0 DEF RunState
  <2>3. Moves(r) /\ run'[r] = last
    BY <1>6, <1>7, <2>1
  <2> HIDE DEF last
  <2>4. Settled(r) \subseteq Settled(r)' /\ Done(r) \subseteq Done(r)' /\ Cut(r) \subseteq Done(r)'
    <3>1. Settled(r) \subseteq Settled(r)' /\ Done(r) \subseteq Done(r)'
      BY <1>3, <2>2, <2>3, DoneGrows
    <3>2. QED
      BY <1>2, <1>3, <3>1 DEF Done, Dealt
  <2>5. Control(r)' /\ Sorted(r)'
    BY <1>0, <1>1, <2>2, <2>3 DEF Control, Sorted
  <2>6. Known(r)'
    BY <1>0, <2>2, <2>3, <2>4 DEF Known, Accounted, Settled
  <2>7. Covers(r)'
    <3> SUFFICES ASSUME NEW m \in Media, m <= run[r].horizon \/ \E x \in Members(more) : m <= x
                 PROVE  m \in Members(more) \cup Done(r)'
      BY <1>0, <2>2, <2>3 DEF Covers, Control
    <3>1. CASE m <= run[r].resume
      <4>1. m <= run[r].cursor
        BY <1>0, <3>1 DEF Control
      <4>2. m \in Done(r)
        BY <1>0, <3>1, <4>1 DEF Known, Accounted, Done, Dealt
      <4>3. QED
        BY <2>4, <4>2
    <3>2. CASE m > run[r].resume
      <4>1. m \in Above(r) \/ m \in Members(run[r].blocks)
        BY <1>1, <3>2
      <4>2. m \in Above(r) => m \in msgs \/ m \in Cut(r)
        BY <1>2, <1>5, <1>7
      <4>3. QED
        BY <1>1, <2>4, <4>1, <4>2
    <3>3. m \in Nat /\ run[r].resume \in Nat
      BY <1>5, Numbers
    <3>4. m <= run[r].resume \/ m > run[r].resume
      BY <3>3
    <3>5. QED
      BY <3>1, <3>2, <3>4
  <2>8. QED
    BY <2>2, <2>3, <2>5, <2>6, <2>7 DEF RunInv, Collected
<1>8. CASE run' = [run EXCEPT ![r] = many]
  <2>1. many \in RunState
    BY <1>0, <1>5 DEF RunState
  <2>2. /\ many.pc = "final" /\ many.block = run[r].block /\ many.blocks = <<>> /\ many.cursor = run[r].cursor
        /\ many.failed = run[r].failed /\ many.ending = "failed"
    BY <1>0 DEF RunState
  <2>3. Moves(r) /\ run'[r] = many
    BY <1>6, <1>8, <2>1
  <2> HIDE DEF many
  <2>4. Control(r)' /\ Sorted(r)'
    BY <1>0, <1>5, <2>2, <2>3 DEF Control, Sorted
  <2>5. Known(r)'
    BY <1>0, <1>3, <2>2, <2>3 DEF Known, Accounted
  <2>6. QED
    BY <2>2, <2>3, <2>4, <2>5 DEF RunInv, Collected, Covers
<1>9. CASE ~(Cardinality(msgs) < PageSize) /\ run' = [run EXCEPT ![r] = on]
  <2>1. msgs # {}
    BY <1>5, <1>9, FS_EmptySet
  <2>2. PICK low \in msgs : low = Min(msgs) /\ \A x \in msgs : low <= x
    BY <1>2, <2>1, MinIsLeast
  <2> DEFINE t == [run[r] EXCEPT !.blocks = more, !.offset = low]
  <2>3. low \in 0..MaxId /\ low \in Nat /\ low # 0
    <3>1. low \in Messages
      BY <1>2
    <3>2. low \in 0..MaxId /\ low \in Nat /\ 1 <= low
      BY <1>5, <3>1, Numbers
    <3>3. QED
      BY <3>2
  <2>4. run' = [run EXCEPT ![r] = t]
    BY <1>9, <2>2
  <2>5. t \in RunState
    BY <1>0, <1>1, <2>3 DEF RunState
  <2>6. /\ t.pc = "collect" /\ t.block = run[r].block /\ t.blocks = more /\ t.cursor = run[r].cursor
        /\ t.failed = run[r].failed /\ t.ending = run[r].ending /\ t.horizon = run[r].horizon
        /\ t.resume = run[r].resume /\ t.offset = low
    BY <1>0 DEF RunState
  <2>7. Moves(r) /\ run'[r] = t
    BY <1>6, <2>4, <2>5
  <2> HIDE DEF t
  <2>8. Settled(r) \subseteq Settled(r)'
    BY <1>3, <2>6, <2>7 DEF Settled
  <2>9. Control(r)' /\ Sorted(r)'
    BY <1>0, <1>1, <1>3, <2>6, <2>7 DEF Control, Sorted
  <2>10. Known(r)'
    BY <1>0, <2>6, <2>7, <2>8 DEF Known, Accounted, Settled
  <2>11. \A x \in Members(more) : low <= x
    <3>1. Members(run[r].blocks) \in SUBSET Messages
      BY <1>0 DEF Members, RunState
    <3>2. \A x \in Members(run[r].blocks) : low < x /\ x \in Nat
      BY <1>1, <1>5, <3>1
    <3>3. \A x \in Members(run[r].blocks) : low <= x
      BY <2>3, <3>2
    <3>4. Members(more) = Members(run[r].blocks) \cup msgs /\ \A x \in msgs : low <= x
      BY <1>1, <2>2
    <3> HIDE DEF last, many, on
    <3>5. QED
      BY ONLY <3>3, <3>4
  <2>12. ASSUME NEW m \in Media, m > run[r].resume, m >= low,
                m <= run[r].horizon \/ \E x \in Members(more) : m <= x
         PROVE  m \in Members(more)
    <3>1. m \in Above(r) \/ m \in Members(run[r].blocks)
      BY <1>1, <2>12
    <3>2. low <= m
      BY <2>3, <2>12, Numbers
    <3>3. m \in Above(r) => m \in msgs
      BY <1>2, <3>2
    <3>4. QED
      BY <1>1, <3>1, <3>3
  <2>13. Collected(r)'
    BY <1>1, <1>3, <2>3, <2>6, <2>7, <2>11, <2>12 DEF Collected
  <2>14. QED
    BY <2>6, <2>7, <2>9, <2>10, <2>13 DEF RunInv, Covers
<1>10. QED
  BY <1>4, <1>7, <1>8, <1>9

-----------------------------------------------------------------------------
(* The invariant *)

LEMMA InitIInv == Init => IInv
<1> SUFFICES ASSUME Init PROVE IInv
  OBVIOUS
<1>1. TypeOK
  BY InitTyped
<1>2. \A m \in Media : m \in Nat /\ 1 <= m
  BY Numbers
<1>3. NothingLost
  BY <1>2 DEF Init, NoRow, NothingLost, Accounted
<1>4. ASSUME NEW r \in Runs PROVE RunInv(r)
  <2>1. Len(<<>>) = 0 /\ Members(<<>>) = {} /\ Descending(<<>>)
    BY <1>1, Constants
  <2>2. /\ run[r].pc = "idle" /\ run[r].block = {} /\ run[r].blocks = <<>> /\ run[r].offset = 0
        /\ run[r].cursor = 0 /\ run[r].ending = "none"
    BY DEF Init, NewRun
  <2>3. Control(r) /\ Sorted(r)
    BY <2>1, <2>2 DEF Control, Sorted
  <2>4. Known(r)
    BY <1>2, <2>2 DEF Known, Accounted
  <2>5. QED
    BY <2>2, <2>3, <2>4 DEF RunInv, Collected, Covers
<1>5. QED
  BY <1>1, <1>3, <1>4 DEF IInv

\* What a run knows stays true while the storage and the lists of messages given
\* up or not selected grow, and the channel too.
LEMMA OthersKeep ==
    ASSUME TypeOK, NEW q \in Runs, RunInv(q), run'[q] = run[q],
           store \subseteq store', passed \subseteq passed', skipped \subseteq skipped',
           posted' \in Nat, posted <= posted'
    PROVE  RunInv(q)'
<1>1. run[q] \in RunState /\ posted \in Nat
  BY Constants
<1>2. Settled(q) \subseteq Settled(q)' /\ Done(q) \subseteq Done(q)'
  BY DoneGrows
<1>3. run[q].horizon \in Nat /\ Members(run[q].blocks) \in SUBSET Nat
  <2>1. run[q].horizon \in 0..MaxId /\ Members(run[q].blocks) \in SUBSET Messages
    BY <1>1 DEF RunState, Members
  <2>2. MaxId \in Nat /\ Messages \subseteq Nat
    BY Numbers
  <2>3. run[q].horizon \in Nat
    BY <2>1, <2>2
  <2>4. QED
    BY <2>1, <2>2, <2>3
<1>4. Control(q)' /\ Sorted(q)'
  BY <1>1, <1>3 DEF RunInv, Control, Sorted
<1>5. Collected(q)'
  BY <1>1, <1>2, <1>3 DEF RunInv, Collected
<1>6. Covers(q)'
  BY <1>2 DEF RunInv, Covers
<1>7. Known(q)'
  BY <1>2 DEF RunInv, Known, Accounted, Settled
<1>8. QED
  BY <1>4, <1>5, <1>6, <1>7 DEF RunInv

\* Whoever saves the row knows of every message below its cursor.
LEMMA RowKeeps ==
    ASSUME IInv, NEW r \in Runs, Moves(r),
           \/ row' = row
           \/ row'.lastRead = run[r].cursor /\ run[r].failed \subseteq row'.failed \cup passed'
    PROVE  NothingLost'
<1>1. /\ NothingLost /\ Known(r) /\ store \subseteq store' /\ passed \subseteq passed'
      /\ skipped \subseteq skipped'
  BY DEF IInv, RunInv, Moves
<1>2. QED
  BY <1>1 DEF NothingLost, Known, Accounted

LEMMA RunStepKeeps ==
    ASSUME IInv, NEW r \in Runs, RunStep(r) \/ Cancel(r) \/ \E n \in Caps, types \in Selections : Start(r, n, types)
    PROVE  IInv'
<1>1. Moves(r) /\ RunInv(r)'
  BY LoadKeeps, RetryFetchKeeps, RetrySkipKeeps, RetryBlockKeeps, RetryDoneKeeps, CollectPageKeeps,
     CollectFailsKeeps, ReplayNextKeeps, ReplayEndsKeeps, ReplayBlockKeeps, SaveBlockKeeps, SaveFinalKeeps,
     UserKeeps DEF RunStep
<1>2. TypeOK /\ TypeOK' /\ posted \in Nat /\ posted <= posted
  BY <1>1, Constants DEF IInv, Moves
<1>3. ASSUME NEW q \in Runs PROVE RunInv(q)'
  <2>1. CASE q = r
    BY <1>1, <2>1
  <2>2. CASE q # r
    BY <1>1, <1>2, <2>2, OthersKeep DEF IInv, Moves
  <2>3. QED
    BY <2>1, <2>2
<1>4. \/ row' = row
      \/ row'.lastRead = run[r].cursor /\ run[r].failed \subseteq row'.failed \cup passed'
  <2>1. CASE SaveBlock(r) \/ SaveFinal(r)
    BY <1>2, <2>1, SaveEffect DEF SaveBlock, SaveFinal
  <2>2. CASE ~(SaveBlock(r) \/ SaveFinal(r))
    <3>1. CASE Cancel(r) \/ \E n \in Caps, types \in Selections : Start(r, n, types)
      BY <3>1 DEF Cancel, Start
    <3>2. CASE LoadCheckpoint(r) \/ RetryFetch(r) \/ RetrySkip(r) \/ RetryBlock(r) \/ RetryDone(r)
      BY <3>2 DEF LoadCheckpoint, RetryFetch, RetrySkip, RetryBlock, RetryDone
    <3>3. CASE CollectPage(r)
      BY <3>3 DEF CollectPage
    <3>4. CASE CollectFails(r) \/ ReplayNext(r) \/ ReplayEnds(r) \/ ReplayBlock(r)
      BY <3>4 DEF CollectFails, ReplayNext, ReplayEnds, ReplayBlock
    <3>5. QED
      BY <2>2, <3>1, <3>2, <3>3, <3>4 DEF RunStep
  <2>3. QED
    BY <2>1, <2>2
<1>5. NothingLost'
  BY <1>1, <1>4, RowKeeps
<1>6. QED
  BY <1>2, <1>3, <1>5 DEF IInv

LEMMA NextIInv == IInv /\ [Next]_vars => IInv'
<1> SUFFICES ASSUME IInv, [Next]_vars PROVE IInv'
  OBVIOUS
<1>0. TypeOK /\ NothingLost /\ posted \in Nat /\ posted <= posted /\ posted <= MaxId /\ MaxId \in Nat
  BY Numbers DEF IInv, TypeOK
<1>1. CASE \E r \in Runs : RunStep(r) \/ Cancel(r) \/ \E n \in Caps, types \in Selections : Start(r, n, types)
  BY <1>1, RunStepKeeps
<1>2. ASSUME TypeOK', run' = run, store' = store, passed' = passed, skipped' = skipped,
             posted <= posted', posted' \in Nat, NothingLost'
      PROVE  IInv'
  BY <1>0, <1>2, OthersKeep DEF IInv
<1>3. CASE Reset
  <2>1. TypeOK'
    <3>1. NoRow \in [lastRead : 0..MaxId, failed : SUBSET Media]
      BY Numbers DEF NoRow
    <3>2. QED
      BY <1>0, <1>3, <3>1 DEF Reset, TypeOK
  <2>2. NothingLost'
    <3>1. \A m \in Media : m \in Nat /\ 1 <= m
      BY Numbers
    <3>2. QED
      BY <1>3, <3>1 DEF Reset, NoRow, NothingLost, Accounted
  <2>3. QED
    BY <1>0, <1>2, <1>3, <2>1, <2>2 DEF Reset
<1>4. CASE Post
  <2>1. posted' \in Nat /\ posted' \in 0..MaxId /\ posted <= posted'
    BY <1>0, <1>4 DEF Post
  <2>2. TypeOK'
    BY <1>0, <1>4, <2>1 DEF Post, TypeOK
  <2>3. NothingLost'
    BY <1>0, <1>4 DEF Post, NothingLost, Accounted
  <2>4. QED
    BY <1>2, <1>4, <2>1, <2>2, <2>3 DEF Post
<1>5. CASE Crash
  <2>1. TypeOK' /\ NothingLost'
    BY <1>0, <1>5, NewRunTyped DEF Crash, TypeOK, NothingLost, Accounted
  <2>2. \A q \in Runs : run'[q] = NewRun
    BY <1>5 DEF Crash
  <2>3. QED
    BY <1>0, <2>1, <2>2, NewRunInv DEF IInv
<1>6. CASE UNCHANGED vars
  <2>1. TypeOK' /\ NothingLost'
    BY <1>0, <1>6 DEF vars, TypeOK, NothingLost, Accounted
  <2>2. QED
    BY <1>0, <1>2, <1>6, <2>1 DEF vars
<1>7. QED
  BY <1>1, <1>3, <1>4, <1>5, <1>6 DEF Next

\* The checkpoint, the pages and the counters of every run stay in their ranges.
THEOREM TypeCorrect == Spec => []TypeOK
<1>1. IInv => TypeOK
  BY DEF IInv
<1>2. QED
  BY <1>1, InitIInv, NextIInv, PTL DEF Spec

\* However many runs share the row, whatever media types each of them selects,
\* whatever they are cancelled by and wherever the process crashes, a message with
\* media up to the lastRead of the row is in the storage or will be retried, unless
\* it was lost in one of the four known ways.
THEOREM NoMessageLost == Spec => []NothingLost
<1>1. IInv => NothingLost
  BY DEF IInv
<1>2. QED
  BY <1>1, InitIInv, NextIInv, PTL DEF Spec

\* A run that completes has dealt with all the history there was when it began
\* to collect: a message of its selection above the checkpoint it started from is
\* stored, listed as failed or known to be given up.
THEOREM CompleteRun == Spec => []CompleteRunCoversHistory
<1>1. IInv => CompleteRunCoversHistory
  <2> SUFFICES ASSUME IInv, NEW r \in Runs, run[r].ending = "complete",
                      NEW m \in Media, m <= run[r].horizon
               PROVE  Dealt(r, m)
    BY DEF CompleteRunCoversHistory
  <2>1. /\ TypeOK /\ Control(r) /\ Covers(r) /\ run[r] \in RunState /\ Members(<<>>) = {}
    BY Constants DEF IInv, RunInv
  <2>2. run[r].blocks = <<>> /\ run[r].pc \in {"save", "final"}
    BY <2>1 DEF Control, RunState
  <2>3. run[r].block = {}
    BY <2>1, <2>2 DEF Control
  <2>4. QED
    BY <2>1, <2>2, <2>3 DEF Covers, Done
<1>2. QED
  BY <1>1, InitIInv, NextIInv, PTL DEF Spec
=============================================================================
