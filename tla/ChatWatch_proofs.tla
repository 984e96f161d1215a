-------------------------- MODULE ChatWatch_proofs --------------------------
(***************************************************************************)
(* Proofs about ChatWatch for any users, messages and groups and any       *)
(* capacity of the channel.  That a held back message makes one task is a  *)
(* matter of conservation: of every wait there is one token on its way     *)
(* through the events map, a callback, the channel, the listener, and for  *)
(* each user to the album buffer and a task, and no step makes a second.   *)
(*                                                                         *)
(* The second half is about SaveDialog, whose names do not meet those of   *)
(* the first.  Its invariant ties the data behind the keyboard that shows, *)
(* and behind the one it replaced, to what the user has pressed so far:    *)
(* then each handler is shown to tell of every file, and to make the task  *)
(* that was meant, whichever of the two a press comes from.                *)
(***************************************************************************)
EXTENDS ChatWatch, SaveDialog, FunctionTheorems, FiniteSetTheorems, TLAPS

InEvents(m) == IF m \in event THEN 1 ELSE 0
InHand(u, m) == IF current = m /\ u \in todo THEN 1 ELSE 0

\* What has become of the waits of a message, for one user.
Flow(u, m) ==
    InEvents(m) + sending[m] + Count(queue, m) + InHand(u, m) + Count(buf[u], m) + tasks[<<u, m>>] <= waits[m]

\* The listener has users to see to only while it has a message.
Busy == current = NoMessage => todo = {}

Held == \A m \in Messages : waits[m] <= delivered[m]

IInv == TypeOK /\ Busy /\ Held /\ BufferAccounts /\ \A u \in Users, m \in Messages : Flow(u, m)

-----------------------------------------------------------------------------
(* Counting *)

LEMMA CountType ==
    ASSUME NEW S, NEW s \in Seq(S), NEW m
    PROVE  /\ IsFiniteSet({i \in 1..Len(s) : s[i] = m}) /\ Count(s, m) \in Nat
           /\ Count(<<>>, m) = 0
<1>1. IsFiniteSet(1..Len(s))
  BY FS_Interval
<1>2. IsFiniteSet({i \in 1..Len(s) : s[i] = m})
  BY <1>1, FS_Subset
<1>3. Count(s, m) \in Nat
  BY <1>2, FS_CardinalityType DEF Count, CountIn
<1>4. Count(<<>>, m) = 0
  <2>1. {i \in 1..Len(<<>>) : <<>>[i] = m} = {}
    OBVIOUS
  <2>2. QED
    BY <2>1, FS_EmptySet DEF Count, CountIn
<1>5. QED
  BY <1>2, <1>3, <1>4

LEMMA CountAppend ==
    ASSUME NEW S, NEW s \in Seq(S), NEW x \in S, NEW m
    PROVE  Count(Append(s, x), m) = Count(s, m) + (IF x = m THEN 1 ELSE 0)
<1> DEFINE A == {i \in 1..Len(s) : s[i] = m}
           B == {i \in 1..Len(Append(s, x)) : Append(s, x)[i] = m}
           n == Len(s) + 1
<1>1. /\ Len(s) \in Nat /\ Len(Append(s, x)) = n /\ Append(s, x)[n] = x
      /\ \A i \in 1..Len(s) : Append(s, x)[i] = s[i]
  OBVIOUS
<1>2. IsFiniteSet(A) /\ n \notin A /\ Cardinality(A) \in Nat
  <2>1. n \notin A
    BY <1>1
  <2>2. IsFiniteSet(A)
    BY CountType
  <2>3. QED
    BY <2>1, <2>2, FS_CardinalityType
<1>c. Count(s, m) = Cardinality(A) /\ Count(Append(s, x), m) = Cardinality(B)
  BY DEF Count, CountIn
<1>3. CASE x = m
  <2>1. B = A \cup {n}
    BY <1>1, <1>3
  <2> HIDE DEF A, B
  <2>2. Cardinality(B) = Cardinality(A) + 1
    BY <1>2, <2>1, FS_AddElement
  <2>3. QED
    BY <1>c, <1>3, <2>2
<1>4. CASE x # m
  <2>1. B = A
    BY <1>1, <1>4
  <2> HIDE DEF A, B
  <2>2. QED
    BY <1>c, <1>2, <1>4, <2>1
<1>5. QED
  BY <1>3, <1>4

LEMMA CountTail ==
    ASSUME NEW S, NEW s \in Seq(S), s # <<>>, NEW m
    PROVE  Count(Tail(s), m) + (IF Head(s) = m THEN 1 ELSE 0) = Count(s, m)
<1> DEFINE A == {i \in 1..Len(s) : s[i] = m}
           B == {i \in 1..Len(Tail(s)) : Tail(s)[i] = m}
           f == [i \in A \ {1} |-> i - 1]
<1>1. /\ Len(s) \in Nat /\ Len(s) > 0 /\ Len(Tail(s)) = Len(s) - 1 /\ Head(s) = s[1]
      /\ \A i \in 1..Len(s) - 1 : Tail(s)[i] = s[i + 1]
  OBVIOUS
<1>2. IsFiniteSet(A) /\ Cardinality(A) \in Nat
  BY CountType, FS_CardinalityType
<1>3. IsFiniteSet(A \ {1}) /\ Cardinality(A \ {1}) = IF 1 \in A THEN Cardinality(A) - 1 ELSE Cardinality(A)
  BY <1>2, FS_RemoveElement
<1>4. f \in Bijection(A \ {1}, B)
  <2>1. \A i \in A \ {1} : f[i] \in B
    BY <1>1
  <2>2. \A i, j \in A \ {1} : f[i] = f[j] => i = j
    BY <1>1
  <2>3. ASSUME NEW k \in B PROVE \E i \in A \ {1} : f[i] = k
    <3>1. k + 1 \in A \ {1}
      BY <1>1
    <3>2. f[k + 1] = k
      BY <1>1, <3>1
    <3>3. QED
      BY <3>1, <3>2
  <2>4. QED
    BY <2>1, <2>2, <2>3, Fun_IsBij
<1>5. 1 \in A <=> Head(s) = m
  BY <1>1
<1>c. Count(s, m) = Cardinality(A) /\ Count(Tail(s), m) = Cardinality(B)
  BY DEF Count, CountIn
<1> HIDE DEF A, B, f
<1>6. Cardinality(B) = Cardinality(A \ {1})
  <2>1. ExistsBijection(A \ {1}, B)
    BY <1>4 DEF ExistsBijection
  <2>2. QED
    BY <1>3, <2>1, FS_Bijection
<1>7. 1 \in A => Cardinality(A) > 0
  BY <1>2, FS_EmptySet
<1>8. QED
  BY <1>c, <1>2, <1>3, <1>5, <1>6

\* The numbers that are added up, and what follows from the assumption.
LEMMA Numbers ==
    ASSUME TypeOK, NEW u \in Users, NEW m \in Messages
    PROVE  /\ <<u, m>> \in Pairs /\ m # NoMessage /\ m \in Messages \cup {NoMessage}
           /\ InEvents(m) \in Nat /\ InHand(u, m) \in Nat /\ sending[m] \in Nat
           /\ Count(queue, m) \in Nat /\ Count(buf[u], m) \in Nat
           /\ tasks[<<u, m>>] \in Nat /\ dropped[<<u, m>>] \in Nat /\ handed[<<u, m>>] \in Nat
           /\ waits[m] \in Nat /\ delivered[m] \in Nat
<1>1. <<u, m>> \in Pairs /\ m # NoMessage /\ m \in Messages \cup {NoMessage}
  BY ChatWatchAssumption DEF Pairs
<1>2. InEvents(m) \in Nat /\ InHand(u, m) \in Nat
  BY DEF InEvents, InHand
<1>3. Count(queue, m) \in Nat
  BY CountType DEF TypeOK
<1>4. Count(buf[u], m) \in Nat
  <2>1. buf[u] \in Seq(Messages)
    BY DEF TypeOK
  <2>2. QED
    BY <2>1, CountType
<1>6. sending[m] \in Nat /\ waits[m] \in Nat /\ delivered[m] \in Nat
  BY <1>1 DEF TypeOK
<1>7. tasks[<<u, m>>] \in Nat /\ dropped[<<u, m>>] \in Nat /\ handed[<<u, m>>] \in Nat
  BY <1>1 DEF TypeOK
<1>8. QED
  BY <1>1, <1>2, <1>3, <1>4, <1>6, <1>7

-----------------------------------------------------------------------------
(* Types *)

\* The files of a buffer with indices in I, by message.
LEMMA CountSplit ==
    ASSUME NEW s \in Seq(Messages), NEW I \in SUBSET (1..Len(s)), NEW m
    PROVE  /\ CountIn(s, I, m) \in Nat /\ CountIn(s, (1..Len(s)) \ I, m) \in Nat
           /\ CountIn(s, I, m) + CountIn(s, (1..Len(s)) \ I, m) = Count(s, m)
<1> DEFINE all == 1..Len(s)
           A == {i \in I : s[i] = m}
           B == {i \in all \ I : s[i] = m}
<1>1. IsFiniteSet(all)
  BY FS_Interval
<1>2. A \subseteq all /\ B \subseteq all
  OBVIOUS
<1>3. IsFiniteSet(A) /\ IsFiniteSet(B)
  BY <1>1, <1>2, FS_Subset
<1>4. Cardinality(A) \in Nat /\ Cardinality(B) \in Nat
  BY <1>3, FS_CardinalityType
<1>5. A \cap B = {} /\ A \cup B = {i \in all : s[i] = m}
  OBVIOUS
<1>6. Cardinality(A \cup B) = Cardinality(A) + Cardinality(B) - Cardinality(A \cap B)
  BY <1>3, FS_Union
<1>7. Cardinality(A \cap B) = 0
  BY <1>5, FS_EmptySet
<1>8. /\ CountIn(s, I, m) = Cardinality(A) /\ CountIn(s, all \ I, m) = Cardinality(B)
      /\ Count(s, m) = Cardinality(A \cup B)
  BY <1>5 DEF CountIn, Count
<1> HIDE DEF A, B, all
<1>9. Count(s, m) = Cardinality(A) + Cardinality(B)
  BY <1>4, <1>6, <1>7, <1>8
<1>10. QED
  BY <1>4, <1>8, <1>9 DEF all

LEMMA TallyCounts ==
    ASSUME NEW c \in [Pairs -> Nat], NEW u \in Users, NEW s \in Seq(Messages), NEW I \in SUBSET (1..Len(s))
    PROVE  /\ Tally(c, u, s, I) \in [Pairs -> Nat]
           /\ \A v \in Users, m \in Messages :
                  Tally(c, u, s, I)[<<v, m>>] = IF v = u THEN c[<<v, m>>] + CountIn(s, I, m) ELSE c[<<v, m>>]
<1>1. \A p \in Pairs : p[2] \in Messages /\ CountIn(s, I, p[2]) \in Nat /\ c[p] \in Nat
  BY CountSplit DEF Pairs
<1>2. \A v \in Users, m \in Messages : <<v, m>> \in Pairs /\ <<v, m>>[1] = v /\ <<v, m>>[2] = m
  BY DEF Pairs
<1>3. Tally(c, u, s, I) \in [Pairs -> Nat]
  BY <1>1 DEF Tally
<1>4. QED
  BY <1>2, <1>3 DEF Tally

\* The callback of the album buffer turns counts into tasks, or drops them.
LEMMA ProcessType ==
    ASSUME TypeOK, NEW u \in Users, ProcessWatchMediaGroup(u, buf[u])
    PROVE  /\ tasks' \in [Pairs -> Nat] /\ dropped' \in [Pairs -> Nat] /\ owed' \subseteq Wants
           /\ \A v \in Users, m \in Messages : v # u => /\ tasks'[<<v, m>>] = tasks[<<v, m>>]
                                                        /\ dropped'[<<v, m>>] = dropped[<<v, m>>]
           /\ \A m \in Messages : /\ tasks'[<<u, m>>] + dropped'[<<u, m>>]
                                        = tasks[<<u, m>>] + dropped[<<u, m>>] + Count(buf[u], m)
                                  /\ tasks'[<<u, m>>] <= tasks[<<u, m>>] + Count(buf[u], m)
<1>1. PICK kept \in SUBSET (1..Len(buf[u])) :
          /\ tasks' = Tally(tasks, u, buf[u], kept)
          /\ dropped' = Tally(dropped, u, buf[u], (1..Len(buf[u])) \ kept)
          /\ owed' \subseteq owed
  BY DEF ProcessWatchMediaGroup, InAlbums
<1>2. /\ buf[u] \in Seq(Messages)
      /\ tasks \in [Pairs -> Nat] /\ dropped \in [Pairs -> Nat] /\ owed \subseteq Wants
  BY DEF TypeOK
<1> DEFINE rest == (1..Len(buf[u])) \ kept
<1>c. rest \in SUBSET (1..Len(buf[u]))
  OBVIOUS
<1> HIDE DEF rest
<1>d. /\ Tally(tasks, u, buf[u], kept) \in [Pairs -> Nat]
      /\ \A v \in Users, m \in Messages : Tally(tasks, u, buf[u], kept)[<<v, m>>]
             = IF v = u THEN tasks[<<v, m>>] + CountIn(buf[u], kept, m) ELSE tasks[<<v, m>>]
  BY <1>2, TallyCounts
<1>e. /\ Tally(dropped, u, buf[u], rest) \in [Pairs -> Nat]
      /\ \A v \in Users, m \in Messages : Tally(dropped, u, buf[u], rest)[<<v, m>>]
             = IF v = u THEN dropped[<<v, m>>] + CountIn(buf[u], rest, m) ELSE dropped[<<v, m>>]
  BY <1>2, <1>c, TallyCounts
<1>f. tasks' = Tally(tasks, u, buf[u], kept) /\ dropped' = Tally(dropped, u, buf[u], rest)
  BY <1>1 DEF rest
<1>3. tasks' \in [Pairs -> Nat] /\ dropped' \in [Pairs -> Nat] /\ owed' \subseteq Wants
  BY <1>1, <1>2, <1>d, <1>e, <1>f
<1>4. ASSUME NEW v \in Users, NEW m \in Messages
      PROVE  /\ tasks'[<<v, m>>] = IF v = u THEN tasks[<<v, m>>] + CountIn(buf[u], kept, m) ELSE tasks[<<v, m>>]
             /\ dropped'[<<v, m>>] = IF v = u THEN dropped[<<v, m>>] + CountIn(buf[u], rest, m)
                                              ELSE dropped[<<v, m>>]
  BY <1>d, <1>e, <1>f
<1>5. ASSUME NEW m \in Messages
      PROVE  /\ tasks'[<<u, m>>] + dropped'[<<u, m>>] = tasks[<<u, m>>] + dropped[<<u, m>>] + Count(buf[u], m)
             /\ tasks'[<<u, m>>] <= tasks[<<u, m>>] + Count(buf[u], m)
  <2>1. /\ CountIn(buf[u], kept, m) \in Nat /\ CountIn(buf[u], rest, m) \in Nat
        /\ CountIn(buf[u], kept, m) + CountIn(buf[u], rest, m) = Count(buf[u], m)
    BY <1>2, CountSplit DEF rest
  <2>2. tasks[<<u, m>>] \in Nat /\ dropped[<<u, m>>] \in Nat
    BY Numbers
  <2>3. QED
    BY <1>4, <2>1, <2>2
<1>6. QED
  BY <1>3, <1>4, <1>5

\* A number of a function goes up, or one that is not zero goes down.
LEMMA CountUp ==
    ASSUME NEW S, NEW f \in [S -> Nat], NEW x
    PROVE  [f EXCEPT ![x] = @ + 1] \in [S -> Nat]
<1>1. ASSUME x \in S PROVE f[x] + 1 \in Nat
  BY <1>1
<1>2. QED
  BY <1>1

LEMMA CountDown ==
    ASSUME NEW S, NEW f \in [S -> Nat], NEW x, f[x] > 0
    PROVE  [f EXCEPT ![x] = @ - 1] \in [S -> Nat]
<1>1. ASSUME x \in S PROVE f[x] - 1 \in Nat
  BY <1>1
<1>2. QED
  BY <1>1

\* What a delivery, a timer and its callback leave is of its type.
LEMMA DebounceType ==
    ASSUME TypeOK, Held, NEW m \in Messages, SendMediaMessageEvent(m) \/ Fire(m) \/ Debounced(m)
    PROVE  TypeOK'
<1> USE DEF listenVars, bufferVars, resultVars
<1>t. /\ firing \in [Messages -> Nat] /\ orphan \in [Messages -> Nat] /\ timer \in [Messages -> States]
      /\ sending \in [Messages \cup {NoMessage} -> Nat]
  BY DEF TypeOK
<1>1. CASE SendMediaMessageEvent(m)
  <2>1. /\ waits[m] \in Nat /\ delivered[m] \in Nat /\ waits[m] <= delivered[m]
    BY <1>1 DEF SendMediaMessageEvent, TypeOK, Held
  <2>2. delivered[m] + 1 \in Nat /\ waits[m] + 1 \in Nat
    BY <2>1
  <2>3. delivered' \in [Messages -> Nat]
    BY <1>1, <2>2 DEF SendMediaMessageEvent, TypeOK
  <2>4. waits' \in [Messages -> Nat] /\ event' \subseteq Messages
    BY <1>1, <2>2 DEF SendMediaMessageEvent, TypeOK
  <2>5. timer' \in [Messages -> States]
    BY <1>t, <1>1 DEF SendMediaMessageEvent, States
  <2>6. owed' \subseteq Wants
    BY <1>1 DEF SendMediaMessageEvent, TypeOK
  <2>7. QED
    BY <1>1, <2>3, <2>4, <2>5, <2>6 DEF SendMediaMessageEvent, TypeOK
<1>2. CASE Fire(m)
  <2>1. firing' \in [Messages -> Nat]
    BY <1>t, <1>2, CountUp DEF Fire
  <2>2. timer' \in [Messages -> States]
    BY <1>t, <1>2 DEF Fire, States
  <2>3. orphan' \in [Messages -> Nat]
    BY <1>t, <1>2, CountDown DEF Fire
  <2>4. QED
    BY <1>2, <2>1, <2>2, <2>3 DEF Fire, TypeOK
<1>3. CASE Debounced(m)
  <2>1. firing' \in [Messages -> Nat]
    BY <1>t, <1>3, CountDown DEF Debounced
  <2>2. timer' \in [Messages -> States]
    BY <1>t, <1>3 DEF Debounced, States
  <2>3. orphan' \in [Messages -> Nat]
    BY <1>t, <1>3, CountUp DEF Debounced
  <2>4. sending' \in [Messages \cup {NoMessage} -> Nat]
    BY <1>t, <1>3, CountUp DEF Debounced
  <2>5. QED
    BY <1>3, <2>1, <2>2, <2>3, <2>4 DEF Debounced, TypeOK
<1>4. QED
  BY <1>1, <1>2, <1>3

LEMMA ChannelType ==
    ASSUME TypeOK, NEW x \in Messages \cup {NoMessage}, Send(x)
    PROVE  TypeOK'
<1>1. sending' \in [Messages \cup {NoMessage} -> Nat]
  <2>1. sending \in [Messages \cup {NoMessage} -> Nat]
    BY DEF TypeOK
  <2>2. QED
    BY <2>1, CountDown DEF Send
<1>2. queue' \in Seq(Messages \cup {NoMessage}) /\ Len(queue') = Len(queue) + 1
  BY DEF Send, TypeOK
<1>3. Len(queue) \in Nat /\ QueueSize \in Nat /\ Len(queue) < QueueSize
  BY ChatWatchAssumption DEF Send, TypeOK
<1>4. Len(queue') <= QueueSize
  BY <1>2, <1>3
<1>5. QED
  BY <1>1, <1>2, <1>4 DEF Send, TypeOK, listenVars, bufferVars, resultVars

LEMMA BufferType ==
    ASSUME TypeOK, NEW u \in Users, BufFire(u) \/ Buffered(u)
    PROVE  TypeOK'
<1> USE DEF debounceVars, listenVars, bufferVars, resultVars
<1>t. bufFiring \in [Users -> Nat] /\ bufOrphan \in [Users -> Nat] /\ bufTimer \in [Users -> States]
  BY DEF TypeOK
<1>1. CASE BufFire(u)
  <2>1. bufFiring' \in [Users -> Nat]
    BY <1>t, <1>1, CountUp DEF BufFire
  <2>2. bufTimer' \in [Users -> States]
    BY <1>t, <1>1 DEF BufFire, States
  <2>3. bufOrphan' \in [Users -> Nat]
    BY <1>t, <1>1, CountDown DEF BufFire
  <2>4. QED
    BY <1>1, <2>1, <2>2, <2>3 DEF BufFire, TypeOK
<1>2. CASE Buffered(u)
  <2>1. bufFiring' \in [Users -> Nat]
    BY <1>t, <1>2, CountDown DEF Buffered
  <2>2. bufTimer' \in [Users -> States]
    BY <1>t, <1>2 DEF Buffered, States
  <2>3. bufOrphan' \in [Users -> Nat]
    BY <1>t, <1>2, CountUp DEF Buffered
  <2>4. buf' \in [Users -> Seq(Messages)]
    BY <1>2 DEF Buffered, TypeOK
  <2>5. tasks' \in [Pairs -> Nat] /\ dropped' \in [Pairs -> Nat] /\ owed' \subseteq Wants
    BY <1>2, ProcessType DEF Buffered
  <2>6. QED
    BY <1>2, <2>1, <2>2, <2>3, <2>4, <2>5 DEF Buffered, TypeOK
<1>3. QED
  BY <1>1, <1>2

LEMMA ListenType ==
    ASSUME TypeOK, Listen
    PROVE  TypeOK'
<1> USE DEF debounceVars, listenVars, bufferVars, resultVars
<1>1. CASE ReceiveZero \/ Receive
  <2>1. queue # <<>> /\ queue' = Tail(queue) /\ queue \in Seq(Messages \cup {NoMessage})
    BY <1>1 DEF ReceiveZero, Receive, TypeOK
  <2>2. /\ queue' \in Seq(Messages \cup {NoMessage}) /\ Head(queue) \in Messages \cup {NoMessage}
        /\ Len(queue') = Len(queue) - 1 /\ Len(queue) \in Nat
    BY <2>1
  <2>3. Len(queue') <= QueueSize
    BY <2>2, ChatWatchAssumption DEF TypeOK
  <2>4. CASE ReceiveZero
    BY <2>2, <2>3, <2>4 DEF ReceiveZero, TypeOK
  <2>5. CASE Receive
    BY <2>2, <2>3, <2>5 DEF Receive, TypeOK
  <2>6. QED
    BY <1>1, <2>4, <2>5
<1>2. CASE HandleNone
  BY <1>2 DEF HandleNone, TypeOK
<1>3. ASSUME NEW u \in Users, Handle(u) PROVE TypeOK'
  <2>1. current' \in Messages \cup {NoMessage} /\ todo' \subseteq Users /\ owed' \subseteq Wants
    BY <1>3 DEF Handle, TypeOK
  <2>2. CASE UNCHANGED <<tasks, handed, bufferVars>>
    BY <1>3, <2>1, <2>2 DEF Handle, TypeOK
  <2>3. CASE <<u, current>> \in Wants /\ AddFile(u, current) /\ UNCHANGED tasks
    <3>1. current \in Messages
      BY <2>3, ChatWatchAssumption
    <3>2. buf[u] \in Seq(Messages) /\ Append(buf[u], current) \in Seq(Messages)
      BY <3>1 DEF TypeOK
    <3>3. buf' \in [Users -> Seq(Messages)]
      BY <2>3, <3>2 DEF AddFile, TypeOK
    <3>t. bufTimer \in [Users -> States] /\ handed \in [Pairs -> Nat]
      BY DEF TypeOK
    <3>4. bufTimer' \in [Users -> States]
      BY <2>3, <3>t DEF AddFile, States
    <3>5. handed' \in [Pairs -> Nat]
      BY <2>3, <3>t, CountUp DEF AddFile
    <3>6. UNCHANGED <<bufOrphan, bufFiring>>
      BY <2>3 DEF AddFile
    <3>7. QED
      BY <1>3, <2>1, <2>3, <3>3, <3>4, <3>5, <3>6 DEF Handle, TypeOK
  <2>4. CASE MakeTask(u, current) /\ UNCHANGED <<handed, bufferVars>>
    <3>1. tasks' \in [Pairs -> Nat]
      BY <2>4, CountUp DEF MakeTask, TypeOK
    <3>2. QED
      BY <1>3, <2>1, <2>4, <3>1 DEF Handle, TypeOK
  <2>5. QED
    BY <1>3, <2>2, <2>3, <2>4 DEF Handle
<1>4. QED
  BY <1>1, <1>2, <1>3 DEF Listen

LEMMA TypeStep ==
    ASSUME TypeOK, Held, [Next]_vars
    PROVE  TypeOK'
<1>1. ASSUME NEW u \in Users, StartWatching(u) \/ Unwatch(u) PROVE TypeOK'
  BY <1>1 DEF StartWatching, Unwatch, TypeOK, debounceVars, listenVars, bufferVars, resultVars
<1>2. CASE UNCHANGED vars
  BY <1>2 DEF vars, TypeOK, debounceVars, listenVars, bufferVars, resultVars
<1>3. QED
  BY <1>1, <1>2, DebounceType, ChannelType, BufferType, ListenType DEF Next

-----------------------------------------------------------------------------
(* The listener has users only with a message; a wait is a delivery *)

LEMMA BusyStep ==
    ASSUME TypeOK, Busy, [Next]_vars
    PROVE  Busy'
<1> USE DEF listenVars, bufferVars, resultVars
<1>1. ASSUME NEW u \in Users, StartWatching(u) \/ Unwatch(u) \/ BufFire(u) \/ Buffered(u) PROVE Busy'
  BY <1>1 DEF StartWatching, Unwatch, BufFire, Buffered, Busy
<1>2. ASSUME NEW m \in Messages, SendMediaMessageEvent(m) \/ Fire(m) \/ Debounced(m) PROVE Busy'
  BY <1>2 DEF SendMediaMessageEvent, Fire, Debounced, Busy
<1>3. ASSUME NEW x \in Messages \cup {NoMessage}, Send(x) PROVE Busy'
  BY <1>3 DEF Send, Busy
<1>4. CASE ReceiveZero \/ Receive \/ HandleNone
  BY <1>4 DEF ReceiveZero, Receive, HandleNone, Busy
<1>5. ASSUME NEW u \in Users, Handle(u) PROVE Busy'
  <2>1. current # NoMessage
    BY <1>5 DEF Handle, Busy
  <2>2. QED
    BY <1>5, <2>1 DEF Handle, Busy
<1>6. CASE UNCHANGED vars
  BY <1>6 DEF vars, Busy
<1>7. QED
  BY <1>1, <1>2, <1>3, <1>4, <1>5, <1>6 DEF Next, Listen

LEMMA HeldStep ==
    ASSUME TypeOK, Held, [Next]_vars
    PROVE  Held'
<1> USE DEF debounceVars, listenVars, bufferVars, resultVars
<1>1. ASSUME NEW m \in Messages, SendMediaMessageEvent(m) PROVE Held'
  <2>1. ASSUME NEW n \in Messages PROVE waits'[n] <= delivered'[n]
    <3>1. waits[n] \in Nat /\ delivered[n] \in Nat /\ waits[n] <= delivered[n]
      BY ChatWatchAssumption DEF TypeOK, Held
    <3>2. delivered'[n] = IF n = m THEN delivered[n] + 1 ELSE delivered[n]
      BY <1>1 DEF SendMediaMessageEvent, TypeOK
    <3>3. waits'[n] = waits[n] \/ (n = m /\ waits'[n] = waits[n] + 1)
      BY <1>1 DEF SendMediaMessageEvent, TypeOK
    <3>4. QED
      BY <3>1, <3>2, <3>3
  <2>2. QED
    BY <2>1 DEF Held
<1>2. CASE UNCHANGED <<delivered, waits>>
  BY <1>2 DEF Held
<1>3. ASSUME NEW u \in Users, StartWatching(u) \/ Unwatch(u) \/ BufFire(u) \/ Buffered(u)
      PROVE  UNCHANGED <<delivered, waits>>
  BY <1>3 DEF StartWatching, Unwatch, BufFire, Buffered
<1>4. ASSUME NEW m \in Messages, Fire(m) \/ Debounced(m) PROVE UNCHANGED <<delivered, waits>>
  BY <1>4 DEF Fire, Debounced
<1>5. ASSUME NEW x \in Messages \cup {NoMessage}, Send(x) PROVE UNCHANGED <<delivered, waits>>
  BY <1>5 DEF Send
<1>6. ASSUME Listen PROVE UNCHANGED <<delivered, waits>>
  BY <1>6 DEF Listen, ReceiveZero, Receive, HandleNone, Handle
<1>7. ASSUME UNCHANGED vars PROVE UNCHANGED <<delivered, waits>>
  BY <1>7 DEF vars
<1>8. QED
  BY <1>1, <1>2, <1>3, <1>4, <1>5, <1>6, <1>7 DEF Next

-----------------------------------------------------------------------------
(* What one user of the list and one callback of the album buffer change *)

LEMMA HandleEffect ==
    ASSUME TypeOK, Busy, NEW u \in Users, Handle(u), NEW v \in Users, NEW m \in Messages,
           NEW d, d = IF v = u /\ m = current THEN 1 ELSE 0
    PROVE  /\ \/ UNCHANGED <<buf, tasks, handed>>
              \/ /\ handed'[<<v, m>>] = handed[<<v, m>>] + d /\ UNCHANGED tasks
                 /\ Count(buf'[v], m) = Count(buf[v], m) + d
              \/ /\ tasks'[<<v, m>>] = tasks[<<v, m>>] + d /\ UNCHANGED <<buf, handed>>
                 /\ ~(u \in AlbumUsers /\ GroupOf[current] # NoGroup)
           /\ UNCHANGED dropped
           /\ InHand(v, m)' + d <= InHand(v, m)
<1>1. InHand(v, m)' + d <= InHand(v, m)
  <2>1. u \in todo /\ todo' = todo \ {u} /\ (current' = NoMessage \/ current' = current) /\ m # NoMessage
    BY ChatWatchAssumption DEF Handle
  <2>2. CASE v = u /\ m = current
    BY <2>1, <2>2 DEF InHand
  <2>3. CASE ~(v = u /\ m = current)
    BY <2>1, <2>3 DEF InHand
  <2>4. QED
    BY <2>2, <2>3
<1>2. UNCHANGED dropped
  BY DEF Handle
<1>3. handed[<<v, m>>] \in Nat /\ tasks[<<v, m>>] \in Nat /\ Count(buf[v], m) \in Nat /\ <<v, m>> \in Pairs
  BY Numbers
<1> DEFINE p == <<v, m>>
           q == <<u, current>>
<1>p. p = <<v, m>> /\ q = <<u, current>> /\ p \in Pairs /\ (p = q <=> d = 1) /\ d \in {0, 1}
  BY <1>3
<1> HIDE DEF p, q
<1>4. CASE UNCHANGED <<tasks, handed, bufferVars>>
  BY <1>1, <1>2, <1>4 DEF bufferVars
<1>5. CASE <<u, current>> \in Wants /\ AddFile(u, current) /\ UNCHANGED tasks
  <2>1. handed' = [handed EXCEPT ![<<u, current>>] = @ + 1]
    BY <1>5 DEF AddFile
  <2>2. handed'[<<v, m>>] = handed[<<v, m>>] + d
    <3>1. handed \in [Pairs -> Nat] /\ handed' = [handed EXCEPT ![q] = @ + 1]
      BY <1>p, <2>1 DEF TypeOK
    <3>2. handed'[p] = handed[p] + d /\ handed[p] \in Nat
      BY <1>p, <3>1
    <3>3. QED
      BY <1>p, <3>2
  <2>3. buf' = [buf EXCEPT ![u] = Append(@, current)] /\ current \in Messages
    BY <1>5, ChatWatchAssumption DEF AddFile
  <2>4. buf \in [Users -> Seq(Messages)] /\ buf[u] \in Seq(Messages)
    BY DEF TypeOK
  <2>5. CASE v = u
    <3>1. buf'[v] = Append(buf[v], current)
      BY <2>3, <2>4, <2>5
    <3>2. Count(buf'[v], m) = Count(buf[v], m) + (IF current = m THEN 1 ELSE 0)
      BY <2>3, <2>4, <2>5, <3>1, CountAppend
    <3>3. Count(buf'[v], m) = Count(buf[v], m) + d
      BY <2>5, <3>2
    <3>4. QED
      BY <1>1, <1>2, <1>5, <2>2, <3>3
  <2>6. CASE v # u
    <3>1. buf'[v] = buf[v] /\ d = 0
      BY <2>3, <2>4, <2>6
    <3>2. Count(buf'[v], m) = Count(buf[v], m) + d
      BY <1>3, <3>1
    <3>3. QED
      BY <1>1, <1>2, <1>5, <2>2, <3>2
  <2>7. QED
    BY <2>5, <2>6
<1>6. CASE /\ MakeTask(u, current) /\ UNCHANGED <<handed, bufferVars>>
           /\ ~(u \in AlbumUsers /\ GroupOf[current] # NoGroup)
  <2>1. tasks' = [tasks EXCEPT ![<<u, current>>] = @ + 1] /\ UNCHANGED <<handed, buf>>
    BY <1>6 DEF MakeTask, bufferVars
  <2>2. tasks'[<<v, m>>] = tasks[<<v, m>>] + d
    <3>1. tasks \in [Pairs -> Nat] /\ tasks' = [tasks EXCEPT ![q] = @ + 1]
      BY <1>p, <2>1 DEF TypeOK
    <3>2. tasks'[p] = tasks[p] + d /\ tasks[p] \in Nat
      BY <1>p, <3>1
    <3>3. QED
      BY <1>p, <3>2
  <2>3. QED
    BY <1>1, <1>2, <1>6, <2>1, <2>2
<1>7. QED
  BY <1>4, <1>5, <1>6 DEF Handle

LEMMA BufferedEffect ==
    ASSUME TypeOK, NEW u \in Users, Buffered(u), NEW v \in Users, NEW m \in Messages
    PROVE  /\ Count(buf'[v], m) + tasks'[<<v, m>>] + dropped'[<<v, m>>]
                 = Count(buf[v], m) + tasks[<<v, m>>] + dropped[<<v, m>>]
           /\ Count(buf'[v], m) + tasks'[<<v, m>>] <= Count(buf[v], m) + tasks[<<v, m>>]
           /\ handed' = handed
<1>1. /\ handed' = handed /\ buf' = [buf EXCEPT ![u] = <<>>]
      /\ ProcessWatchMediaGroup(u, buf[u]) /\ buf \in [Users -> Seq(Messages)]
  BY DEF Buffered, TypeOK
<1>2. /\ Count(buf[v], m) \in Nat /\ tasks[<<v, m>>] \in Nat /\ dropped[<<v, m>>] \in Nat
      /\ <<v, m>> \in Pairs
  BY Numbers
<1>3. CASE v = u
  <2>1. buf'[v] = <<>>
    BY <1>1, <1>3
  <2>2. Count(buf'[v], m) = 0
    BY <1>1, <2>1, CountType
  <2>3. /\ tasks'[<<v, m>>] + dropped'[<<v, m>>] = tasks[<<v, m>>] + dropped[<<v, m>>] + Count(buf[v], m)
        /\ tasks'[<<v, m>>] <= tasks[<<v, m>>] + Count(buf[v], m)
    BY <1>1, <1>3, ProcessType
  <2>4. tasks'[<<v, m>>] \in Nat /\ dropped'[<<v, m>>] \in Nat
    BY <1>1, <1>2, ProcessType
  <2>5. QED
    BY <1>1, <1>2, <2>2, <2>3, <2>4
<1>4. CASE v # u
  <2>1. buf'[v] = buf[v]
    BY <1>1, <1>4
  <2>2. tasks'[<<v, m>>] = tasks[<<v, m>>] /\ dropped'[<<v, m>>] = dropped[<<v, m>>]
    BY <1>1, <1>4, ProcessType
  <2>3. QED
    BY <1>1, <1>2, <2>1, <2>2
<1>5. QED
  BY <1>3, <1>4

-----------------------------------------------------------------------------
(* The album buffer accounts for its files *)

LEMMA AccountsStep ==
    ASSUME TypeOK, Busy, BufferAccounts, [Next]_vars
    PROVE  BufferAccounts'
<1> USE DEF bufferVars, resultVars
<1>0. ASSUME NEW v \in Users, NEW m \in Messages, v \in AlbumUsers, GroupOf[m] # NoGroup
      PROVE  handed[<<v, m>>] = Count(buf[v], m) + tasks[<<v, m>>] + dropped[<<v, m>>]
  BY <1>0 DEF BufferAccounts
<1>1. ASSUME NEW u \in Users, Handle(u), NEW v \in Users, NEW m \in Messages,
             v \in AlbumUsers, GroupOf[m] # NoGroup
      PROVE  handed'[<<v, m>>] = Count(buf'[v], m) + tasks'[<<v, m>>] + dropped'[<<v, m>>]
  <2> DEFINE d == IF v = u /\ m = current THEN 1 ELSE 0
  <2>1. /\ \/ UNCHANGED <<buf, tasks, handed>>
           \/ /\ handed'[<<v, m>>] = handed[<<v, m>>] + d /\ UNCHANGED tasks
              /\ Count(buf'[v], m) = Count(buf[v], m) + d
           \/ /\ tasks'[<<v, m>>] = tasks[<<v, m>>] + d /\ UNCHANGED <<buf, handed>>
              /\ ~(u \in AlbumUsers /\ GroupOf[current] # NoGroup)
        /\ UNCHANGED dropped
    <3>1. d = IF v = u /\ m = current THEN 1 ELSE 0
      OBVIOUS
    <3> HIDE DEF d
    <3>2. QED
      BY <1>1, <3>1, HandleEffect
  <2>2. ~(u \in AlbumUsers /\ GroupOf[current] # NoGroup) => d = 0
    BY <1>1
  <2>3. /\ Count(buf[v], m) \in Nat /\ tasks[<<v, m>>] \in Nat /\ dropped[<<v, m>>] \in Nat
        /\ handed[<<v, m>>] = Count(buf[v], m) + tasks[<<v, m>>] + dropped[<<v, m>>] /\ d \in Nat
    BY <1>0, <1>1, Numbers
  <2> HIDE DEF d
  <2>4. QED
    BY <2>1, <2>2, <2>3
<1>2. ASSUME NEW u \in Users, Buffered(u), NEW v \in Users, NEW m \in Messages,
             v \in AlbumUsers, GroupOf[m] # NoGroup
      PROVE  handed'[<<v, m>>] = Count(buf'[v], m) + tasks'[<<v, m>>] + dropped'[<<v, m>>]
  BY <1>0, <1>2, BufferedEffect
<1>3. ASSUME UNCHANGED <<buf, tasks, dropped, handed>> PROVE BufferAccounts'
  BY <1>3 DEF BufferAccounts, Count, CountIn
<1>4. ASSUME NEW u \in Users, StartWatching(u) \/ Unwatch(u) \/ BufFire(u)
      PROVE  UNCHANGED <<buf, tasks, dropped, handed>>
  BY <1>4 DEF StartWatching, Unwatch, BufFire
<1>5. ASSUME NEW m \in Messages, SendMediaMessageEvent(m) \/ Fire(m) \/ Debounced(m)
      PROVE  UNCHANGED <<buf, tasks, dropped, handed>>
  BY <1>5 DEF SendMediaMessageEvent, Fire, Debounced
<1>6. ASSUME NEW x \in Messages \cup {NoMessage}, Send(x) PROVE UNCHANGED <<buf, tasks, dropped, handed>>
  BY <1>6 DEF Send
<1>7. ASSUME ReceiveZero \/ Receive \/ HandleNone PROVE UNCHANGED <<buf, tasks, dropped, handed>>
  BY <1>7 DEF ReceiveZero, Receive, HandleNone
<1>8. ASSUME UNCHANGED vars PROVE UNCHANGED <<buf, tasks, dropped, handed>>
  BY <1>8 DEF vars
<1>9. ASSUME NEW u \in Users, Handle(u) \/ Buffered(u) PROVE BufferAccounts'
  BY <1>1, <1>2, <1>9 DEF BufferAccounts, Count, CountIn
<1>10. QED
  BY <1>3, <1>4, <1>5, <1>6, <1>7, <1>8, <1>9 DEF Next, Listen

-----------------------------------------------------------------------------
(* What enters the events map flows on, and nothing is doubled *)

LEMMA DeliverFlow ==
    ASSUME TypeOK, NEW n \in Messages, SendMediaMessageEvent(n) \/ Fire(n) \/ Debounced(n),
           NEW u \in Users, NEW m \in Messages, Flow(u, m)
    PROVE  Flow(u, m)'
<1>1. /\ m # NoMessage /\ m \in Messages \cup {NoMessage} /\ InEvents(m) \in Nat /\ InHand(u, m) \in Nat
      /\ sending[m] \in Nat /\ Count(queue, m) \in Nat /\ Count(buf[u], m) \in Nat
      /\ tasks[<<u, m>>] \in Nat /\ waits[m] \in Nat
  BY Numbers
<1>2. /\ Count(queue, m)' = Count(queue, m) /\ Count(buf[u], m)' = Count(buf[u], m)
      /\ InHand(u, m)' = InHand(u, m) /\ tasks' = tasks
  BY DEF SendMediaMessageEvent, Fire, Debounced, listenVars, bufferVars, resultVars, Count, CountIn, InHand
<1>3. CASE SendMediaMessageEvent(n)
  <2>1. sending' = sending
    BY <1>3 DEF SendMediaMessageEvent
  <2>2. \/ event' = event /\ waits' = waits
        \/ event' = event \cup {n} /\ waits' = [waits EXCEPT ![n] = @ + 1]
    BY <1>3 DEF SendMediaMessageEvent
  <2>3. InEvents(m)' + waits[m] <= InEvents(m) + waits'[m] /\ InEvents(m)' \in Nat /\ waits'[m] \in Nat
    <3>1. CASE event' = event /\ waits' = waits
      <4>1. InEvents(m)' = InEvents(m)
        BY <3>1 DEF InEvents
      <4>2. QED
        BY <1>1, <3>1, <4>1
    <3>2. CASE event' = event \cup {n} /\ waits' = [waits EXCEPT ![n] = @ + 1]
      <4>1. waits \in [Messages -> Nat]
        BY DEF TypeOK
      <4>2. waits'[m] = IF m = n THEN waits[m] + 1 ELSE waits[m]
        BY <3>2, <4>1
      <4>3. InEvents(m)' \in {0, 1} /\ (m # n => InEvents(m)' = InEvents(m))
        BY <3>2 DEF InEvents
      <4>4. QED
        BY <1>1, <4>2, <4>3
    <3>3. QED
      BY <2>2, <3>1, <3>2
  <2>4. QED
    BY <1>1, <1>2, <2>1, <2>3 DEF Flow
<1>4. CASE Fire(n)
  BY <1>2, <1>4 DEF Fire, Flow, InEvents
<1>5. CASE Debounced(n)
  <2>1. waits' = waits /\ event' = event \ {n}
    BY <1>5 DEF Debounced
  <2>2. sending' = [sending EXCEPT ![IF n \in event THEN n ELSE NoMessage] = @ + 1]
    BY <1>5 DEF Debounced
  <2>t. sending \in [Messages \cup {NoMessage} -> Nat]
    BY DEF TypeOK
  <2>3. sending'[m] = sending[m] + (IF m = n /\ n \in event THEN 1 ELSE 0)
    <3>1. CASE n \in event
      BY <1>1, <2>2, <2>t, <3>1
    <3>2. CASE n \notin event
      BY <1>1, <2>2, <2>t, <3>2
    <3>3. QED
      BY <3>1, <3>2
  <2>4. InEvents(m)' + (IF m = n /\ n \in event THEN 1 ELSE 0) = InEvents(m) /\ InEvents(m)' \in Nat
    BY <2>1 DEF InEvents
  <2>5. InEvents(m)' + sending'[m] = InEvents(m) + sending[m] /\ sending'[m] \in Nat
    BY <1>1, <2>3, <2>4
  <2>6. QED
    BY <1>1, <1>2, <2>1, <2>4, <2>5 DEF Flow
<1>6. QED
  BY <1>3, <1>4, <1>5

LEMMA SendFlow ==
    ASSUME TypeOK, NEW x \in Messages \cup {NoMessage}, Send(x), NEW u \in Users, NEW m \in Messages, Flow(u, m)
    PROVE  Flow(u, m)'
<1>1. /\ m \in Messages \cup {NoMessage} /\ InEvents(m) \in Nat /\ InHand(u, m) \in Nat
      /\ sending[m] \in Nat /\ Count(queue, m) \in Nat /\ Count(buf[u], m) \in Nat
      /\ tasks[<<u, m>>] \in Nat /\ waits[m] \in Nat
  BY Numbers
<1>2. /\ InEvents(m)' = InEvents(m) /\ Count(buf[u], m)' = Count(buf[u], m)
      /\ InHand(u, m)' = InHand(u, m) /\ tasks' = tasks /\ waits' = waits
  BY DEF Send, listenVars, bufferVars, resultVars, Count, CountIn, InHand, InEvents
<1>3. sending' = [sending EXCEPT ![x] = @ - 1] /\ sending[x] > 0
  BY DEF Send
<1>4. sending'[m] + (IF x = m THEN 1 ELSE 0) = sending[m] /\ sending'[m] \in Nat
  <2>1. sending \in [Messages \cup {NoMessage} -> Nat]
    BY DEF TypeOK
  <2>2. sending'[m] = IF x = m THEN sending[m] - 1 ELSE sending[m]
    BY <1>1, <1>3, <2>1
  <2>3. QED
    BY <1>1, <1>3, <2>2
<1>5. queue \in Seq(Messages \cup {NoMessage}) /\ queue' = Append(queue, x)
  BY DEF Send, TypeOK
<1>6. Count(queue, m)' = Count(queue', m)
  BY DEF Count, CountIn
<1>7. Count(queue, m)' = Count(queue, m) + (IF x = m THEN 1 ELSE 0)
  BY <1>5, <1>6, CountAppend
<1>8. sending'[m] + Count(queue, m)' = sending[m] + Count(queue, m) /\ Count(queue, m)' \in Nat
  BY <1>1, <1>4, <1>7
<1>9. QED
  BY <1>1, <1>2, <1>4, <1>8 DEF Flow

LEMMA ReceiveFlow ==
    ASSUME TypeOK, Busy, ReceiveZero \/ Receive \/ HandleNone, NEW u \in Users, NEW m \in Messages, Flow(u, m)
    PROVE  Flow(u, m)'
<1>1. /\ m # NoMessage /\ InEvents(m) \in Nat /\ InHand(u, m) \in Nat
      /\ sending[m] \in Nat /\ Count(queue, m) \in Nat /\ Count(buf[u], m) \in Nat
      /\ tasks[<<u, m>>] \in Nat /\ waits[m] \in Nat
  BY Numbers
<1>2. /\ InEvents(m)' = InEvents(m) /\ Count(buf[u], m)' = Count(buf[u], m)
      /\ sending' = sending /\ tasks' = tasks /\ waits' = waits
  BY DEF ReceiveZero, Receive, HandleNone, debounceVars, bufferVars, resultVars, Count, CountIn, InEvents
<1>3. CASE HandleNone
  <2>1. InHand(u, m)' = 0 /\ Count(queue, m)' = Count(queue, m)
    BY <1>3 DEF HandleNone, InHand, Count, CountIn
  <2>2. QED
    BY <1>1, <1>2, <2>1 DEF Flow
<1>4. CASE ReceiveZero \/ Receive
  <2>1. queue \in Seq(Messages \cup {NoMessage}) /\ queue # <<>> /\ queue' = Tail(queue) /\ current = NoMessage
    BY <1>4 DEF ReceiveZero, Receive, TypeOK
  <2>2. Count(queue, m)' = Count(queue', m)
    BY DEF Count, CountIn
  <2>3. Count(queue, m)' + (IF Head(queue) = m THEN 1 ELSE 0) = Count(queue, m)
    BY <2>1, <2>2, CountTail
  <2>4. Count(queue, m)' \in Nat
    <3>1. Tail(queue) \in Seq(Messages \cup {NoMessage})
      BY <2>1
    <3>2. QED
      BY <2>1, <2>2, <3>1, CountType
  <2>5. InHand(u, m)' <= (IF Head(queue) = m THEN 1 ELSE 0) /\ InHand(u, m)' \in Nat
    BY <1>1, <1>4, <2>1 DEF ReceiveZero, Receive, InHand, listenVars
  <2>6. InHand(u, m)' + Count(queue, m)' <= InHand(u, m) + Count(queue, m)
    BY <1>1, <2>3, <2>4, <2>5
  <2>7. QED
    BY <1>1, <1>2, <2>4, <2>5, <2>6 DEF Flow
<1>5. QED
  BY <1>3, <1>4

LEMMA HandleFlow ==
    ASSUME TypeOK, Busy, NEW v \in Users, Handle(v), NEW u \in Users, NEW m \in Messages, Flow(u, m)
    PROVE  Flow(u, m)'
<1> DEFINE d == IF u = v /\ m = current THEN 1 ELSE 0
<1>1. /\ InEvents(m) \in Nat /\ InHand(u, m) \in Nat
      /\ sending[m] \in Nat /\ Count(queue, m) \in Nat /\ Count(buf[u], m) \in Nat
      /\ tasks[<<u, m>>] \in Nat /\ waits[m] \in Nat
  BY Numbers
<1>2. /\ InEvents(m)' = InEvents(m) /\ Count(queue, m)' = Count(queue, m)
      /\ sending' = sending /\ waits' = waits
  BY DEF Handle, debounceVars, Count, CountIn, InEvents
<1>3. d = IF u = v /\ m = current THEN 1 ELSE 0
  OBVIOUS
<1>d. d \in {0, 1}
  OBVIOUS
<1> HIDE DEF d
<1>4. /\ \/ UNCHANGED <<buf, tasks, handed>>
         \/ handed'[<<u, m>>] = handed[<<u, m>>] + d /\ UNCHANGED tasks /\ Count(buf'[u], m) = Count(buf[u], m) + d
         \/ tasks'[<<u, m>>] = tasks[<<u, m>>] + d /\ UNCHANGED <<buf, handed>>
      /\ InHand(u, m)' + d <= InHand(u, m)
  BY <1>3, HandleEffect
<1>5. Count(buf[u], m)' = Count(buf'[u], m) /\ InHand(u, m)' \in Nat
  BY DEF Count, CountIn, InHand
<1>6. /\ Count(buf[u], m)' + tasks'[<<u, m>>] <= Count(buf[u], m) + tasks[<<u, m>>] + d
      /\ Count(buf[u], m)' \in Nat /\ tasks'[<<u, m>>] \in Nat
  BY <1>1, <1>4, <1>5, <1>d
<1>7. QED
  BY <1>1, <1>2, <1>4, <1>5, <1>6, <1>d DEF Flow

LEMMA BufferedFlow ==
    ASSUME TypeOK, NEW v \in Users, Buffered(v), NEW u \in Users, NEW m \in Messages, Flow(u, m)
    PROVE  Flow(u, m)'
<1>1. /\ InEvents(m) \in Nat /\ InHand(u, m) \in Nat
      /\ sending[m] \in Nat /\ Count(queue, m) \in Nat /\ Count(buf[u], m) \in Nat
      /\ tasks[<<u, m>>] \in Nat /\ waits[m] \in Nat /\ <<u, m>> \in Pairs
  BY Numbers
<1>2. /\ InEvents(m)' = InEvents(m) /\ Count(queue, m)' = Count(queue, m)
      /\ InHand(u, m)' = InHand(u, m) /\ sending' = sending /\ waits' = waits
  BY DEF Buffered, debounceVars, listenVars, Count, CountIn, InEvents, InHand
<1>3. Count(buf[u], m)' = Count(buf'[u], m)
  BY DEF Count, CountIn
<1>4. Count(buf'[u], m) + tasks'[<<u, m>>] <= Count(buf[u], m) + tasks[<<u, m>>]
  BY BufferedEffect
<1>5. Count(buf'[u], m) \in Nat /\ tasks'[<<u, m>>] \in Nat
  <2>1. TypeOK'
    BY BufferType
  <2>2. buf'[u] \in Seq(Messages) /\ tasks'[<<u, m>>] \in Nat
    BY <1>1, <2>1 DEF TypeOK
  <2>3. QED
    BY <2>2, CountType
<1>6. QED
  BY <1>1, <1>2, <1>3, <1>4, <1>5 DEF Flow

LEMMA FlowStep ==
    ASSUME TypeOK, Busy, [Next]_vars, NEW u \in Users, NEW m \in Messages, Flow(u, m)
    PROVE  Flow(u, m)'
<1> USE DEF debounceVars, listenVars, bufferVars, resultVars
<1>1. ASSUME UNCHANGED <<event, sending, queue, current, todo, buf, tasks, waits>> PROVE Flow(u, m)'
  BY <1>1 DEF Flow, InEvents, InHand, Count, CountIn
<1>2. ASSUME NEW v \in Users, StartWatching(v) \/ Unwatch(v) \/ BufFire(v)
      PROVE  UNCHANGED <<event, sending, queue, current, todo, buf, tasks, waits>>
  BY <1>2 DEF StartWatching, Unwatch, BufFire
<1>3. CASE UNCHANGED vars
  BY <1>1, <1>3 DEF vars
<1>4. QED
  BY <1>1, <1>2, <1>3, DeliverFlow, SendFlow, ReceiveFlow, HandleFlow, BufferedFlow DEF Next, Listen

-----------------------------------------------------------------------------
(* The inductive invariant and what follows from it *)

LEMMA InitIInv == Init => IInv
<1> SUFFICES ASSUME Init PROVE IInv
  OBVIOUS
<1>1. TypeOK
  <2>1. QueueSize \in Nat
    BY ChatWatchAssumption
  <2>2. delivered \in [Messages -> Nat] /\ waits \in [Messages -> Nat]
    BY DEF Init
  <2>3. /\ timer \in [Messages -> States] /\ bufTimer \in [Users -> States]
        /\ orphan \in [Messages -> Nat] /\ bufOrphan \in [Users -> Nat]
        /\ firing \in [Messages -> Nat] /\ bufFiring \in [Users -> Nat]
    BY DEF Init, States
  <2>4. sending \in [Messages \cup {NoMessage} -> Nat] /\ buf \in [Users -> Seq(Messages)]
    BY DEF Init
  <2>5. queue \in Seq(Messages \cup {NoMessage}) /\ Len(queue) <= QueueSize
    BY <2>1 DEF Init
  <2>6. tasks \in [Pairs -> Nat] /\ dropped \in [Pairs -> Nat] /\ handed \in [Pairs -> Nat]
    BY DEF Init
  <2>7. QED
    BY <2>2, <2>3, <2>4, <2>5, <2>6 DEF Init, TypeOK
<1>2. Busy /\ Held
  BY DEF Init, Busy, Held
<1>3. ASSUME NEW u \in Users, NEW m \in Messages
      PROVE  /\ Count(buf[u], m) = 0 /\ Count(queue, m) = 0 /\ <<u, m>> \in Pairs
             /\ tasks[<<u, m>>] = 0 /\ dropped[<<u, m>>] = 0 /\ handed[<<u, m>>] = 0
  <2>1. buf[u] = <<>> /\ queue = <<>> /\ <<>> \in Seq(Messages)
    BY DEF Init
  <2>2. Count(<<>>, m) = 0
    BY <2>1, CountType
  <2>3. <<u, m>> \in Pairs
    BY DEF Pairs
  <2>4. QED
    BY <2>1, <2>2, <2>3 DEF Init
<1>4. BufferAccounts
  BY <1>3 DEF BufferAccounts
<1>5. ASSUME NEW u \in Users, NEW m \in Messages PROVE Flow(u, m)
  <2>1. InEvents(m) = 0 /\ InHand(u, m) = 0 /\ sending[m] = 0 /\ waits[m] = 0
    BY DEF Init, InEvents, InHand
  <2>2. QED
    BY <1>3, <2>1 DEF Flow
<1>6. QED
  BY <1>1, <1>2, <1>4, <1>5 DEF IInv

LEMMA Invariance == Spec => []IInv
<1>1. Init => IInv
  BY InitIInv
<1>2. IInv /\ [Next]_vars => IInv'
  <2> SUFFICES ASSUME IInv, [Next]_vars PROVE IInv'
    OBVIOUS
  <2>1. TypeOK' /\ Busy' /\ Held' /\ BufferAccounts'
    BY TypeStep, BusyStep, HeldStep, AccountsStep DEF IInv
  <2>2. \A u \in Users, m \in Messages : Flow(u, m)'
    BY FlowStep DEF IInv
  <2>3. QED
    BY <2>1, <2>2 DEF IInv
<1>3. QED
  BY <1>1, <1>2, PTL DEF Spec

\* Every variable keeps its type; the queue of events never outgrows the channel.
THEOREM TypeCorrect == Spec => []TypeOK
<1>1. IInv => TypeOK
  BY DEF IInv
<1>2. QED
  BY <1>1, Invariance, PTL

\* However often a held back message is delivered again, and in whatever order the
\* timers fire and the callbacks get the lock, a user has at most one task of it for
\* each time it entered the events map.
THEOREM OneTask == Spec => []OneTaskPerWait
<1>1. IInv => OneTaskPerWait
  <2> SUFFICES ASSUME IInv, NEW p \in Pairs PROVE tasks[p] <= waits[p[2]]
    BY DEF OneTaskPerWait
  <2>1. PICK u \in Users, m \in Messages : p = <<u, m>>
    BY DEF Pairs
  <2>2. /\ InEvents(m) \in Nat /\ InHand(u, m) \in Nat /\ sending[m] \in Nat /\ Count(queue, m) \in Nat
        /\ Count(buf[u], m) \in Nat /\ tasks[<<u, m>>] \in Nat /\ waits[m] \in Nat
    BY Numbers DEF IInv
  <2>3. Flow(u, m)
    BY DEF IInv
  <2>4. tasks[<<u, m>>] <= waits[m]
    BY <2>2, <2>3 DEF Flow
  <2>5. QED
    BY <2>1, <2>4
<1>2. QED
  BY <1>1, Invariance, PTL

\* The album buffer neither loses nor doubles a file, whichever of its timers takes it.
THEOREM BufferKeepsFiles == Spec => []BufferAccounts
<1>1. IInv => BufferAccounts
  BY DEF IInv
<1>2. QED
  BY <1>1, Invariance, PTL

-----------------------------------------------------------------------------
(* Dialogs: the invariant *)

Keyboards == {"storages", "dirs", "conflict"}
Places == Dirs \cup {Root}

\* The data has its fields, whatever their values.
Names == {"task", "files", "batch", "stor", "dir", "path", "setted", "strat"}
Fields(d) == DOMAIN d = Names /\ d = [x \in Names |-> d[x]]

\* These are files: one, where they are not taken as several.
FilesOf1(task, files, batch) ==
    /\ files \subseteq Files /\ IsFiniteSet(files)
    /\ task = "tgfiles" /\ ~batch => \E f \in Files : files = {f}

\* What was pressed so far is a directory of the storage pressed before it.
Sensible(chosen) ==
    chosen.path # Root => chosen.path \in Dirs /\ (chosen.stor # None => StorageOf[chosen.path] = chosen.stor)

\* The data says what was pressed, but for a single file that a rule has placed.
Kept(task, files, batch, s, p, chosen) ==
    chosen.stor # None =>
        \/ s = chosen.stor /\ p = chosen.path
        \/ task = "tgfiles" /\ ~batch /\ \A f \in files : RuleFor[f] # None

OnStorages(k) ==
    /\ ~k.data.setted /\ k.data.dir = None /\ k.data.path = Root /\ k.data.strat = None
    /\ k.offers = Storages

OnDirs(k) ==
    /\ k.data.setted /\ k.data.dir = None /\ k.data.path = Root /\ k.data.strat = None
    /\ k.chosen = Choice(k.data.stor, Root, None)
    /\ k.offers \subseteq {d \in Dirs : StorageOf[d] = k.data.stor} \cup {Root}

OnConflict(k) ==
    /\ k.data.task = "tgfiles" /\ k.data.setted /\ k.data.dir = None /\ k.data.strat = None
    /\ k.data.batch => k.data.path \in Places
    /\ k.chosen = Choice(k.chosen.stor, k.chosen.path, None) /\ Sensible(k.chosen)
    /\ Kept("tgfiles", k.data.files, k.data.batch, k.data.stor, k.data.path, k.chosen)
    /\ k.offers = Strategies \ {"ask"}

CardSound(k) ==
    /\ k.shows \in Keyboards => Fields(k.data) /\ FilesOf1(k.data.task, k.data.files, k.data.batch)
    /\ k.shows = "storages" => OnStorages(k)
    /\ k.shows = "dirs" => OnDirs(k)
    /\ k.shows = "conflict" => OnConflict(k)
    /\ k.shows \in {"types", "max"} => k = Card(k.shows, Add("bulkdl", {}), NoChoice, {})
    /\ k.shows \in Keyboards \cup {"text", "types", "max"}

UserTyped == strategy \in Strategies /\ dirs \subseteq Dirs

Outcome == SavedWhereChosen /\ ConsentToReplace /\ ReplyAccounts

DialogInv == UserTyped /\ CardSound(card) /\ CardSound(before) /\ Outcome

-----------------------------------------------------------------------------
(* Cards *)

LEMMA Distinct ==
    /\ Root \notin Dirs /\ NewForAlbum \notin Dirs /\ None \notin Dirs
    /\ Root # NewForAlbum /\ None # Root /\ None # NewForAlbum
    /\ None \notin Storages /\ None \notin Files /\ None \notin Strategies
BY DialogAssumption

LEMMA TextSound == CardSound(Text) /\ Text.shows = "text"
BY DEF CardSound, Text, Card, Keyboards

LEMMA ConflictSound ==
    ASSUME NEW s, NEW p, NEW files, NEW batch \in BOOLEAN, NEW chosen,
           FilesOf1("tgfiles", files, batch), batch => p \in Places,
           chosen = Choice(chosen.stor, chosen.path, None), Sensible(chosen),
           Kept("tgfiles", files, batch, s, p, chosen)
    PROVE  CardSound(Card("conflict",
                          [Add("tgfiles", files) EXCEPT !.stor = s, !.path = p, !.setted = TRUE, !.batch = batch],
                          chosen, Strategies \ {"ask"}))
<1> DEFINE d == [Add("tgfiles", files) EXCEPT !.stor = s, !.path = p, !.setted = TRUE, !.batch = batch]
           k == Card("conflict", d, chosen, Strategies \ {"ask"})
<1>0. d = [Add("tgfiles", files) EXCEPT !.stor = s, !.path = p, !.setted = TRUE, !.batch = batch]
  OBVIOUS
<1> HIDE DEF d
<1>1. /\ Fields(d)
      /\ d.task = "tgfiles" /\ d.files = files /\ d.batch = batch /\ d.stor = s /\ d.dir = None
      /\ d.path = p /\ d.setted = TRUE /\ d.strat = None
  <2> DEFINE a == Add("tgfiles", files)
             b == [a EXCEPT !.stor = s]
             c == [b EXCEPT !.path = p]
             e == [c EXCEPT !.setted = TRUE]
  <2>1. Fields(a) /\ a.task = "tgfiles" /\ a.files = files /\ a.dir = None /\ a.strat = None
    BY DEF Fields, Add, Names
  <2> HIDE DEF a
  <2>2. Fields(b) /\ b.task = "tgfiles" /\ b.files = files /\ b.dir = None /\ b.strat = None /\ b.stor = s
    BY <2>1 DEF Fields, Names
  <2> HIDE DEF b
  <2>3. /\ Fields(c) /\ c.task = "tgfiles" /\ c.files = files /\ c.dir = None /\ c.strat = None /\ c.stor = s
        /\ c.path = p
    BY <2>2 DEF Fields, Names
  <2> HIDE DEF c
  <2>4. /\ Fields(e) /\ e.task = "tgfiles" /\ e.files = files /\ e.dir = None /\ e.strat = None /\ e.stor = s
        /\ e.path = p /\ e.setted = TRUE
    BY <2>3 DEF Fields, Names
  <2>5. d = [e EXCEPT !.batch = batch]
    BY <1>0 DEF a, b, c, e
  <2> HIDE DEF e
  <2>6. QED
    BY <2>4, <2>5 DEF Fields, Names
<1>3. k.shows = "conflict" /\ k.data = d /\ k.chosen = chosen /\ k.offers = Strategies \ {"ask"}
  BY DEF Card
<1> HIDE DEF k
<1>4. OnConflict(k)
  BY <1>1, <1>3 DEF OnConflict
<1>5. CardSound(k)
  BY <1>1, <1>3, <1>4 DEF CardSound, Keyboards
<1>6. QED
  BY <1>5 DEF d, k

LEMMA DirsSound ==
    ASSUME NEW add, Fields(add), FilesOf1(add.task, add.files, add.batch),
           add.dir = None, add.path = Root, add.strat = None,
           NEW offers \in SUBSET ({e \in Dirs : StorageOf[e] = add.stor} \cup {Root})
    PROVE  CardSound(Card("dirs", [add EXCEPT !.setted = TRUE], Choice(add.stor, Root, None), offers))
<1> DEFINE d == [add EXCEPT !.setted = TRUE]
           k == Card("dirs", d, Choice(add.stor, Root, None), offers)
<1>2. /\ d.task = add.task /\ d.files = add.files /\ d.batch = add.batch /\ d.stor = add.stor /\ d.dir = None
      /\ d.path = Root /\ d.setted = TRUE /\ d.strat = None
  BY DEF Fields, Names
<1>3. Fields(d)
  BY DEF Fields, Names
<1>4. k.shows = "dirs" /\ k.data = d /\ k.chosen = Choice(add.stor, Root, None) /\ k.offers = offers
  BY DEF Card
<1> HIDE DEF d, k
<1>5. OnDirs(k)
  BY <1>2, <1>4 DEF OnDirs
<1>6. CardSound(k)
  BY <1>2, <1>3, <1>4, <1>5 DEF CardSound, Keyboards
<1>7. QED
  BY <1>6 DEF d, k

\* The first keyboard of a dialog counts the files.
LEMMA StoragesSound ==
    ASSUME NEW task, NEW files, files \subseteq Files, IsFiniteSet(files), task = "tgfiles" => files # {}
    PROVE  CardSound(Card("storages", [Add(task, files) EXCEPT !.batch = Cardinality(Add(task, files).files) > 1],
                          NoChoice, Storages))
<1> DEFINE b == Cardinality(files) > 1
           a == Add(task, files)
           d == [a EXCEPT !.batch = b]
           k == Card("storages", d, NoChoice, Storages)
<1>0. /\ Fields(a) /\ a.task = task /\ a.files = files /\ a.dir = None /\ a.strat = None /\ a.path = Root
      /\ a.stor = None /\ a.setted = FALSE
  BY DEF Fields, Add, Names
<1> HIDE DEF a, b
<1>1. /\ d.task = task /\ d.files = files /\ d.batch = b /\ d.stor = None /\ d.dir = None
      /\ d.path = Root /\ d.setted = FALSE /\ d.strat = None
  BY <1>0 DEF Fields, Names
<1>2. Fields(d)
  BY <1>0 DEF Fields, Names
<1>3. k.shows = "storages" /\ k.data = d /\ k.chosen = NoChoice /\ k.offers = Storages
  BY DEF Card
<1>4. task = "tgfiles" /\ ~b => \E f \in Files : files = {f}
  <2> SUFFICES ASSUME task = "tgfiles", ~b PROVE \E f \in Files : files = {f}
    OBVIOUS
  <2>1. Cardinality(files) \in Nat /\ Cardinality(files) # 0
    BY FS_CardinalityType, FS_EmptySet
  <2>2. Cardinality(files) = 1
    BY <2>1 DEF b
  <2>3. QED
    BY <2>2, FS_Singleton
<1> HIDE DEF d, k
<1>5. OnStorages(k)
  BY <1>1, <1>3 DEF OnStorages
<1>6. CardSound(k)
  BY <1>1, <1>2, <1>3, <1>4, <1>5 DEF CardSound, Keyboards, FilesOf1
<1>7. QED
  BY <1>0, <1>6 DEF a, b, d, k

-----------------------------------------------------------------------------
(* What a step tells and makes *)

LEMMA NothingMade == ASSUME made' = NoTask PROVE SavedWhereChosen' /\ ConsentToReplace'
BY DEF NoTask, NoChoice, Choice, SavedWhereChosen, ConsentToReplace, Said

LEMMA NothingTold ==
    ASSUME reply' = NoReply \/ reply'.error
    PROVE  ReplyAccounts'
BY DEF ReplyAccounts, NoReply

LEMMA AllAsked ==
    ASSUME NEW files, reply' = [NoReply EXCEPT !.files = files, !.asked = files]
    PROVE  ReplyAccounts'
<1>1. reply'.files = files /\ reply'.asked = files
  BY DEF NoReply
<1>2. QED
  BY <1>1 DEF ReplyAccounts

\* A new card takes the place of the old.
LEMMA ShownSound ==
    ASSUME CardSound(card), NEW new, CardSound(new), card' = new, before' = card
    PROVE  CardSound(card') /\ CardSound(before')
OBVIOUS

LEMMA FailsSound ==
    ASSUME CardSound(card), NEW files, Fails(files)
    PROVE  CardSound(card') /\ CardSound(before') /\ Outcome'
<1>1. card' = Text /\ before' = card /\ made' = NoTask
  BY DEF Fails, Shows
<1>2. reply'.error
  BY DEF Fails, NoReply
<1>3. QED
  BY <1>1, <1>2, TextSound, NothingMade, NothingTold DEF Outcome

LEMMA AskStorageSound ==
    ASSUME NEW task, NEW files, files \subseteq Files, IsFiniteSet(files), task = "tgfiles" => files # {},
           AskStorage(Add(task, files))
    PROVE  CardSound(card') /\ CardSound(before') /\ Outcome'
<1>1. CardSound(card')
  BY StoragesSound DEF AskStorage
<1>2. CardSound(before') /\ made' = NoTask
  BY TextSound DEF AskStorage
<1>3. \E fs : reply' = [NoReply EXCEPT !.files = fs, !.asked = fs]
  BY DEF AskStorage
<1>4. QED
  BY <1>1, <1>2, <1>3, NothingMade, AllAsked DEF Outcome

LEMMA PromptSound ==
    ASSUME CardSound(card), NEW s, NEW p, NEW files, NEW batch \in BOOLEAN, NEW chosen,
           FilesOf1("tgfiles", files, batch), batch => p \in Places,
           chosen = Choice(chosen.stor, chosen.path, None), Sensible(chosen),
           Kept("tgfiles", files, batch, s, p, chosen),
           PromptConflict(s, p, files, batch, chosen)
    PROVE  CardSound(card') /\ CardSound(before') /\ Outcome'
<1>1. CardSound(card')
  BY ConflictSound DEF PromptConflict, Shows
<1>2. before' = card /\ made' = NoTask
  BY DEF PromptConflict, Shows
<1>3. reply' = [NoReply EXCEPT !.files = files, !.asked = files]
  BY DEF PromptConflict
<1>4. QED
  BY <1>1, <1>2, <1>3, NothingMade, AllAsked DEF Outcome

\* Files that are left out are told, those of a batch but the lone ones.
LEMMA SkipsSound ==
    ASSUME CardSound(card), NEW files, NEW batch, NEW skipped, Skips(files, batch, skipped),
           \A f \in files : f \in skipped \/ (batch /\ Lone(f, files))
    PROVE  CardSound(card') /\ CardSound(before') /\ Outcome'
<1>1. card' = Text /\ before' = card /\ made' = NoTask
  BY DEF Skips, Shows
<1>2. reply'.files = files /\ reply'.skipped = skipped /\ reply'.batch = batch
  <2>1. reply' = [NoReply EXCEPT !.files = files, !.skipped = skipped, !.batch = batch]
    BY DEF Skips
  <2>2. QED
    BY <2>1, ZenonT(60) DEF NoReply
<1>3. ReplyAccounts'
  BY <1>2 DEF ReplyAccounts, Lone
<1>4. QED
  BY <1>1, <1>3, TextSound, NothingMade DEF Outcome

\* A task is made as the user said.
LEMMA AddedSound ==
    ASSUME CardSound(card), NEW task, NEW files, NEW batch \in BOOLEAN, NEW elems, NEW existed,
           NEW over \in BOOLEAN, NEW skipped,
           NEW chosen, Added(task, files, batch, elems, existed, over, skipped, chosen),
           NEW said, said = IF chosen.strat # None THEN chosen.strat ELSE strategy,
           over => said = "overwrite", task = "tgfiles" /\ existed # {} => said \in {"rename", "overwrite"},
           Sensible(chosen),
           chosen.stor # None /\ task # "telegraph" =>
              \A e \in elems : (e.file # None => RuleFor[e.file] = None)
                               => e.stor = chosen.stor /\ e.path = chosen.path,
           \A f \in files : f \in FilesOf(elems) \ {None} \/ f \in skipped \/ (batch /\ Lone(f, files))
    PROVE  CardSound(card') /\ CardSound(before') /\ Outcome'
<1>1. card' = Text /\ before' = card
  BY DEF Added
<1>2. /\ made'.elems = elems /\ made'.existed = existed /\ made'.over = over /\ made'.user = strategy
      /\ made'.chosen = chosen /\ made'.task = task
  BY DEF Added
<1>3. SavedWhereChosen'
  BY <1>2 DEF SavedWhereChosen, Sensible
<1>4. ConsentToReplace'
  BY <1>2 DEF ConsentToReplace, Said
<1>5. ReplyAccounts'
  <2> DEFINE added == {e.file : e \in elems} \ {None}
  <2>1. reply' = [NoReply EXCEPT !.files = files, !.added = added, !.skipped = skipped, !.batch = batch]
    BY DEF Added
  <2>2. \A f \in files : f \in added \/ f \in skipped \/ (batch /\ Lone(f, files))
    BY DEF FilesOf
  <2> HIDE DEF added
  <2>3. reply'.files = files /\ reply'.added = added /\ reply'.skipped = skipped /\ reply'.batch = batch
    BY <2>1, ZenonT(60) DEF NoReply
  <2>4. SUFFICES ASSUME NEW f \in reply'.files
                 PROVE  f \in reply'.added \cup reply'.skipped \/ (reply'.batch /\ Lone(f, reply'.files))
    BY DEF ReplyAccounts, Lone
  <2>5. QED
    BY <2>2, <2>3
<1>6. QED
  BY <1>1, <1>3, <1>4, <1>5, TextSound DEF Outcome

-----------------------------------------------------------------------------
(* Tasks of the dialogs *)

\* The way pressed on the card, if any, is the one the task is made with.
Decided(override, chosen) ==
    /\ override = chosen.strat /\ override \in {None} \cup (Strategies \ {"ask"})
    /\ chosen = Choice(chosen.stor, chosen.path, chosen.strat)

LEMMA ResolveSays ==
    ASSUME UserTyped, NEW override, NEW chosen, Decided(override, chosen)
    PROVE  /\ Resolve(override) = IF chosen.strat # None THEN chosen.strat ELSE strategy
           /\ Resolve(override) \in Strategies
           /\ Resolve(override) = "ask" => chosen.strat = None
BY Distinct DEF Decided, Resolve, UserTyped, Strategies

LEMMA CreateTGFileSound ==
    ASSUME CardSound(card), UserTyped, NEW f \in Files, NEW s, NEW p, NEW override, NEW chosen,
           Decided(override, chosen), Sensible(chosen), Kept("tgfiles", {f}, FALSE, s, p, chosen),
           CreateTGFile(f, {f}, s, p, override, chosen)
    PROVE  CardSound(card') /\ CardSound(before') /\ Outcome'
<1> DEFINE strat == Resolve(override)
           elem == Elem(f, StorageFor(f, s), PathForOne(f, p))
<1>1. /\ strat = IF chosen.strat # None THEN chosen.strat ELSE strategy
      /\ strat \in Strategies /\ (strat = "ask" => chosen.strat = None)
  BY ResolveSays
<1>2. elem.file = f /\ (RuleFor[f] = None => elem.stor = s /\ elem.path = p)
  BY DEF Elem, StorageFor, PathForOne, Matched
<1>3. PICK exists \in BOOLEAN :
         \/ Fails({f})
         \/ exists /\ strat = "ask" /\ PromptConflict(elem.stor, elem.path, {f}, FALSE, chosen)
         \/ exists /\ strat = "skip" /\ Skips({f}, FALSE, {f})
         \/ /\ exists => strat \notin {"ask", "skip"}
            /\ Added("tgfiles", {f}, FALSE, {elem}, IF exists THEN {elem} ELSE {}, strat = "overwrite", {}, chosen)
  BY DEF CreateTGFile
<1> HIDE DEF strat, elem
<1>4. CASE Fails({f})
  BY <1>4, FailsSound
<1>5. CASE strat = "ask" /\ PromptConflict(elem.stor, elem.path, {f}, FALSE, chosen)
  <2>1. FilesOf1("tgfiles", {f}, FALSE)
    BY FS_Singleton DEF FilesOf1
  <2>2. Kept("tgfiles", {f}, FALSE, elem.stor, elem.path, chosen)
    BY <1>2 DEF Kept
  <2>3. chosen = Choice(chosen.stor, chosen.path, None)
    BY <1>1, <1>5 DEF Decided
  <2>4. QED
    BY <1>5, <2>1, <2>2, <2>3, PromptSound
<1>6. CASE Skips({f}, FALSE, {f})
  BY <1>6, SkipsSound
<1>7. ASSUME exists => strat \notin {"ask", "skip"},
             Added("tgfiles", {f}, FALSE, {elem}, IF exists THEN {elem} ELSE {}, strat = "overwrite", {}, chosen)
      PROVE  CardSound(card') /\ CardSound(before') /\ Outcome'
  <2> DEFINE elems == {elem}
             existed == IF exists THEN {elem} ELSE {}
             over == strat = "overwrite"
             files == {f}
             task == "tgfiles"
             batch == FALSE
             skipped == {}
  <2>1. existed # {} => strat \in {"rename", "overwrite"}
    BY <1>1, <1>7 DEF Strategies
  <2>2. \A e \in elems : e.file = f /\ e = elem
    BY <1>2
  <2>3. \A g \in files : g \in FilesOf(elems) \ {None} \/ g \in skipped \/ (batch /\ Lone(g, files))
    BY <1>2, Distinct DEF FilesOf
  <2>4. /\ Added(task, files, batch, elems, existed, over, skipped, chosen)
        /\ (over => strat = "overwrite") /\ over \in BOOLEAN /\ batch \in BOOLEAN
    BY <1>7
  <2> HIDE DEF elems, existed, over, files, batch, skipped, task
  <2>5. chosen.stor # None /\ task # "telegraph" =>
           \A e \in elems : (e.file # None => RuleFor[e.file] = None)
                             => e.stor = chosen.stor /\ e.path = chosen.path
    BY <1>2, <2>2, Distinct DEF Kept
  <2>6. QED
    BY <1>1, <2>1, <2>3, <2>4, <2>5, AddedSound
<1>8. QED
  BY <1>3, <1>4, <1>5, <1>6, <1>7

\* Every file of a batch is an element of its task, or lone.
LEMMA BatchAccounts ==
    ASSUME NEW files, files \subseteq Files, IsFiniteSet(files), NEW s, NEW p \in Places, NEW album,
           NEW f \in files
    PROVE  f \in FilesOf(BatchElems(files, s, p, album)) \/ Lone(f, files)
<1>1. CASE f \notin ForNewDir(files, p)
  <2>1. Elem(f, StorageFor(f, s), PathForMany(f, p)) \in BatchElems(files, s, p, album)
    BY <1>1 DEF BatchElems
  <2>2. Elem(f, StorageFor(f, s), PathForMany(f, p)).file = f
    BY DEF Elem
  <2>3. QED
    BY <2>1, <2>2 DEF FilesOf
<1>2. CASE f \in NewDirs(files, p)
  <2>1. Elem(f, album, p) \in BatchElems(files, s, p, album) /\ Elem(f, album, p).file = f
    BY <1>2 DEF BatchElems, Elem
  <2>2. QED
    BY <2>1 DEF FilesOf
<1>3. CASE f \in ForNewDir(files, p) /\ f \notin NewDirs(files, p)
  <2>1. \A g \in files : RuleFor[g] # None /\ RuleFor[g].path = NewForAlbum => g \in ForNewDir(files, p)
    BY Distinct DEF ForNewDir, PathForMany, Matched
  <2>2. RuleFor[f] # None /\ RuleFor[f].path = NewForAlbum
    BY <1>3, Distinct DEF ForNewDir, PathForMany, Matched, Places
  <2>3. ASSUME NEW g \in (files \cap AlbumFiles) \ {f}, f \in AlbumFiles,
               RuleFor[g] # None, RuleFor[g].path = NewForAlbum
        PROVE  FALSE
    <3> DEFINE siblings == ForNewDir(files, p) \cap AlbumFiles
    <3>1. f \in siblings /\ g \in siblings /\ siblings \subseteq files
      BY <1>3, <2>1, <2>3 DEF ForNewDir
    <3>2. IsFiniteSet(siblings) /\ Cardinality(siblings) \in Nat
      BY <3>1, FS_Subset, FS_CardinalityType
    <3>3. Cardinality({f, g}) = 2
      <4>1. {f, g} = {f} \cup {g} /\ f \notin {g}
        BY <2>3
      <4>2. Cardinality({g}) = 1 /\ IsFiniteSet({g})
        BY FS_Singleton
      <4>3. Cardinality({g} \cup {f}) = 1 + 1
        BY <4>1, <4>2, FS_AddElement
      <4>4. {g} \cup {f} = {f, g}
        OBVIOUS
      <4>5. QED
        BY <4>3, <4>4
    <3>4. 2 <= Cardinality(siblings)
      BY <3>1, <3>2, <3>3, FS_Subset
    <3>5. f \in NewDirs(files, p)
      <4>1. Cardinality(siblings) > 1
        BY <3>2, <3>4
      <4>2. NewDirs(files, p) = siblings
        BY <4>1 DEF NewDirs
      <4>3. QED
        BY <3>1, <4>2
    <3>6. QED
      BY <1>3, <3>5
  <2>4. QED
    BY <2>2, <2>3 DEF Lone
<1>4. QED
  BY <1>1, <1>2, <1>3

\* A file without a rule goes where the batch goes.
LEMMA BatchPlaces ==
    ASSUME NEW files, NEW s, NEW p \in Places, NEW album, NEW e \in BatchElems(files, s, p, album)
    PROVE  e.file \in files /\ (RuleFor[e.file] = None => e.stor = s /\ e.path = p)
<1>1. CASE \E f \in files \ ForNewDir(files, p) : e = Elem(f, StorageFor(f, s), PathForMany(f, p))
  BY <1>1 DEF Elem, StorageFor, PathForMany, Matched
<1>2. CASE \E f \in NewDirs(files, p) : e = Elem(f, album, p)
  <2>1. PICK f \in NewDirs(files, p) : e = Elem(f, album, p)
    BY <1>2
  <2>2. f \in ForNewDir(files, p) /\ e.file = f
    BY <2>1 DEF NewDirs, Elem
  <2>3. f \in files /\ RuleFor[f] # None
    BY <2>2, Distinct DEF ForNewDir, PathForMany, Matched, Places
  <2>4. QED
    BY <2>2, <2>3
<1>3. QED
  BY <1>1, <1>2 DEF BatchElems

LEMMA CreateBatchSound ==
    ASSUME CardSound(card), UserTyped, NEW files, files \subseteq Files, IsFiniteSet(files),
           NEW s, NEW p \in Places, NEW override, NEW chosen,
           Decided(override, chosen), Sensible(chosen), Kept("tgfiles", files, TRUE, s, p, chosen),
           CreateBatch(files, s, p, override, chosen)
    PROVE  CardSound(card') /\ CardSound(before') /\ Outcome'
<1> DEFINE strat == Resolve(override)
           task == "tgfiles"
           batch == TRUE
           none == {}
<1>1. /\ strat = IF chosen.strat # None THEN chosen.strat ELSE strategy
      /\ strat \in Strategies /\ (strat = "ask" => chosen.strat = None)
  BY ResolveSays
<1>2. CASE Fails(files)
  BY <1>2, FailsSound
<1>3. CASE ~Fails(files)
  <2>1. PICK album \in AlbumStorages(files, s, p) : \E exist \in SUBSET BatchElems(files, s, p, album) :
           LET elems == BatchElems(files, s, p, album)
           IN  \/ strat = "ask" /\ PromptConflict(s, p, files, TRUE, chosen)
               \/ strat = "skip" /\ exist = elems /\ Skips(files, TRUE, FilesOf(exist))
               \/ strat = "skip" /\ Added("tgfiles", files, TRUE, elems \ exist, {}, FALSE, FilesOf(exist), chosen)
               \/ elems = {} /\ Skips(files, TRUE, {})
               \/ /\ exist # {} => strat \notin {"ask", "skip"}
                  /\ Added("tgfiles", files, TRUE, elems, exist, strat = "overwrite", {}, chosen)
    BY <1>3 DEF CreateBatch
  <2> DEFINE elems == BatchElems(files, s, p, album)
  <2>0. PICK exist \in SUBSET elems :
           \/ strat = "ask" /\ PromptConflict(s, p, files, TRUE, chosen)
           \/ strat = "skip" /\ exist = elems /\ Skips(files, TRUE, FilesOf(exist))
           \/ strat = "skip" /\ Added("tgfiles", files, TRUE, elems \ exist, {}, FALSE, FilesOf(exist), chosen)
           \/ elems = {} /\ Skips(files, TRUE, {})
           \/ /\ exist # {} => strat \notin {"ask", "skip"}
              /\ Added("tgfiles", files, TRUE, elems, exist, strat = "overwrite", {}, chosen)
    BY <2>1
  <2>2. \A f \in files : f \in FilesOf(elems) \/ Lone(f, files)
    BY BatchAccounts
  <2>3. \A e \in elems : e.file \in files /\ (RuleFor[e.file] = None => e.stor = s /\ e.path = p)
    BY BatchPlaces
  <2>4. \A f \in FilesOf(elems) : f # None
    BY <2>3, Distinct DEF FilesOf
  <2>5. chosen.stor # None => s = chosen.stor /\ p = chosen.path
    BY DEF Kept
  <2>6. chosen.stor # None /\ task # "telegraph" =>
           \A e \in elems : (e.file # None => RuleFor[e.file] = None)
                            => e.stor = chosen.stor /\ e.path = chosen.path
    BY <2>3, <2>5, Distinct
  <2>7. batch \in BOOLEAN
    OBVIOUS
  <2>7a. \A f \in files : Lone(f, files) => batch /\ Lone(f, files)
    OBVIOUS
  <2>8. CASE strat = "ask" /\ PromptConflict(s, p, files, TRUE, chosen)
    <3>1. FilesOf1("tgfiles", files, TRUE)
      BY DEF FilesOf1
    <3>2. chosen = Choice(chosen.stor, chosen.path, None)
      BY <1>1, <2>8 DEF Decided
    <3>3. QED
      BY <2>8, <3>1, <3>2, PromptSound
  <2>9. CASE exist = elems /\ Skips(files, TRUE, FilesOf(exist))
    <3>1. Skips(files, batch, FilesOf(elems))
      BY <2>9
    <3> HIDE DEF elems, batch
    <3>2. \A f \in files : f \in FilesOf(elems) \/ (batch /\ Lone(f, files))
      BY <2>2, <2>7a
    <3>3. QED
      BY <3>1, <3>2, SkipsSound
  <2>10. CASE strat = "skip" /\ Added("tgfiles", files, TRUE, elems \ exist, {}, FALSE, FilesOf(exist), chosen)
    <3> DEFINE rest == elems \ exist
               over == FALSE
               skipped == FilesOf(exist)
    <3>1. \A f \in FilesOf(elems) : f \in FilesOf(rest) \/ f \in skipped
      BY DEF FilesOf
    <3>2. /\ Added(task, files, batch, rest, none, over, skipped, chosen)
          /\ over \in BOOLEAN /\ (over => strat = "overwrite") /\ (none # {} => strat \in {"rename", "overwrite"})
      BY <2>10
    <3>3. rest \subseteq elems
      OBVIOUS
    <3> HIDE DEF elems, batch, rest, over, skipped, task, none, strat
    <3>4. \A f \in files : f \in FilesOf(rest) \ {None} \/ f \in skipped \/ (batch /\ Lone(f, files))
      BY <2>2, <2>7a, <3>1, Distinct
    <3>5. chosen.stor # None /\ task # "telegraph" =>
             \A e \in rest : (e.file # None => RuleFor[e.file] = None)
                             => e.stor = chosen.stor /\ e.path = chosen.path
      BY <2>6, <3>3
    <3>6. QED
      BY <1>1, <2>7, <3>2, <3>4, <3>5, AddedSound
  <2>11. CASE elems = {} /\ Skips(files, TRUE, {})
    <3>1. Skips(files, batch, none) /\ FilesOf(elems) = {}
      BY <2>11 DEF FilesOf
    <3> HIDE DEF elems, batch, none
    <3>2. \A f \in files : f \in none \/ (batch /\ Lone(f, files))
      BY <2>2, <2>7a, <3>1
    <3>3. QED
      BY <3>1, <3>2, SkipsSound
  <2>12. CASE /\ exist # {} => strat \notin {"ask", "skip"}
              /\ Added("tgfiles", files, TRUE, elems, exist, strat = "overwrite", {}, chosen)
    <3> DEFINE over == strat = "overwrite"
    <3>1. /\ Added(task, files, batch, elems, exist, over, none, chosen)
          /\ over \in BOOLEAN /\ (over => strat = "overwrite")
      BY <2>12
    <3>2. exist # {} => strat \in {"rename", "overwrite"}
      BY <1>1, <2>12 DEF Strategies
    <3> HIDE DEF elems, batch, over, task, none, strat
    <3>3. \A f \in files : f \in FilesOf(elems) \ {None} \/ f \in none \/ (batch /\ Lone(f, files))
      BY <2>2, <2>4, <2>7a
    <3>4. QED
      BY <1>1, <2>6, <2>7, <3>1, <3>2, <3>3, AddedSound
  <2>13. QED
    BY <2>0, <2>8, <2>9, <2>10, <2>11, <2>12
<1>4. QED
  BY <1>2, <1>3

\* A task without files goes to the storage and the path it is given.
LEMMA CreateOtherSound ==
    ASSUME CardSound(card), NEW task, task # "tgfiles", NEW s, NEW p, NEW chosen, Sensible(chosen),
           chosen.stor # None /\ task # "telegraph" => s = chosen.stor /\ p = chosen.path,
           CreateOther(task, s, p, chosen)
    PROVE  CardSound(card') /\ CardSound(before') /\ Outcome'
<1> DEFINE none == {}
           no == FALSE
           elems == {Elem(None, s, p)}
           said == IF chosen.strat # None THEN chosen.strat ELSE strategy
<1>1. CASE Fails({})
  BY <1>1, FailsSound
<1>2. ASSUME NEW existed, Added(task, none, no, elems, existed, no, none, chosen)
      PROVE  CardSound(card') /\ CardSound(before') /\ Outcome'
  <2>1. chosen.stor # None /\ task # "telegraph" =>
           \A e \in elems : (e.file # None => RuleFor[e.file] = None)
                            => e.stor = chosen.stor /\ e.path = chosen.path
    BY DEF Elem
  <2>2. /\ no \in BOOLEAN /\ (no => said = "overwrite")
        /\ (task = "tgfiles" /\ existed # {} => said \in {"rename", "overwrite"})
        /\ \A f \in none : f \in FilesOf(elems) \ {None} \/ f \in none \/ (no /\ Lone(f, none))
    OBVIOUS
  <2>3. said = IF chosen.strat # None THEN chosen.strat ELSE strategy
    OBVIOUS
  <2> HIDE DEF none, no, elems, said
  <2>4. QED
    BY <1>2, <2>1, <2>2, <2>3, AddedSound
<1>3. CASE \E existed : Added(task, none, no, elems, existed, no, none, chosen)
  BY <1>2, <1>3
<1>4. QED
  BY <1>1, <1>3 DEF CreateOther

LEMMA CreateSound ==
    ASSUME CardSound(card), UserTyped, NEW add, FilesOf1(add.task, add.files, add.batch), NEW p, NEW chosen,
           add.task = "tgfiles" /\ add.batch => p \in Places,
           Decided(add.strat, chosen), Sensible(chosen),
           Kept(add.task, add.files, add.batch, add.stor, p, chosen), Create(add, p, chosen)
    PROVE  CardSound(card') /\ CardSound(before') /\ Outcome'
<1>1. CASE add.task = "tgfiles" /\ add.batch
  <2>1. CreateBatch(add.files, add.stor, p, add.strat, chosen)
    BY <1>1 DEF Create
  <2>2. Kept("tgfiles", add.files, TRUE, add.stor, p, chosen) /\ p \in Places
    BY <1>1 DEF Kept
  <2>3. QED
    BY <2>1, <2>2, CreateBatchSound DEF FilesOf1
<1>2. CASE add.task = "tgfiles" /\ ~add.batch
  <2>1. PICK f \in add.files : CreateTGFile(f, add.files, add.stor, p, add.strat, chosen)
    BY <1>2 DEF Create
  <2>2. add.files = {f} /\ f \in Files
    BY <1>2 DEF FilesOf1
  <2>3. Kept("tgfiles", {f}, FALSE, add.stor, p, chosen)
    BY <1>2, <2>2 DEF Kept
  <2>4. QED
    BY <2>1, <2>2, <2>3, CreateTGFileSound
<1>3. CASE add.task = "telegraph"
  <2> DEFINE task == "telegraph"
  <2>1. CreateOther(task, add.stor, Root, chosen)
    BY <1>3 DEF Create
  <2>2. chosen.stor # None /\ task # "telegraph" => add.stor = chosen.stor /\ Root = chosen.path
    OBVIOUS
  <2>3. task # "tgfiles"
    OBVIOUS
  <2> HIDE DEF task
  <2>4. QED
    BY <2>1, <2>2, <2>3, CreateOtherSound
<1>4. CASE add.task \notin {"tgfiles", "telegraph"}
  <2>1. CreateOther(add.task, add.stor, p, chosen)
    BY <1>4 DEF Create
  <2>2. chosen.stor # None /\ add.task # "telegraph" => add.stor = chosen.stor /\ p = chosen.path
    BY <1>4 DEF Kept
  <2>3. add.task # "tgfiles"
    BY <1>4
  <2>4. QED
    BY <2>1, <2>2, <2>3, CreateOtherSound
<1>5. QED
  BY <1>1, <1>2, <1>3, <1>4

-----------------------------------------------------------------------------
(* Presses *)

LEMMA PressStorage ==
    ASSUME NEW k, CardSound(k), k.shows = "storages", NEW b \in k.offers, NEW add, add = Pressed(k, b)
    PROVE  /\ Fields(add) /\ FilesOf1(add.task, add.files, add.batch)
           /\ ~add.setted /\ add.dir = None /\ add.path = Root /\ add.strat = None
           /\ Meant(k, b) = Choice(add.stor, Root, None)
<1>1. Fields(k.data) /\ FilesOf1(k.data.task, k.data.files, k.data.batch) /\ OnStorages(k)
  BY DEF CardSound, Keyboards
<1>2. add = [k.data EXCEPT !.stor = b] /\ Meant(k, b) = Choice(b, Root, None)
  BY DEF Pressed, Meant
<1>3. /\ Fields(add) /\ add.stor = b /\ add.task = k.data.task /\ add.files = k.data.files
      /\ add.batch = k.data.batch /\ add.setted = k.data.setted /\ add.dir = k.data.dir
      /\ add.path = k.data.path /\ add.strat = k.data.strat
  BY <1>1, <1>2 DEF Fields, Names
<1>4. QED
  BY <1>1, <1>2, <1>3 DEF OnStorages

LEMMA PressDir ==
    ASSUME NEW k, CardSound(k), k.shows = "dirs", NEW b \in k.offers, NEW add, add = Pressed(k, b)
    PROVE  /\ FilesOf1(add.task, add.files, add.batch) /\ add.setted /\ add.strat = None
           /\ (IF add.dir # None THEN add.dir ELSE add.path) = b /\ b \in Places
           /\ b # Root => StorageOf[b] = add.stor
           /\ Meant(k, b) = Choice(add.stor, b, None)
<1>1. Fields(k.data) /\ FilesOf1(k.data.task, k.data.files, k.data.batch) /\ OnDirs(k)
  BY DEF CardSound, Keyboards
<1>2. add = [k.data EXCEPT !.dir = IF b = Root THEN None ELSE b] /\ Meant(k, b) = [k.chosen EXCEPT !.path = b]
  BY DEF Pressed, Meant
<1>3. /\ add.stor = k.data.stor /\ add.task = k.data.task /\ add.files = k.data.files
      /\ add.batch = k.data.batch /\ add.setted = k.data.setted /\ add.dir = (IF b = Root THEN None ELSE b)
      /\ add.path = k.data.path /\ add.strat = k.data.strat
  BY <1>1, <1>2 DEF Fields, Names
<1>4. Meant(k, b) = Choice(add.stor, b, None)
  BY <1>1, <1>2, <1>3 DEF OnDirs, Choice
<1>5. QED
  BY <1>1, <1>3, <1>4, Distinct DEF OnDirs, Places

LEMMA PressConflict ==
    ASSUME NEW k, CardSound(k), k.shows = "conflict", NEW b \in k.offers, NEW add, add = Pressed(k, b)
    PROVE  /\ FilesOf1(add.task, add.files, add.batch) /\ add.setted /\ add.strat = b /\ add.dir = None
           /\ add.task = "tgfiles" /\ (add.batch => add.path \in Places)
           /\ Decided(b, Meant(k, b)) /\ Sensible(Meant(k, b))
           /\ Kept(add.task, add.files, add.batch, add.stor, add.path, Meant(k, b))
<1>1. Fields(k.data) /\ FilesOf1(k.data.task, k.data.files, k.data.batch) /\ OnConflict(k)
  BY DEF CardSound, Keyboards
<1>2. add = [k.data EXCEPT !.strat = b] /\ Meant(k, b) = [k.chosen EXCEPT !.strat = b]
  BY DEF Pressed, Meant
<1>3. /\ add.stor = k.data.stor /\ add.task = k.data.task /\ add.files = k.data.files
      /\ add.batch = k.data.batch /\ add.setted = k.data.setted /\ add.dir = k.data.dir
      /\ add.path = k.data.path /\ add.strat = b
  BY <1>1, <1>2 DEF Fields, Names
<1>4. Meant(k, b) = Choice(k.chosen.stor, k.chosen.path, b)
  BY <1>1, <1>2 DEF OnConflict, Choice
<1>5. /\ Meant(k, b).stor = k.chosen.stor /\ Meant(k, b).path = k.chosen.path /\ Meant(k, b).strat = b
  BY <1>4 DEF Choice
<1>6. Decided(b, Meant(k, b))
  BY <1>1, <1>4, <1>5 DEF Decided, OnConflict
<1>7. QED
  BY <1>1, <1>3, <1>5, <1>6 DEF OnConflict, Sensible, Kept

LEMMA HandleAddSound ==
    ASSUME UserTyped, CardSound(card), CardSound(before), Outcome,
           NEW k, CardSound(k), k.shows \in Keyboards, NEW b \in k.offers, HandleAdd(k, b)
    PROVE  CardSound(card') /\ CardSound(before') /\ Outcome'
<1> DEFINE add == Pressed(k, b)
           chosen == Meant(k, b)
           p == IF add.dir # None THEN add.dir ELSE add.path
<1>0. add = Pressed(k, b)
  OBVIOUS
<1>1. CASE Alert
  <2>1. card' = card /\ before' = before /\ made' = NoTask /\ reply'.error
    BY <1>1 DEF Alert, cardVars, NoReply
  <2>2. QED
    BY <2>1, NothingMade, NothingTold DEF Outcome
<1>2. CASE ~add.setted /\ AskDir(add, chosen)
  <2> DEFINE offers == {d \in dirs : StorageOf[d] = add.stor} \cup {Root}
  <2>1. card' = Card("dirs", [add EXCEPT !.setted = TRUE], chosen, offers) /\ before' = card /\ made' = NoTask
    BY <1>2 DEF AskDir, Shows
  <2>2. reply' = NoReply
    BY <1>2 DEF AskDir
  <2>3. offers \in SUBSET ({e \in Dirs : StorageOf[e] = add.stor} \cup {Root})
    BY DEF UserTyped
  <2> HIDE DEF offers, add, chosen
  <2>4. k.shows = "storages"
    BY <1>0, <1>2, PressDir, PressConflict DEF Keyboards
  <2>5. /\ Fields(add) /\ FilesOf1(add.task, add.files, add.batch)
        /\ add.dir = None /\ add.path = Root /\ add.strat = None
    BY <1>0, <2>4, PressStorage
  <2>6. chosen = Choice(add.stor, Root, None)
    BY <1>0, <2>4, PressStorage DEF chosen
  <2>7. CardSound(card')
    BY <2>1, <2>3, <2>5, <2>6, DirsSound
  <2>8. QED
    BY <2>1, <2>2, <2>7, NothingMade, NothingTold DEF Outcome
<1>3. CASE Create(add, p, chosen)
  <2> HIDE DEF add, chosen
  <2>1. CASE k.shows = "storages"
    <3>1. /\ FilesOf1(add.task, add.files, add.batch) /\ p = Root /\ add.strat = None
          /\ chosen = Choice(add.stor, Root, None)
      BY <1>0, <2>1, PressStorage DEF chosen
    <3>2. Decided(add.strat, chosen) /\ Sensible(chosen) /\ p \in Places
      BY <3>1 DEF Decided, Sensible, Choice, Places
    <3>3. Kept(add.task, add.files, add.batch, add.stor, p, chosen)
      BY <3>1 DEF Kept, Choice
    <3> HIDE DEF p
    <3>4. QED
      BY <1>3, <3>1, <3>2, <3>3, CreateSound
  <2>2. CASE k.shows = "dirs"
    <3>1. /\ FilesOf1(add.task, add.files, add.batch) /\ p = b /\ add.strat = None /\ b \in Places
          /\ (b # Root => StorageOf[b] = add.stor) /\ chosen = Choice(add.stor, b, None)
      BY <1>0, <2>2, PressDir DEF chosen
    <3>2. Decided(add.strat, chosen) /\ Sensible(chosen) /\ p \in Places
      BY <3>1 DEF Decided, Sensible, Choice, Places
    <3>3. Kept(add.task, add.files, add.batch, add.stor, p, chosen)
      BY <3>1 DEF Kept, Choice
    <3> HIDE DEF p
    <3>4. QED
      BY <1>3, <3>1, <3>2, <3>3, CreateSound
  <2>3. CASE k.shows = "conflict"
    <3>1. /\ FilesOf1(add.task, add.files, add.batch) /\ add.strat = b /\ p = add.path
          /\ (add.batch => add.path \in Places)
      BY <1>0, <2>3, PressConflict
    <3>2. /\ Decided(b, chosen) /\ Sensible(chosen)
          /\ Kept(add.task, add.files, add.batch, add.stor, add.path, chosen)
      BY <1>0, <2>3, PressConflict DEF chosen
    <3> HIDE DEF p
    <3>3. QED
      BY <1>3, <3>1, <3>2, CreateSound
  <2>4. QED
    BY <2>1, <2>2, <2>3 DEF Keyboards
<1>4. QED
  BY <1>1, <1>2, <1>3 DEF HandleAdd

LEMMA BulkSound ==
    ASSUME CardSound(card), CardSound(before), Outcome, HandleBulkDL
    PROVE  CardSound(card') /\ CardSound(before') /\ Outcome'
<1>0. card = Card(card.shows, Add("bulkdl", {}), NoChoice, {}) /\ card.data = Add("bulkdl", {})
  BY DEF HandleBulkDL, CardSound, Card
<1>1. CASE Alert
  <2>1. card' = card /\ before' = before /\ made' = NoTask /\ reply'.error
    BY <1>1 DEF Alert, cardVars, NoReply
  <2>2. QED
    BY <2>1, NothingMade, NothingTold DEF Outcome
<1>2. CASE Shows([card EXCEPT !.shows = "max"]) /\ reply' = NoReply
  <2>1. card' = [card EXCEPT !.shows = "max"] /\ before' = card /\ made' = NoTask
    BY <1>2 DEF Shows
  <2>2. card' = Card("max", Add("bulkdl", {}), NoChoice, {})
    BY <1>0, <2>1 DEF Card
  <2>3. card'.shows = "max"
    BY <2>2 DEF Card
  <2>4. CardSound(card')
    BY <2>2, <2>3 DEF CardSound, Keyboards
  <2>5. QED
    BY <1>2, <2>1, <2>4, NothingMade, NothingTold DEF Outcome
<1>3. CASE AskStorage(card.data)
  <2> DEFINE task == "bulkdl"
             none == {}
  <2>1. AskStorage(Add(task, none)) /\ none \subseteq Files /\ IsFiniteSet(none) /\ task # "tgfiles"
    BY <1>0, <1>3, FS_EmptySet
  <2> HIDE DEF task, none
  <2>2. QED
    BY <2>1, AskStorageSound
<1>4. QED
  BY <1>1, <1>2, <1>3 DEF HandleBulkDL

LEMMA StartBulkSound ==
    ASSUME CardSound(card), StartBulkDL
    PROVE  CardSound(card') /\ CardSound(before') /\ Outcome'
<1>1. CASE AskStorage(Add("bulkdl", {}))
  <2> DEFINE task == "bulkdl"
             none == {}
  <2>1. AskStorage(Add(task, none)) /\ none \subseteq Files /\ IsFiniteSet(none) /\ task # "tgfiles"
    BY <1>1, FS_EmptySet
  <2> HIDE DEF task, none
  <2>2. QED
    BY <2>1, AskStorageSound
<1>2. CASE Shows(Card("types", Add("bulkdl", {}), NoChoice, {})) /\ reply' = NoReply
  <2>1. card' = Card("types", Add("bulkdl", {}), NoChoice, {}) /\ before' = card /\ made' = NoTask
    BY <1>2 DEF Shows
  <2>2. card'.shows = "types"
    BY <2>1 DEF Card
  <2>3. CardSound(card')
    BY <2>1, <2>2 DEF CardSound, Keyboards
  <2>4. QED
    BY <1>2, <2>1, <2>3, NothingMade, NothingTold DEF Outcome
<1>3. QED
  BY <1>1, <1>2 DEF StartBulkDL

-----------------------------------------------------------------------------
(* Messages *)

\* Nothing has been pressed when the defaults decide.
LEMMA NothingPressed ==
    /\ Decided(None, NoChoice) /\ Sensible(NoChoice) /\ NoChoice.stor = None
    /\ \A task, files, batch, s, p : Kept(task, files, batch, s, p, NoChoice)
BY DEF NoChoice, Choice, Decided, Sensible, Kept

LEMMA AskFiles ==
    ASSUME CardSound(card), NEW files, files \subseteq Files, files # {}, IsFiniteSet(files),
           AskStorage(Add("tgfiles", files))
    PROVE  CardSound(card') /\ CardSound(before') /\ Outcome'
<1> DEFINE task == "tgfiles"
<1>1. AskStorage(Add(task, files))
  OBVIOUS
<1> HIDE DEF task
<1>2. QED
  BY <1>1, AskStorageSound

LEMMA AskOther ==
    ASSUME CardSound(card), NEW task, task # "tgfiles", AskStorage(Add(task, {}))
    PROVE  CardSound(card') /\ CardSound(before') /\ Outcome'
<1> DEFINE none == {}
<1>1. AskStorage(Add(task, none)) /\ none \subseteq Files /\ IsFiniteSet(none)
  BY FS_EmptySet
<1> HIDE DEF none
<1>2. QED
  BY <1>1, AskStorageSound

\* A file or some go to the default storage, or to the root of one.
LEMMA SilentOne ==
    ASSUME CardSound(card), UserTyped, NEW f \in Files, NEW s, NEW p, CreateTGFile(f, {f}, s, p, None, NoChoice)
    PROVE  CardSound(card') /\ CardSound(before') /\ Outcome'
<1>1. Kept("tgfiles", {f}, FALSE, s, p, NoChoice)
  BY NothingPressed DEF Kept
<1>2. Decided(None, NoChoice) /\ Sensible(NoChoice)
  BY NothingPressed
<1>3. QED
  BY <1>1, <1>2, CreateTGFileSound

LEMMA SilentMany ==
    ASSUME CardSound(card), UserTyped, NEW files, files \subseteq Files, IsFiniteSet(files), NEW s, NEW p \in Places,
           CreateBatch(files, s, p, None, NoChoice)
    PROVE  CardSound(card') /\ CardSound(before') /\ Outcome'
<1>1. Kept("tgfiles", files, TRUE, s, p, NoChoice)
  BY NothingPressed DEF Kept
<1>2. Decided(None, NoChoice) /\ Sensible(NoChoice)
  BY NothingPressed
<1>3. QED
  BY <1>1, <1>2, CreateBatchSound

LEMMA SilentOther ==
    ASSUME CardSound(card), NEW task, task # "tgfiles", NEW s, NEW p, CreateOther(task, s, p, NoChoice)
    PROVE  CardSound(card') /\ CardSound(before') /\ Outcome'
<1>1. NoChoice.stor # None /\ task # "telegraph" => s = NoChoice.stor /\ p = NoChoice.path
  BY NothingPressed
<1>2. Sensible(NoChoice)
  BY NothingPressed
<1>3. QED
  BY <1>1, <1>2, CreateOtherSound

\* The silent path of a user whose default directory exists is a place.
LEMMA SilentPath == UserTyped /\ GoesSilent => DefaultPath \in Places
BY DEF UserTyped, GoesSilent, DefaultPath, Places

LEMMA RangeFiles ==
    ASSUME NEW files \in Ranges
    PROVE  files \subseteq Files /\ files # {} /\ IsFiniteSet(files)
BY DialogAssumption

LEMMA MessageSound ==
    ASSUME CardSound(card), UserTyped, UserMessages
    PROVE  CardSound(card') /\ CardSound(before') /\ Outcome'
<1>1. ASSUME NEW f \in Files, HandleMedia(f) PROVE CardSound(card') /\ CardSound(before') /\ Outcome'
  <2>1. CASE CreateTGFile(f, {f}, defStor, DefaultPath, None, NoChoice)
    BY <2>1, SilentOne
  <2>2. CASE AskStorage(Add("tgfiles", {f}))
    <3>1. {f} \subseteq Files /\ {f} # {} /\ IsFiniteSet({f})
      BY FS_Singleton
    <3>2. QED
      BY <2>2, <3>1, AskFiles
  <2>3. QED
    BY <1>1, <2>1, <2>2 DEF HandleMedia
<1>2. ASSUME NEW files \in Ranges, HandleBatchSave(files)
      PROVE  CardSound(card') /\ CardSound(before') /\ Outcome'
  <2>1. CASE CreateBatch(files, defStor, Root, None, NoChoice)
    <3>1. Root \in Places
      BY DEF Places
    <3>2. QED
      BY <2>1, <3>1, RangeFiles, SilentMany
  <2>2. CASE AskStorage(Add("tgfiles", files))
    BY <2>2, RangeFiles, AskFiles
  <2>3. QED
    BY <1>2, <2>1, <2>2 DEF HandleBatchSave
<1>3. ASSUME NEW files \in Ranges, HandleMessageLink(files)
      PROVE  CardSound(card') /\ CardSound(before') /\ Outcome'
  <2>1. CASE AskStorage(Add("tgfiles", files))
    BY <2>1, RangeFiles, AskFiles
  <2>2. CASE Cardinality(files) = 1 /\ \E f \in files : CreateTGFile(f, {f}, defStor, DefaultPath, None, NoChoice)
    BY <2>2, RangeFiles, SilentOne
  <2>3. CASE GoesSilent /\ CreateBatch(files, defStor, DefaultPath, None, NoChoice)
    BY <2>3, RangeFiles, SilentPath, SilentMany
  <2>4. QED
    BY <1>3, <2>1, <2>2, <2>3 DEF HandleMessageLink
<1>4. ASSUME NEW files \in Ranges, NEW default \in Storages \cup {None}, ProcessMediaGroup(files, default)
      PROVE  CardSound(card') /\ CardSound(before') /\ Outcome'
  <2>1. CASE AskStorage(Add("tgfiles", files))
    BY <2>1, RangeFiles, AskFiles
  <2>2. CASE Fails(files)
    BY <2>2, FailsSound
  <2>3. CASE Cardinality(files) = 1 /\ \E f \in files : CreateTGFile(f, files, default, Root, None, NoChoice)
    <3>1. PICK f \in files : CreateTGFile(f, files, default, Root, None, NoChoice)
      BY <2>3
    <3>2. files = {f} /\ f \in Files
      BY <2>3, RangeFiles, FS_Singleton
    <3>3. QED
      BY <3>1, <3>2, SilentOne
  <2>4. CASE CreateBatch(files, default, Root, None, NoChoice)
    <3>1. Root \in Places
      BY DEF Places
    <3>2. QED
      BY <2>4, <3>1, RangeFiles, SilentMany
  <2>5. CASE default = None
    <3>1. AskStorage(Add("tgfiles", files)) \/ Fails(files)
      BY <1>4, <2>5 DEF ProcessMediaGroup
    <3>2. QED
      BY <2>1, <2>2, <3>1
  <2>6. CASE default # None
    <3>1. \/ Cardinality(files) = 1 /\ \E f \in files : CreateTGFile(f, files, default, Root, None, NoChoice)
          \/ CreateBatch(files, default, Root, None, NoChoice)
      BY <1>4, <2>6 DEF ProcessMediaGroup
    <3>2. QED
      BY <2>3, <2>4, <3>1
  <2>7. QED
    BY <2>5, <2>6
<1>5. CASE HandleTelegraph
  <2>1. CASE CreateOther("telegraph", defStor, DefaultPath, NoChoice)
    <3> DEFINE task == "telegraph"
    <3>1. CreateOther(task, defStor, DefaultPath, NoChoice) /\ task # "tgfiles"
      BY <2>1
    <3> HIDE DEF task
    <3>2. QED
      BY <3>1, SilentOther
  <2>2. CASE AskStorage(Add("telegraph", {}))
    BY <2>2, AskOther
  <2>3. QED
    BY <1>5, <2>1, <2>2 DEF HandleTelegraph
<1>6. CASE HandleText
  <2>1. CASE CreateOther("parsed", defStor, DefaultPath, NoChoice)
    <3> DEFINE task == "parsed"
    <3>1. CreateOther(task, defStor, DefaultPath, NoChoice) /\ task # "tgfiles"
      BY <2>1
    <3> HIDE DEF task
    <3>2. QED
      BY <3>1, SilentOther
  <2>2. CASE AskStorage(Add("parsed", {}))
    BY <2>2, AskOther
  <2>3. QED
    BY <1>6, <2>1, <2>2 DEF HandleText
<1>7. ASSUME NEW task \in Features \cap Links, HandleLinkCmd(task)
      PROVE  CardSound(card') /\ CardSound(before') /\ Outcome'
  <2>1. task # "tgfiles" /\ AskStorage(Add(task, {}))
    BY <1>7 DEF Links, HandleLinkCmd
  <2>2. QED
    BY <2>1, AskOther
<1>8. CASE HandleTransferCmd
  <2>1. AskStorage(Add("transfer", {}))
    BY <1>8 DEF HandleTransferCmd
  <2>2. QED
    BY <2>1, AskOther
<1>9. CASE HandleBulkDLCmd
  BY <1>9, StartBulkSound DEF HandleBulkDLCmd
<1>10. QED
  BY <1>1, <1>2, <1>3, <1>4, <1>5, <1>6, <1>7, <1>8, <1>9 DEF UserMessages

-----------------------------------------------------------------------------
(* The invariant *)

LEMMA InitDialogInv == DialogInit => DialogInv
<1> SUFFICES ASSUME DialogInit PROVE DialogInv
  OBVIOUS
<1>1. UserTyped /\ CardSound(card) /\ CardSound(before)
  BY TextSound DEF DialogInit, UserTyped
<1>2. SavedWhereChosen /\ ConsentToReplace
  BY DEF DialogInit, NoTask, NoChoice, Choice, SavedWhereChosen, ConsentToReplace, Said
<1>3. ReplyAccounts
  BY DEF DialogInit, NoReply, ReplyAccounts
<1>4. QED
  BY <1>1, <1>2, <1>3 DEF DialogInv, Outcome

\* Steps that make no task and tell nothing of files leave the card alone.
LEMMA QuietSound ==
    ASSUME CardSound(card), CardSound(before), Quiet, UNCHANGED cardVars
    PROVE  CardSound(card') /\ CardSound(before') /\ Outcome'
<1>1. card' = card /\ before' = before /\ made' = NoTask /\ reply' = NoReply
  BY DEF Quiet, cardVars
<1>2. QED
  BY <1>1, NothingMade, NothingTold DEF Outcome

LEMMA NextDialogInv == DialogInv /\ [DialogNext]_dialogVars => DialogInv'
<1> SUFFICES ASSUME DialogInv, [DialogNext]_dialogVars PROVE DialogInv'
  OBVIOUS
<1>0. UserTyped /\ CardSound(card) /\ CardSound(before) /\ Outcome
  BY DEF DialogInv
<1>1. UserTyped'
  <2>1. strategy' = strategy \/ strategy' \in Strategies
    BY <1>0 DEF DialogNext, dialogVars, userVars, Callback, PressAdd, HandleAdd, HandleBulkDL, Alert,
                Elsewhere, UserMessages, HandleMedia, HandleBatchSave, HandleMessageLink, ProcessMediaGroup,
                HandleTelegraph, HandleText, HandleLinkCmd, HandleTransferCmd, HandleBulkDLCmd, Command,
                Wizard, HandleWizardInput, AwaitingExpires, HandleFeatureButton, Settings, Setting,
                HandleSilentCmd, HandleDirCmd, SetDefaultStorage, SetDefaultDir, HandleConflictStrategy
  <2>2. dirs' = dirs \/ dirs' \subseteq Dirs
    BY <1>0 DEF UserTyped, DialogNext, dialogVars, userVars, Callback, PressAdd, HandleAdd, HandleBulkDL, Alert,
                Elsewhere, UserMessages, HandleMedia, HandleBatchSave, HandleMessageLink, ProcessMediaGroup,
                HandleTelegraph, HandleText, HandleLinkCmd, HandleTransferCmd, HandleBulkDLCmd, Command,
                Wizard, HandleWizardInput, AwaitingExpires, HandleFeatureButton, Settings, Setting,
                HandleSilentCmd, HandleDirCmd, SetDefaultStorage, SetDefaultDir, HandleConflictStrategy
  <2>3. QED
    BY <1>0, <2>1, <2>2 DEF UserTyped
<1>2. CardSound(card') /\ CardSound(before') /\ Outcome'
  <2>1. CASE UNCHANGED dialogVars
    <3>1. card' = card /\ before' = before /\ made' = made /\ reply' = reply
      BY <2>1 DEF dialogVars, cardVars
    <3>2. Outcome'
      BY <1>0, <3>1 DEF Outcome, SavedWhereChosen, ConsentToReplace, Said, ReplyAccounts, Lone
    <3>3. QED
      BY <1>0, <3>1, <3>2
  <2>2. CASE PressAdd
    <3>1. PICK k \in {card, before} : k.shows \in Keyboards /\ \E b \in k.offers : HandleAdd(k, b)
      BY <2>2 DEF PressAdd, Keyboards
    <3>2. PICK b \in k.offers : HandleAdd(k, b)
      BY <3>1
    <3>3. CardSound(k)
      BY <1>0
    <3>4. QED
      BY <1>0, <3>1, <3>2, <3>3, HandleAddSound
  <2>3. CASE HandleBulkDL
    BY <1>0, <2>3, BulkSound
  <2>4. CASE UserMessages
    BY <1>0, <2>4, MessageSound
  <2>5. CASE HandleWizardInput
    <3>1. CASE awaiting \in Links /\ AskStorage(Add(awaiting, {}))
      <4>1. awaiting # "tgfiles"
        BY <3>1 DEF Links
      <4>2. PICK task : task = awaiting
        OBVIOUS
      <4>3. AskStorage(Add(task, {})) /\ task # "tgfiles"
        BY <3>1, <4>1, <4>2
      <4>4. QED
        BY <1>0, <4>3, AskOther
    <3>2. CASE StartBulkDL
      BY <1>0, <3>2, StartBulkSound
    <3>3. CASE Quiet /\ UNCHANGED cardVars
      BY <1>0, <3>3, QuietSound
    <3>4. QED
      BY <2>5, <3>1, <3>2, <3>3 DEF HandleWizardInput
  <2>6. CASE AwaitingExpires \/ \E x \in Features : HandleFeatureButton(x)
    <3>1. Quiet /\ UNCHANGED cardVars
      BY <2>6 DEF AwaitingExpires, HandleFeatureButton, cardVars
    <3>2. QED
      BY <1>0, <3>1, QuietSound
  <2>7. CASE Settings
    <3>1. Quiet /\ UNCHANGED cardVars
      BY <2>7 DEF Settings, Setting, HandleSilentCmd, HandleDirCmd, SetDefaultStorage, SetDefaultDir,
                  HandleConflictStrategy, cardVars
    <3>2. QED
      BY <1>0, <3>1, QuietSound
  <2>8. QED
    BY <2>1, <2>2, <2>3, <2>4, <2>5, <2>6, <2>7 DEF DialogNext, Callback, Wizard
<1>3. QED
  BY <1>1, <1>2 DEF DialogInv

LEMMA DialogInvariant == DialogSpec => []DialogInv
BY InitDialogInv, NextDialogInv, PTL DEF DialogSpec

-----------------------------------------------------------------------------
(* The theorems *)

\* Whatever keyboards the files of a message have travelled through, the bot tells
\* of each of them that it is in the task, skipped or asked about; the only files
\* dropped are those of a batch that a rule sends alone to a new directory.
THEOREM EveryFileAnswered == DialogSpec => []ReplyAccounts
BY DialogInvariant, PTL DEF DialogInv, Outcome

\* A task saves where the user pressed, from whichever keyboard a press comes and
\* however often the data behind it has been written anew.
THEOREM SavedAsPressed == DialogSpec => []SavedWhereChosen
BY DialogInvariant, PTL DEF DialogInv, Outcome

\* No file is replaced that the card or the settings do not say so, and where a
\* Telegram file exists, none is saved beside it either.
THEOREM ReplacedWithConsent == DialogSpec => []ConsentToReplace
BY DialogInvariant, PTL DEF DialogInv, Outcome

=============================================================================
