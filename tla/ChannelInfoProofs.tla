-------------------------- MODULE ChannelInfoProofs -------------------------
(***************************************************************************)
(* Proofs about how the receiver learns of the channels.  The FIB sink:    *)
(* whatever the multiplexer sends, whatever is damaged and however FIGs    *)
(* are misread, it implements ChannelLists, and lists of which nothing was *)
(* lost are complete.  grdab info: what it prints exists, whether it reads *)
(* the lists of ChannelLists or those of the sink itself.                  *)
(***************************************************************************)
EXTENDS FibSink, GetChannels, FiniteSetTheorems, SequenceTheorems,
        WellFoundedInduction, TLAPS

-----------------------------------------------------------------------------
(* Induction.  The library's induction theorems have a predicate as a      *)
(* parameter; here it is a set, and the least number outside of it is a    *)
(* minimal element of the initial segments, ordered by inclusion.          *)

LEMMA LeastNumber ==
    ASSUME NEW T, T \subseteq Nat, T # {}
    PROVE  \E m \in T : \A k \in T : m <= k
<1>1. PICK n \in T : TRUE
  OBVIOUS
<1> DEFINE S == 0..n
           Segments == {0..m : m \in {k \in T : k <= n}}
<1>2. IsWellFoundedOn(StrictSubsetOrdering(S), FiniteSubsetsOf(S))
  BY FS_StrictSubsetOrderingWellFounded
<1>3. Segments \subseteq FiniteSubsetsOf(S)
  <2>1. \A m \in Nat : m <= n => 0..m \subseteq S /\ IsFiniteSet(0..m)
    BY FS_Interval, <1>1
  <2> QED
    BY <2>1 DEF FiniteSubsetsOf
<1>4. Segments # {}
  BY <1>1
<1>5. PICK x \in Segments :
         \A y \in Segments : ~ (<<y, x>> \in StrictSubsetOrdering(S))
  <2> HIDE DEF Segments, S
  <2> QED
    BY <1>2, <1>3, <1>4, WFMin
<1>6. PICK m \in T : m <= n /\ x = 0..m
  OBVIOUS
<1>7. \A k \in T : m <= k
  <2> SUFFICES ASSUME NEW k \in T, k < m
               PROVE  FALSE
    BY <1>6
  <2>1. 0..k \in Segments
    BY <1>6
  <2>2. 0..k \subseteq 0..m /\ 0..k # 0..m /\ 0..m \subseteq S
    <3>1. m \in 0..m /\ m \notin 0..k
      OBVIOUS
    <3> QED
      BY <1>6, <3>1
  <2>3. <<0..k, x>> \in StrictSubsetOrdering(S)
    BY <1>6, <2>2 DEF StrictSubsetOrdering
  <2> QED
    BY <1>5, <2>1, <2>3
<1> QED
  BY <1>7

LEMMA Induction ==
    ASSUME NEW S, 0 \in S, \A n \in Nat : n \in S => n + 1 \in S
    PROVE  Nat \subseteq S
<1> DEFINE T == {n \in Nat : n \notin S}
<1> SUFFICES ASSUME T # {}
             PROVE  FALSE
  OBVIOUS
<1>1. PICK m \in T : \A k \in T : m <= k
  <2> HIDE DEF T
  <2>1. T \subseteq Nat
    BY DEF T
  <2> QED
    BY <2>1, LeastNumber
<1>2. m # 0 /\ m \in Nat
  OBVIOUS
<1>3. m - 1 \in Nat /\ m - 1 \notin T
  BY <1>1, <1>2
<1>4. m \in S
  BY <1>2, <1>3
<1> QED
  BY <1>4

Recursive(g, base, N, step) ==
    g[0] = base /\ \A n \in 1..N : g[n] = step[<<n, g[n - 1]>>]

\* A recursive function over 0..N exists.
LEMMA Recursion ==
    ASSUME NEW S, NEW base \in S, NEW N \in Nat, NEW step \in [(1..N) \X S -> S]
    PROVE  \E g \in [0..N -> S] : Recursive(g, base, N, step)
<1> DEFINE Good(g, m) == Recursive(g, base, m, step)
           M == {m \in Nat : m <= N => \E g \in [0..m -> S] : Good(g, m)}
<1> USE DEF Recursive
<1>1. 0 \in M
  <2>1. Good([n \in 0..0 |-> base], 0) /\ [n \in 0..0 |-> base] \in [0..0 -> S]
    OBVIOUS
  <2> QED
    BY <2>1
<1>2. ASSUME NEW m \in Nat, m \in M
      PROVE  m + 1 \in M
  <2> SUFFICES ASSUME m + 1 <= N
               PROVE  \E g \in [0..(m + 1) -> S] : Good(g, m + 1)
    OBVIOUS
  <2>1. PICK g \in [0..m -> S] : Good(g, m)
    BY <1>2
  <2> DEFINE h == [n \in 0..(m + 1) |->
                     IF n <= m THEN g[n] ELSE step[<<m + 1, g[m]>>]]
  <2>2. step[<<m + 1, g[m]>>] \in S
    OBVIOUS
  <2>3. h \in [0..(m + 1) -> S]
    BY <2>2
  <2>4. Good(h, m + 1)
    <3>1. h[0] = base
      BY <2>1
    <3>2. ASSUME NEW n \in 1..(m + 1)
          PROVE  h[n] = step[<<n, h[n - 1]>>]
      <4>1. h[n - 1] = g[n - 1]
        OBVIOUS
      <4>2. CASE n <= m
        BY <2>1, <4>1, <4>2
      <4>3. CASE n = m + 1
        <5>1. h[m + 1] = step[<<m + 1, g[m]>>] /\ n - 1 = m
          BY <4>3
        <5> QED
          BY <4>1, <4>3, <5>1
      <4> QED
        BY <4>2, <4>3
    <3> QED
      BY <3>1, <3>2
  <2> QED
    BY <2>3, <2>4
<1>3. Nat \subseteq M
  <2> HIDE DEF M
  <2> QED
    BY <1>1, <1>2, Induction
<1> HIDE DEF Recursive
<1> QED
  BY <1>3

-----------------------------------------------------------------------------
(* Reading a FIG *)

LEMMA CountType ==
    ASSUME NEW fig, Len(fig) \in Nat, NEW form
    PROVE  Count(fig, form) \in Nat
<1>1. IsFiniteSet(1..Len(fig))
  BY FS_Interval
<1>2. {i \in 1..Len(fig) : fig[i].form = form} \subseteq 1..Len(fig)
  OBVIOUS
<1>3. IsFiniteSet({i \in 1..Len(fig) : fig[i].form = form})
  BY <1>1, <1>2, FS_Subset
<1> QED
  BY <1>3, FS_CardinalityType DEF Count

LEMMA OrganizationType ==
    ASSUME NEW fig \in Seq(Sent), NEW r \in Organization(fig)
    PROVE  r \in Seq(Read)
<1>1. Len(fig) \in Nat /\ \A i \in 1..Len(fig) : fig[i] \in Sent
  BY ElementOfSeq, LenProperties
<1>2. Sent \subseteq Read
  BY DEF Sent, Read
<1>3. CASE fig # <<>> /\ fig[1].form = "short"
  <2>1. r = [i \in 1..Len(fig) |-> [fig[i] EXCEPT !.form = "short"]]
    BY <1>3 DEF Organization
  <2>2. \A i \in 1..Len(fig) : [fig[i] EXCEPT !.form = "short"] \in Read
    BY <1>1, <1>2 DEF Sent, Read, Forms
  <2> QED
    BY <1>1, <2>1, <2>2
<1>4. CASE ~(fig # <<>> /\ fig[1].form = "short") /\ FirstShort(fig) = {}
  BY <1>2, <1>4 DEF Organization
<1>5. CASE ~(fig # <<>> /\ fig[1].form = "short") /\ FirstShort(fig) # {}
  <2>1. PICK i \in FirstShort(fig) :
           \E g \in [1..ReadLong(SubSeq(fig, i, Len(fig))) -> Misread] :
              r = SubSeq(fig, 1, i - 1) \o g
    <3> DEFINE From(i) ==
                 {SubSeq(fig, 1, i - 1) \o garbage :
                    garbage \in {g \in [1..ReadLong(SubSeq(fig, i, Len(fig))) -> Misread] :
                                   g[1].key = fig[i].key}}
    <3>1. r \in UNION {From(i) : i \in FirstShort(fig)}
      BY <1>5 DEF Organization
    <3>2. PICK i \in FirstShort(fig) : r \in From(i)
      BY <3>1
    <3> QED
      BY <3>2
  <2>2. i \in 1..Len(fig)
    BY <2>1 DEF FirstShort
  <2> DEFINE rest == SubSeq(fig, i, Len(fig))
  <2>3. SubSeq(fig, 1, i - 1) \in Seq(Sent) /\ rest \in Seq(Sent)
    BY <1>1, <2>2, SubSeqProperties
  <2>4. Count(rest, "short") \in Nat /\ Count(rest, "long") \in Nat
    <3>1. Len(rest) \in Nat
      BY <2>3, LenProperties
    <3> QED
      BY <3>1, CountType
  <2>5. ReadLong(rest) \in Nat
    <3> HIDE DEF rest
    <3>1. \A a, b \in Nat : (3 * a + 4 * b + 3) \div 4 \in Nat
      OBVIOUS
    <3> QED
      BY <2>4, <3>1 DEF ReadLong
  <2>6. PICK g \in [1..ReadLong(rest) -> Misread] : r = SubSeq(fig, 1, i - 1) \o g
    BY <2>1
  <2>7. Misread \subseteq Read
    BY DEF Misread, Read, Forms
  <2>8. g \in Seq(Read)
    <3> HIDE DEF rest
    <3>1. \A n \in Nat : \A h \in [1..n -> Misread] : h \in Seq(Read)
      BY <2>7
    <3> QED
      BY <2>5, <2>6, <3>1
  <2>9. SubSeq(fig, 1, i - 1) \in Seq(Read)
    BY <2>3, <1>2
  <2> QED
    BY <2>6, <2>8, <2>9, ConcatProperties
<1> QED
  BY <1>3, <1>4, <1>5

LEMMA ReadingsType ==
    ASSUME NEW kind \in Kinds, NEW f \in 1..Len(Schedule[kind]),
           NEW r \in Readings(kind, Schedule[kind][f])
    PROVE  /\ Len(r) \in Nat
           /\ \A i \in 1..Len(r) : /\ r[i] \in Read
                                   /\ Recorded(r[i]) => Plain(r[i]) \in ReadAs[kind]
<1>1. Schedule[kind] \in Seq(Seq(Sent))
  BY ScheduleAssumption
<1>2. Schedule[kind][f] \in Seq(Sent)
  BY <1>1, ElementOfSeq
<1>3. Sent \subseteq Read
  BY DEF Sent, Read
<1>4. r \in Seq(Read)
  BY <1>2, <1>3, OrganizationType DEF Readings
<1>5. Len(r) \in Nat /\ \A i \in 1..Len(r) : r[i] \in Read
  BY <1>4, ElementOfSeq, LenProperties
<1>6. ASSUME NEW i \in 1..Len(r), Recorded(r[i])
      PROVE  Plain(r[i]) \in ReadAs[kind]
  BY <1>5, <1>6 DEF ReadAs
<1> QED
  BY <1>5, <1>6

LEMMA ReadAsType ==
    ASSUME NEW k \in Kinds
    PROVE  ReadAs[k] \subseteq Entry
BY DEF ReadAs, Plain, Read, Entry

-----------------------------------------------------------------------------
(* The inductive invariant *)

\* The multiplexer is somewhere in the schedule.
OnSchedule ==
    \A k \in Kinds : Schedule[k] # <<>> => at[k] \in 1..Len(Schedule[k])

\* What work() still has to record was read.
TodoIsRead ==
    \A i \in 1..Len(todo) :
        Recorded(todo[i].sent) => Plain(todo[i].sent) \in ReadAs[todo[i].kind]

\* What is collected was read, and not with the trigger's key.
CollectsRound ==
    \A k \in Kinds : /\ current[k] \in Seq(ReadAs[k])
                     /\ \A i \in 1..Len(current[k]) : current[k][i].key # trigger[k]

StartsOver == publishing # None => current[publishing] = <<>>

IInv == SinkTypeOK /\ OnSchedule /\ TodoIsRead /\ CollectsRound /\ StartsOver

LEMMA InitInvariant == SinkInit => IInv
<1> SUFFICES ASSUME SinkInit PROVE IInv
  OBVIOUS
<1>1. SinkTypeOK
  <2>1. at \in [Kinds -> Nat] /\ lost \in 0..MaxLost
    BY MaxLostAssumption DEF SinkInit
  <2>2. \A S : <<>> \in Seq(S)
    OBVIOUS
  <2>3. todo \in Seq([kind : Kinds, sent : Read])
    BY <2>2 DEF SinkInit
  <2>4. current \in [Kinds -> Seq(Entry)] /\ json \in [Kinds -> Seq(Entry)]
    BY <2>2 DEF SinkInit
  <2>5. \A k \in Kinds : current[k] = <<>>
    BY DEF SinkInit
  <2>6. /\ trigger \in [Kinds -> Keys \cup {None}]
        /\ publishing \in Kinds \cup {None} /\ d_crc_passed \in BOOLEAN
        /\ missed \in [Kinds -> BOOLEAN] /\ whole \in [Kinds -> BOOLEAN]
    BY DEF SinkInit
  <2> QED
    BY <2>1, <2>3, <2>4, <2>5, <2>6 DEF SinkTypeOK
<1>2. OnSchedule
  <2> SUFFICES ASSUME NEW k \in Kinds, Schedule[k] # <<>>
               PROVE  at[k] \in 1..Len(Schedule[k])
    BY DEF OnSchedule
  <2>1. Schedule[k] \in Seq(Seq(Sent))
    BY ScheduleAssumption
  <2>2. Len(Schedule[k]) \in Nat /\ Len(Schedule[k]) >= 1
    BY <2>1
  <2> QED
    BY <2>2 DEF SinkInit
<1>3. TodoIsRead /\ CollectsRound /\ StartsOver
  BY DEF SinkInit, TodoIsRead, CollectsRound, StartsOver
<1> QED
  BY <1>1, <1>2, <1>3 DEF IInv

LEMMA FollowingType ==
    ASSUME IInv, NEW kind \in Kinds, Schedule[kind] # <<>>
    PROVE  /\ Following(kind) \in 1..Len(Schedule[kind])
           /\ at[kind] \in 1..Len(Schedule[kind])
<1>1. Schedule[kind] \in Seq(Seq(Sent))
  BY ScheduleAssumption
<1>2. Len(Schedule[kind]) \in Nat
  BY <1>1
<1> QED
  BY <1>2 DEF IInv, OnSchedule, Following

LEMMA AirInvariant ==
    ASSUME IInv, NEW kind \in Kinds, Schedule[kind] # <<>>,
           at' = [at EXCEPT ![kind] = Following(kind)]
    PROVE  at' \in [Kinds -> Nat] /\ OnSchedule'
<1>1. Following(kind) \in 1..Len(Schedule[kind])
  BY FollowingType
<1>2. Following(kind) \in Nat
  BY <1>1
<1> QED
  BY <1>1, <1>2 DEF IInv, SinkTypeOK, OnSchedule

LEMMA DamagedInvariant ==
    ASSUME IInv, NEW kind \in Kinds, DamagedFib(kind)
    PROVE  IInv'
<1>1. at' \in [Kinds -> Nat] /\ OnSchedule'
  BY AirInvariant DEF DamagedFib
<1>2. lost' \in 0..MaxLost
  BY MaxLostAssumption DEF DamagedFib, IInv, SinkTypeOK
<1>3. SinkTypeOK'
  BY <1>1, <1>2 DEF DamagedFib, IInv, SinkTypeOK, lists
<1>4. TodoIsRead' /\ CollectsRound' /\ StartsOver'
  BY DEF DamagedFib, IInv, TodoIsRead, CollectsRound, StartsOver, lists
<1> QED
  BY <1>1, <1>3, <1>4 DEF IInv

LEMMA GoodInvariant ==
    ASSUME IInv, NEW kind \in Kinds, GoodFib(kind)
    PROVE  IInv'
<1>1. at' \in [Kinds -> Nat] /\ OnSchedule'
  BY AirInvariant DEF GoodFib
<1>2. at[kind] \in 1..Len(Schedule[kind])
  BY FollowingType DEF GoodFib
<1>3. PICK r \in Readings(kind, Schedule[kind][at[kind]]) :
         todo' = [i \in 1..Len(r) |-> [kind |-> kind, sent |-> r[i]]]
  BY DEF GoodFib
<1>4. /\ Len(r) \in Nat
      /\ \A i \in 1..Len(r) : /\ r[i] \in Read
                              /\ Recorded(r[i]) => Plain(r[i]) \in ReadAs[kind]
  BY <1>2, ReadingsType
<1>5. todo' \in Seq([kind : Kinds, sent : Read])
  BY <1>3, <1>4
<1>6. SinkTypeOK'
  BY <1>1, <1>5 DEF GoodFib, IInv, SinkTypeOK, lists, history
<1>7. TodoIsRead'
  <2>1. Len(todo') = Len(r)
    BY <1>3, <1>4
  <2> QED
    BY <1>3, <1>4, <2>1 DEF TodoIsRead
<1>8. CollectsRound' /\ StartsOver'
  BY DEF GoodFib, IInv, CollectsRound, StartsOver, lists
<1> QED
  BY <1>1, <1>6, <1>7, <1>8 DEF IInv

LEMMA TodoInvariant ==
    ASSUME IInv, RecordEntry
    PROVE  /\ todo' \in Seq([kind : Kinds, sent : Read])
           /\ TodoIsRead'
           /\ Head(todo).kind \in Kinds /\ Head(todo).sent \in Read
           /\ Recorded(Head(todo).sent) =>
                  Plain(Head(todo).sent) \in ReadAs[Head(todo).kind]
<1> DEFINE T == [kind : Kinds, sent : Read]
<1>1. todo \in Seq(T) /\ todo # <<>> /\ todo' = Tail(todo)
  BY DEF IInv, SinkTypeOK, RecordEntry
<1>2. Len(todo) \in Nat /\ Len(todo) >= 1
  BY <1>1
<1>3. /\ todo' \in Seq(T) /\ Len(todo') = Len(todo) - 1
      /\ \A i \in 1..Len(todo') : todo'[i] = todo[i + 1]
  BY <1>1, HeadTailProperties
<1>4. TodoIsRead'
  <2> SUFFICES ASSUME NEW i \in 1..Len(todo'), Recorded(todo'[i].sent)
               PROVE  Plain(todo'[i].sent) \in ReadAs[todo'[i].kind]
    BY DEF TodoIsRead
  <2>1. i + 1 \in 1..Len(todo) /\ todo'[i] = todo[i + 1]
    BY <1>2, <1>3
  <2> QED
    BY <2>1 DEF IInv, TodoIsRead
<1>5. Head(todo) = todo[1] /\ 1 \in 1..Len(todo)
  BY <1>1, <1>2, HeadTailProperties
<1>6. Head(todo) \in T
  BY <1>1, HeadTailProperties
<1>7. Recorded(Head(todo).sent) => Plain(Head(todo).sent) \in ReadAs[Head(todo).kind]
  BY <1>5 DEF IInv, TodoIsRead
<1> QED
  BY <1>3, <1>4, <1>6, <1>7

\* The two ways of recording an entry, and what they publish.
LEMMA TriggerInvariant ==
    ASSUME IInv, RecordEntry, NEW kind \in Kinds, NEW entry \in ReadAs[kind],
           SetTrigger(kind, entry)
    PROVE  IInv'
<1>1. entry \in Entry /\ entry.key \in Keys /\ entry.key # None
  BY ReadAsType, NoneAssumption DEF Entry
<1>2. current[kind] = <<>>
  BY DEF IInv, SinkTypeOK, SetTrigger
<1>3. SinkTypeOK'
  <2>1. trigger' \in [Kinds -> Keys \cup {None}]
    BY <1>1 DEF IInv, SinkTypeOK, SetTrigger
  <2>2. \A k \in Kinds : trigger'[k] = None => current'[k] = <<>>
    BY <1>1 DEF IInv, SinkTypeOK, SetTrigger
  <2>3. missed' \in [Kinds -> BOOLEAN]
    BY DEF IInv, SinkTypeOK, SetTrigger
  <2> QED
    BY <2>1, <2>2, <2>3, TodoInvariant
       DEF IInv, SinkTypeOK, SetTrigger, RecordEntry, air
<1>4. CollectsRound'
  <2> SUFFICES ASSUME NEW k \in Kinds
               PROVE  /\ current[k] \in Seq(ReadAs[k])
                      /\ \A i \in 1..Len(current[k]) :
                            current[k][i].key # trigger'[k]
    BY DEF CollectsRound, SetTrigger
  <2>1. CASE k = kind
    BY <1>2, <2>1 DEF IInv, CollectsRound
  <2>2. CASE k # kind
    BY <2>2 DEF IInv, CollectsRound, SetTrigger, SinkTypeOK
  <2> QED
    BY <2>1, <2>2
<1>5. OnSchedule' /\ StartsOver'
  BY DEF IInv, OnSchedule, StartsOver, SetTrigger, RecordEntry, air
<1> QED
  BY <1>3, <1>4, <1>5, TodoInvariant DEF IInv

LEMMA AppendToRound ==
    ASSUME NEW S, NEW list \in Seq(S), NEW entry \in S, NEW trig,
           \A i \in 1..Len(list) : list[i].key # trig
    PROVE  /\ Append(list, entry) \in Seq(S)
           /\ entry.key # trig =>
                \A i \in 1..Len(Append(list, entry)) :
                   Append(list, entry)[i].key # trig
           /\ entry.key = trig => Lists!IsRound(Append(list, entry))
<1> DEFINE longer == Append(list, entry)
<1>1. /\ longer \in Seq(S) /\ Len(list) \in Nat /\ Len(longer) = Len(list) + 1
      /\ \A i \in 1..Len(list) : longer[i] = list[i]
      /\ longer[Len(list) + 1] = entry
  BY AppendProperties, LenProperties
<1> HIDE DEF longer
<1>2. longer # <<>>
  BY <1>1
<1>3. ASSUME entry.key # trig, NEW i \in 1..Len(longer)
      PROVE  longer[i].key # trig
  <2>1. i \in 1..Len(list) \/ i = Len(list) + 1
    BY <1>1
  <2> QED
    BY <1>1, <1>3, <2>1
<1>4. ASSUME entry.key = trig
      PROVE  Lists!IsRound(longer)
  <2>1. \A i \in 1..(Len(longer) - 1) : i \in 1..Len(list)
    BY <1>1
  <2> QED
    BY <1>1, <1>2, <1>4, <2>1 DEF Lists!IsRound
<1> QED
  BY <1>1, <1>3, <1>4 DEF longer

LEMMA CollectInvariant ==
    ASSUME IInv, RecordEntry, NEW kind \in Kinds, NEW entry \in ReadAs[kind],
           Collect(kind, entry)
    PROVE  IInv' /\ [Lists!ListsNext]_(Lists!listVars)
<1>1. entry \in Entry /\ ReadAs[kind] \subseteq Entry
  BY ReadAsType
<1>2. /\ current[kind] \in Seq(ReadAs[kind])
      /\ \A i \in 1..Len(current[kind]) : current[kind][i].key # trigger[kind]
  BY DEF IInv, CollectsRound
<1> DEFINE longer == Append(current[kind], entry)
<1>3. /\ longer \in Seq(ReadAs[kind])
      /\ entry.key # trigger[kind] =>
            \A i \in 1..Len(longer) : longer[i].key # trigger[kind]
      /\ entry.key = trigger[kind] => Lists!IsRound(longer)
  BY <1>2, AppendToRound
<1> HIDE DEF longer
<1>4. longer \in Seq(Entry)
  <2>1. \A S, T : S \subseteq T => \A q \in Seq(S) : q \in Seq(T)
    OBVIOUS
  <2> QED
    BY <1>1, <1>3, <2>1
<1>5. /\ trigger' = trigger /\ missed' = missed
      /\ d_crc_passed' = d_crc_passed /\ at' = at /\ lost' = lost
      /\ publishing = None /\ trigger[kind] # None
  BY DEF Collect, RecordEntry, air
<1>6. OnSchedule'
  BY <1>5 DEF IInv, OnSchedule
<1>7. CASE entry.key = trigger[kind]
  <2>1. /\ json' = [json EXCEPT ![kind] = longer]
        /\ publishing' = kind
        /\ current' = [current EXCEPT ![kind] = <<>>]
        /\ whole' = [whole EXCEPT ![kind] = ~missed[kind]]
    BY <1>7 DEF Collect, longer
  <2>2. \A S : <<>> \in Seq(S)
    OBVIOUS
  <2>3. current' \in [Kinds -> Seq(Entry)] /\ json' \in [Kinds -> Seq(Entry)]
    BY <1>4, <2>1, <2>2 DEF IInv, SinkTypeOK
  <2>4. \A k \in Kinds : trigger'[k] = None => current'[k] = <<>>
    BY <1>5, <2>1 DEF IInv, SinkTypeOK
  <2>5. whole' \in [Kinds -> BOOLEAN] /\ publishing' \in Kinds \cup {None}
    BY <2>1 DEF IInv, SinkTypeOK
  <2>6. SinkTypeOK'
    BY <1>5, <2>3, <2>4, <2>5, TodoInvariant DEF IInv, SinkTypeOK
  <2>7. CollectsRound'
    <3> SUFFICES ASSUME NEW k \in Kinds
                 PROVE  /\ current'[k] \in Seq(ReadAs[k])
                        /\ \A i \in 1..Len(current'[k]) :
                              current'[k][i].key # trigger[k]
      BY <1>5 DEF CollectsRound
    <3>1. CASE k = kind
      <4>1. current'[k] = <<>>
        BY <2>1, <3>1 DEF IInv, SinkTypeOK
      <4> QED
        BY <2>2, <4>1
    <3>2. CASE k # kind
      <4>1. current'[k] = current[k]
        BY <2>1, <3>2 DEF IInv, SinkTypeOK
      <4> QED
        BY <4>1 DEF IInv, CollectsRound
    <3> QED
      BY <3>1, <3>2
  <2>8. StartsOver'
    BY <2>1 DEF StartsOver, IInv, SinkTypeOK
  <2>9. json'[kind] = longer
    BY <2>1 DEF IInv, SinkTypeOK
  <2>10. Lists!Publish(kind, json'[kind])
    BY <1>3, <1>5, <1>7, <2>1, <2>9 DEF Lists!Publish
  <2>11. Lists!ListsNext
    BY <2>10 DEF Lists!ListsNext, Lists!Kinds, Kinds
  <2> QED
    BY <1>6, <2>6, <2>7, <2>8, <2>11, TodoInvariant DEF IInv
<1>8. CASE entry.key # trigger[kind]
  <2>1. /\ current' = [current EXCEPT ![kind] = longer]
        /\ json' = json /\ publishing' = publishing /\ whole' = whole
    BY <1>8 DEF Collect, longer
  <2>2. current' \in [Kinds -> Seq(Entry)]
    BY <1>4, <2>1 DEF IInv, SinkTypeOK
  <2>3. \A k \in Kinds : trigger'[k] = None => current'[k] = <<>>
    BY <1>5, <2>1 DEF IInv, SinkTypeOK
  <2>4. SinkTypeOK'
    BY <1>5, <2>1, <2>2, <2>3, TodoInvariant DEF IInv, SinkTypeOK
  <2>5. CollectsRound'
    <3> SUFFICES ASSUME NEW k \in Kinds
                 PROVE  /\ current'[k] \in Seq(ReadAs[k])
                        /\ \A i \in 1..Len(current'[k]) :
                              current'[k][i].key # trigger[k]
      BY <1>5 DEF CollectsRound
    <3>1. CASE k = kind
      <4>1. current'[k] = longer
        BY <2>1, <3>1 DEF IInv, SinkTypeOK
      <4> QED
        BY <1>3, <1>8, <3>1, <4>1
    <3>2. CASE k # kind
      <4>1. current'[k] = current[k]
        BY <2>1, <3>2 DEF IInv, SinkTypeOK
      <4> QED
        BY <4>1 DEF IInv, CollectsRound
    <3> QED
      BY <3>1, <3>2
  <2>6. StartsOver'
    BY <1>5, <2>1 DEF StartsOver
  <2> QED
    BY <1>6, <2>1, <2>4, <2>5, <2>6, TodoInvariant DEF IInv, Lists!listVars
<1> QED
  BY <1>7, <1>8

LEMMA OpenInvariant ==
    ASSUME IInv, OpenList
    PROVE  IInv' /\ Lists!ListsNext
<1>1. SinkTypeOK'
  <2>1. publishing \in Kinds
    BY DEF IInv, SinkTypeOK, OpenList
  <2>2. trigger' \in [Kinds -> Keys \cup {None}]
    BY <2>1 DEF IInv, SinkTypeOK, OpenList
  <2>3. \A k \in Kinds : trigger'[k] = None => current'[k] = <<>>
    BY <2>1 DEF IInv, SinkTypeOK, StartsOver, OpenList
  <2> QED
    BY <2>2, <2>3 DEF IInv, SinkTypeOK, OpenList, air, history
<1>2. CollectsRound'
  <2> SUFFICES ASSUME NEW k \in Kinds
               PROVE  /\ current[k] \in Seq(ReadAs[k])
                      /\ \A i \in 1..Len(current[k]) :
                            current[k][i].key # trigger'[k]
    BY DEF CollectsRound, OpenList
  <2>1. CASE k = publishing
    BY <2>1 DEF IInv, CollectsRound, StartsOver, OpenList
  <2>2. CASE k # publishing
    BY <2>2 DEF IInv, CollectsRound, OpenList, SinkTypeOK
  <2> QED
    BY <2>1, <2>2
<1>3. OnSchedule' /\ TodoIsRead' /\ StartsOver'
  BY DEF IInv, OnSchedule, TodoIsRead, StartsOver, OpenList, air
<1>4. Lists!ListsNext
  BY DEF OpenList, Lists!ListsNext, Lists!Open
<1> QED
  BY <1>1, <1>2, <1>3, <1>4 DEF IInv

-----------------------------------------------------------------------------
LEMMA StepInvariant ==
    IInv /\ [SinkNext]_sinkVars => IInv' /\ [Lists!ListsNext]_(Lists!listVars)
<1> SUFFICES ASSUME IInv, [SinkNext]_sinkVars
             PROVE  IInv' /\ [Lists!ListsNext]_(Lists!listVars)
  OBVIOUS
<1>1. ASSUME NEW kind \in Kinds, DamagedFib(kind)
      PROVE  IInv' /\ UNCHANGED <<json, publishing>>
  BY <1>1, DamagedInvariant DEF DamagedFib, lists
<1>2. ASSUME NEW kind \in Kinds, GoodFib(kind)
      PROVE  IInv' /\ UNCHANGED <<json, publishing>>
  BY <1>2, GoodInvariant DEF GoodFib, lists
<1>3. CASE RecordEntry
  <2> DEFINE kind == Head(todo).kind
             sent == Head(todo).sent
  <2>1. /\ kind \in Kinds /\ (Recorded(sent) => Plain(sent) \in ReadAs[kind])
        /\ TodoIsRead' /\ todo' \in Seq([kind : Kinds, sent : Read])
    BY <1>3, TodoInvariant
  <2>2. \/ Recorded(sent) /\ SetTrigger(kind, Plain(sent))
        \/ Recorded(sent) /\ Collect(kind, Plain(sent))
        \/ ~Recorded(sent) /\ UNCHANGED <<lists, history>>
    BY <1>3 DEF RecordEntry
  <2> HIDE DEF kind, sent
  <2>3. CASE Recorded(sent) /\ SetTrigger(kind, Plain(sent))
    <3>1. IInv'
      BY <1>3, <2>1, <2>3, TriggerInvariant
    <3> QED
      BY <2>3, <3>1 DEF SetTrigger, Lists!listVars
  <2>4. CASE Recorded(sent) /\ Collect(kind, Plain(sent))
    BY <1>3, <2>1, <2>4, CollectInvariant
  <2>5. CASE ~Recorded(sent) /\ UNCHANGED <<lists, history>>
    BY <1>3, <2>1, <2>5
       DEF IInv, SinkTypeOK, OnSchedule, CollectsRound, StartsOver, RecordEntry, air,
           lists, history, Lists!listVars
  <2> QED
    BY <2>2, <2>3, <2>4, <2>5
<1>4. CASE OpenList
  BY <1>4, OpenInvariant
<1>5. CASE UNCHANGED sinkVars
  BY <1>5 DEF IInv, SinkTypeOK, OnSchedule, TodoIsRead, CollectsRound, StartsOver,
              sinkVars, air, lists, history, Lists!listVars
<1> QED
  BY <1>1, <1>2, <1>3, <1>4, <1>5 DEF SinkNext, Lists!listVars

\* Type correctness of the FIB sink, with a list being collected only under a
\* trigger.
THEOREM SinkTypes == SinkSpec => []SinkTypeOK
<1>1. SinkSpec => []IInv
  BY InitInvariant, StepInvariant, PTL DEF SinkSpec
<1>2. IInv => SinkTypeOK
  BY DEF IInv
<1> QED
  BY <1>1, <1>2, PTL

\* Whatever the multiplexer's schedule is, whatever is damaged and misread, a
\* getter sees a round of what was read: the sink implements ChannelLists.
THEOREM SinkImplementsLists == SinkSpec => ImplementsLists
<1>1. SinkInit => Lists!ListsInit
  BY DEF SinkInit, Lists!ListsInit, Lists!Kinds, Kinds
<1> QED
  BY <1>1, InitInvariant, StepInvariant, PTL
     DEF SinkSpec, ImplementsLists, Lists!ListsSpec

-----------------------------------------------------------------------------
(* What a list misses, when no FIG does *)

\* The FIG of a kind that was read last, and the place that comes next.
LastFig(k) == IF at[k] = 1 THEN Len(Schedule[k]) ELSE at[k] - 1
NextPlace(k) ==
    IF todo # <<>> /\ todo[1].kind = k
    THEN <<LastFig(k), Len(Schedule[k][LastFig(k)]) - Len(todo) + 1>>
    ELSE <<at[k], 1>>

\* What work() still has to record is the rest of the FIG that was read last.
TodoInOrder ==
    todo # <<>> =>
        LET k == todo[1].kind
            fig == Schedule[k][LastFig(k)]
        IN  /\ Schedule[k] # <<>>
            /\ \A i \in 1..Len(todo) : todo[i].kind = k
            /\ Clear(k) =>
                  /\ Len(todo) <= Len(fig)
                  /\ \A i \in 1..Len(todo) :
                        todo[i].sent = fig[Len(fig) - Len(todo) + i]

\* Since the place that set the trigger everything was collected, once and in
\* order.
CollectedSince(k, p) ==
    /\ SentAt(k, p).key = trigger[k]
    /\ {current[k][i] : i \in 1..Len(current[k])} =
          {SentAt(k, q) : q \in {r \in Places(k) : Passed(p, NextPlace(k), r)}}
    /\ Distinct(current[k])
    /\ InOrderFrom(k, p, current[k])
CollectsAll(k) ==
    Clear(k) /\ trigger[k] # None /\ ~missed[k] /\ publishing # k =>
        \E p \in Places(k) : CollectedSince(k, p)

CompleteInv ==
    /\ TodoInOrder /\ CompleteLists
    /\ \A k \in Kinds : CollectsAll(k)

LEMMA ScheduleFacts ==
    ASSUME NEW k \in Kinds
    PROVE  /\ Len(Schedule[k]) \in Nat
           /\ \A f \in 1..Len(Schedule[k]) :
                 /\ Schedule[k][f] \in Seq(Sent) /\ Len(Schedule[k][f]) \in Nat
                 /\ \A i \in 1..Len(Schedule[k][f]) : Schedule[k][f][i] \in Sent
<1>1. Schedule[k] \in Seq(Seq(Sent))
  BY ScheduleAssumption
<1>2. Len(Schedule[k]) \in Nat
  BY <1>1
<1>3. \A f \in 1..Len(Schedule[k]) : Schedule[k][f] \in Seq(Sent)
  BY <1>1, ElementOfSeq
<1> QED
  BY <1>2, <1>3, ElementOfSeq, LenProperties

\* A FIG that does not mix the forms is read as it was sent.
LEMMA ClearReading ==
    ASSUME NEW k \in Kinds, Clear(k), NEW f \in 1..Len(Schedule[k])
    PROVE  Readings(k, Schedule[k][f]) = {Schedule[k][f]}
<1> DEFINE fig == Schedule[k][f]
<1>1. /\ fig \in Seq(Sent) /\ Len(fig) \in Nat
      /\ \A i \in 1..Len(fig) : fig[i] \in Sent
  BY ScheduleFacts
<1>2. \A i, j \in 1..Len(fig) : fig[i].form = "short" => fig[j].form = "short"
  BY DEF Clear, Unmixed
<1> HIDE DEF fig
<1>3. CASE fig # <<>> /\ fig[1].form = "short"
  <2>1. 1 \in 1..Len(fig)
    BY <1>1, <1>3
  <2>2. \A i \in 1..Len(fig) : fig[i].form = "short"
    BY <1>2, <1>3, <2>1
  <2>3. \A i \in 1..Len(fig) : [fig[i] EXCEPT !.form = "short"] = fig[i]
    BY <1>1, <2>2 DEF Sent
  <2>4. fig = [i \in 1..Len(fig) |-> fig[i]]
    BY <1>1
  <2>5. [i \in 1..Len(fig) |-> [fig[i] EXCEPT !.form = "short"]] = fig
    BY <2>3, <2>4
  <2> QED
    BY <1>3, <2>5 DEF Readings, Organization, fig
<1>4. CASE ~(fig # <<>> /\ fig[1].form = "short")
  <2>1. \A i \in 1..Len(fig) : 1 \in 1..Len(fig) /\ fig # <<>>
    BY <1>1
  <2>2. \A i \in 1..Len(fig) : fig[i].form # "short"
    BY <1>2, <1>4, <2>1
  <2>3. FirstShort(fig) = {}
    BY <2>2 DEF FirstShort
  <2> QED
    BY <1>4, <2>3 DEF Readings, Organization, fig
<1> QED
  BY <1>3, <1>4

LEMMA PlaceFacts ==
    ASSUME NEW k \in Kinds
    PROVE  /\ \A p \in Places(k) :
                 /\ p = <<p[1], p[2]>>
                 /\ p[1] \in 1..Len(Schedule[k]) /\ p[2] \in 1..Len(Schedule[k][p[1]])
                 /\ Recorded(Schedule[k][p[1]][p[2]])
           /\ \A f \in 1..Len(Schedule[k]) : \A i \in 1..Len(Schedule[k][f]) :
                 Recorded(Schedule[k][f][i]) => <<f, i>> \in Places(k)
<1> DEFINE Of(f) == {f} \X (1..Len(Schedule[k][f]))
           All == UNION {Of(f) : f \in 1..Len(Schedule[k])}
<1>1. Places(k) = {p \in All : Recorded(Schedule[k][p[1]][p[2]])}
  BY DEF Places
<1>2. ASSUME NEW p \in All
      PROVE  /\ p = <<p[1], p[2]>>
             /\ p[1] \in 1..Len(Schedule[k]) /\ p[2] \in 1..Len(Schedule[k][p[1]])
  <2>1. PICK f \in 1..Len(Schedule[k]) : p \in Of(f)
    OBVIOUS
  <2> QED
    BY <2>1
<1>3. ASSUME NEW f \in 1..Len(Schedule[k]), NEW i \in 1..Len(Schedule[k][f])
      PROVE  <<f, i>> \in All
  <2>1. <<f, i>> \in Of(f)
    OBVIOUS
  <2> QED
    BY <2>1
<1> HIDE DEF All
<1> QED
  BY <1>1, <1>2, <1>3

LEMMA PassedNext ==
    ASSUME NEW k \in Kinds, NEW p \in Places(k), NEW r \in Places(k),
           NEW f \in 1..Len(Schedule[k]), NEW m \in 1..Len(Schedule[k][f])
    PROVE  /\ p # <<f, m>> =>
                 (Passed(p, <<f, m + 1>>, r) <=> Passed(p, <<f, m>>, r) \/ r = <<f, m>>)
           /\ p # <<f, m>> => ~Passed(p, <<f, m>>, <<f, m>>)
           /\ p = <<f, m>> => ~Passed(p, <<f, m + 1>>, r)
           /\ Passed(p, p, r) <=> r # p
<1>1. /\ Len(Schedule[k]) \in Nat
      /\ \A g \in 1..Len(Schedule[k]) : Len(Schedule[k][g]) \in Nat
  BY ScheduleFacts
<1>2. PICK f1 \in Nat, m1 \in Nat : p = <<f1, m1>>
  BY <1>1, PlaceFacts
<1>3. PICK f2 \in Nat, m2 \in Nat : r = <<f2, m2>>
  BY <1>1, PlaceFacts
<1>4. f \in Nat /\ m \in Nat
  BY <1>1
<1> QED
  BY <1>2, <1>3, <1>4 DEF Passed, Before

\* At the end of a FIG the next place is the first one of the next FIG.
LEMMA PassedFig ==
    ASSUME NEW k \in Kinds, NEW p \in Places(k), NEW r \in Places(k),
           NEW f \in 1..Len(Schedule[k]), NEW g,
           g = IF f = Len(Schedule[k]) THEN 1 ELSE f + 1
    PROVE  Passed(p, <<g, 1>>, r) <=> Passed(p, <<f, Len(Schedule[k][f]) + 1>>, r)
<1> DEFINE N == Len(Schedule[k])
           L == Len(Schedule[k][f])
<1>1. N \in Nat /\ \A h \in 1..N : Len(Schedule[k][h]) \in Nat
  BY ScheduleFacts
<1>2. PICK f1 \in Nat, m1 \in Nat : /\ p = <<f1, m1>>
                                    /\ f1 >= 1 /\ f1 <= N /\ m1 >= 1
                                    /\ f1 = f => m1 <= L
  BY <1>1, PlaceFacts
<1>3. PICK f2 \in Nat, m2 \in Nat : /\ r = <<f2, m2>>
                                    /\ f2 >= 1 /\ f2 <= N /\ m2 >= 1
                                    /\ f2 = f => m2 <= L
  BY <1>1, PlaceFacts
<1>4. f \in Nat /\ f >= 1 /\ f <= N /\ L \in Nat /\ (g = IF f = N THEN 1 ELSE f + 1)
  BY <1>1
<1> HIDE DEF N, L
<1>5. CASE f = N
  BY <1>2, <1>3, <1>4, <1>5 DEF Passed, Before, L
<1>6. CASE f # N
  BY <1>2, <1>3, <1>4, <1>6 DEF Passed, Before, L
<1> QED
  BY <1>5, <1>6

LEMMA AppendDistinct ==
    ASSUME NEW S, NEW list \in Seq(S), NEW e \in S
    PROVE  /\ {Append(list, e)[i] : i \in 1..Len(Append(list, e))} =
                 {list[i] : i \in 1..Len(list)} \cup {e}
           /\ Distinct(list) /\ (\A i \in 1..Len(list) : list[i].key # e.key)
                 => Distinct(Append(list, e))
<1> DEFINE new == Append(list, e)
<1>1. /\ Len(list) \in Nat /\ Len(new) = Len(list) + 1
      /\ \A i \in 1..Len(list) : new[i] = list[i]
      /\ new[Len(list) + 1] = e
  BY AppendProperties, LenProperties
<1> HIDE DEF new
<1>2. /\ 1..Len(new) = (1..Len(list)) \cup {Len(list) + 1}
      /\ Len(list) + 1 \notin 1..Len(list)
  BY <1>1
<1>3. {new[i] : i \in 1..Len(new)} = {list[i] : i \in 1..Len(list)} \cup {e}
  BY <1>1, <1>2
<1>4. ASSUME Distinct(list), \A i \in 1..Len(list) : list[i].key # e.key
      PROVE  Distinct(new)
  BY <1>1, <1>2, <1>4 DEF Distinct
<1> QED
  BY <1>3, <1>4 DEF new

\* The entry that is sent next comes behind all that was collected.
LEMMA AppendInOrder ==
    ASSUME NEW k \in Kinds, Clear(k), NEW p, NEW n \in Places(k),
           NEW list \in Seq(Entry), InOrderFrom(k, p, list),
           {list[i] : i \in 1..Len(list)} =
              {SentAt(k, q) : q \in {r \in Places(k) : Passed(p, n, r)}}
    PROVE  InOrderFrom(k, p, Append(list, SentAt(k, n)))
<1> DEFINE new == Append(list, SentAt(k, n))
<1>1. /\ Len(list) \in Nat /\ Len(new) = Len(list) + 1
      /\ \A i \in 1..Len(list) : new[i] = list[i]
      /\ new[Len(list) + 1] = SentAt(k, n)
  OBVIOUS
<1> HIDE DEF new
<1>2. \A a, b \in Places(k) : SentAt(k, a) = SentAt(k, b) => a = b
  BY DEF Clear
<1> SUFFICES ASSUME NEW i \in 1..Len(new), NEW j \in 1..Len(new),
                    NEW q \in Places(k), NEW r \in Places(k), i < j,
                    new[i] = SentAt(k, q), new[j] = SentAt(k, r)
             PROVE  Passed(p, r, q)
  BY DEF InOrderFrom, new
<1>3. i \in 1..Len(list) /\ new[i] = list[i]
  BY <1>1
<1>4. CASE j \in 1..Len(list)
  BY <1>1, <1>3, <1>4 DEF InOrderFrom
<1>5. CASE j = Len(list) + 1
  <2>1. r = n
    BY <1>1, <1>2, <1>5
  <2>2. PICK a \in Places(k) : Passed(p, n, a) /\ list[i] = SentAt(k, a)
    BY <1>3
  <2> QED
    BY <1>2, <1>3, <2>1, <2>2
<1> QED
  BY <1>1, <1>4, <1>5

LEMMA LastFigType ==
    ASSUME IInv, NEW k \in Kinds, Schedule[k] # <<>>
    PROVE  /\ LastFig(k) \in 1..Len(Schedule[k])
           /\ at[k] = IF LastFig(k) = Len(Schedule[k]) THEN 1 ELSE LastFig(k) + 1
<1>1. Len(Schedule[k]) \in Nat
  BY ScheduleFacts
<1>2. at[k] \in 1..Len(Schedule[k])
  BY DEF IInv, OnSchedule
<1> QED
  BY <1>1, <1>2 DEF LastFig

LEMMA FollowingFig ==
    ASSUME IInv, NEW k \in Kinds, Schedule[k] # <<>>,
           at' = [at EXCEPT ![k] = Following(k)]
    PROVE  /\ LastFig(k)' = at[k]
           /\ at'[k] = IF at[k] = Len(Schedule[k]) THEN 1 ELSE at[k] + 1
<1>1. Len(Schedule[k]) \in Nat
  BY ScheduleFacts
<1>2. at[k] \in 1..Len(Schedule[k])
  BY DEF IInv, OnSchedule
<1>3. at'[k] = Following(k)
  BY DEF IInv, SinkTypeOK
<1> QED
  BY <1>1, <1>2, <1>3 DEF LastFig, Following

\* A FIB that is read takes no kind further.
LEMMA GoodInOrder ==
    ASSUME IInv, NEW kind \in Kinds, GoodFib(kind)
    PROVE  /\ TodoInOrder'
           /\ \A k \in Kinds : Clear(k) =>
                 \A p, r \in Places(k) :
                    Passed(p, NextPlace(k)', r) <=> Passed(p, NextPlace(k), r)
<1> DEFINE f == at[kind]
           fig == Schedule[kind][f]
<1>1. /\ todo = <<>> /\ Schedule[kind] # <<>>
      /\ at' = [at EXCEPT ![kind] = Following(kind)]
  BY DEF GoodFib, Idle
<1>2. f \in 1..Len(Schedule[kind])
  BY <1>1, FollowingType
<1>3. PICK r \in Readings(kind, fig) :
         todo' = [i \in 1..Len(r) |-> [kind |-> kind, sent |-> r[i]]]
  BY DEF GoodFib
<1>4. Len(r) \in Nat /\ Len(fig) \in Nat
  BY <1>2, ReadingsType, ScheduleFacts
<1>5. Len(todo') = Len(r)
  BY <1>3, <1>4
<1>6. Clear(kind) => r = fig
  BY <1>2, <1>3, ClearReading
<1>7. /\ LastFig(kind)' = f
      /\ at'[kind] = IF f = Len(Schedule[kind]) THEN 1 ELSE f + 1
  BY <1>1, FollowingFig
<1>8. Len(r) = 0 \/ 1 \in 1..Len(r)
  BY <1>4
<1>9. todo' # <<>> => Len(r) # 0 /\ todo'[1].kind = kind
  BY <1>3, <1>4, <1>8
<1>10. todo' = <<>> => Len(r) = 0
  BY <1>5
<1> HIDE DEF f
<1>11. TodoInOrder'
  <2> SUFFICES ASSUME todo' # <<>>
               PROVE  /\ Schedule[kind] # <<>>
                      /\ \A i \in 1..Len(todo') : todo'[i].kind = kind
                      /\ Clear(kind) =>
                           /\ Len(todo') <= Len(fig)
                           /\ \A i \in 1..Len(todo') :
                                 todo'[i].sent = fig[Len(fig) - Len(todo') + i]
    BY <1>7, <1>9 DEF TodoInOrder
  <2>1. \A i \in 1..Len(todo') : todo'[i].kind = kind /\ todo'[i].sent = r[i]
    BY <1>3, <1>5
  <2>2. ASSUME Clear(kind)
        PROVE  /\ Len(todo') <= Len(fig)
               /\ \A i \in 1..Len(todo') :
                     todo'[i].sent = fig[Len(fig) - Len(todo') + i]
    <3> HIDE DEF fig
    <3>1. \A i \in 1..Len(fig) : Len(fig) - Len(fig) + i = i
      BY <1>4
    <3> QED
      BY <1>4, <1>5, <1>6, <2>1, <2>2, <3>1
  <2> QED
    BY <1>1, <2>1, <2>2
<1>12. ASSUME NEW k \in Kinds, Clear(k), NEW p \in Places(k), NEW q \in Places(k)
       PROVE  Passed(p, NextPlace(k)', q) <=> Passed(p, NextPlace(k), q)
  <2>1. NextPlace(k) = <<at[k], 1>>
    BY <1>1 DEF NextPlace
  <2>2. CASE k # kind
    <3>1. NextPlace(k)' = <<at'[k], 1>>
      BY <1>9, <2>2 DEF NextPlace
    <3>2. at'[k] = at[k]
      BY <1>1, <2>2 DEF IInv, SinkTypeOK
    <3> QED
      BY <2>1, <3>1, <3>2
  <2>3. CASE k = kind /\ todo' # <<>>
    <3>1. NextPlace(k)' = <<f, Len(fig) - Len(todo') + 1>>
      BY <1>7, <1>9, <2>3 DEF NextPlace
    <3>2. Len(fig) - Len(todo') + 1 = 1
      BY <1>4, <1>5, <1>6, <1>12, <2>3
    <3> QED
      BY <2>1, <2>3, <3>1, <3>2 DEF f
  <2>4. CASE k = kind /\ todo' = <<>>
    <3>1. NextPlace(k)' = <<at'[k], 1>>
      BY <2>4 DEF NextPlace
    <3>2. Len(fig) = 0
      BY <1>6, <1>10, <1>12, <2>4
    <3>3. Passed(p, <<at'[k], 1>>, q) <=> Passed(p, <<f, Len(Schedule[k][f]) + 1>>, q)
      BY <1>2, <1>7, <2>4, PassedFig
    <3>4. <<f, Len(Schedule[k][f]) + 1>> = <<at[k], 1>>
      BY <2>4, <3>2 DEF f
    <3> QED
      BY <2>1, <3>1, <3>3, <3>4
  <2> QED
    BY <2>2, <2>3, <2>4
<1> QED
  BY <1>11, <1>12

\* An entry that is recorded takes its kind one place further, and no other.
LEMMA RecordInOrder ==
    ASSUME IInv, TodoInOrder, RecordEntry, NEW kind, kind = Head(todo).kind
    PROVE  /\ TodoInOrder'
           /\ \A k \in Kinds \ {kind} : NextPlace(k)' = NextPlace(k)
           /\ Clear(kind) =>
                 \E f \in 1..Len(Schedule[kind]) : \E m \in 1..Len(Schedule[kind][f]) :
                    /\ NextPlace(kind) = <<f, m>>
                    /\ Head(todo).sent = Schedule[kind][f][m]
                    /\ \A p, r \in Places(kind) :
                          Passed(p, NextPlace(kind)', r) <=> Passed(p, <<f, m + 1>>, r)
<1> DEFINE f == LastFig(kind)
           fig == Schedule[kind][f]
           m == Len(fig) - Len(todo) + 1
<1>1. /\ todo \in Seq([kind : Kinds, sent : Read]) /\ todo # <<>>
      /\ todo' = Tail(todo) /\ at' = at
  BY DEF IInv, SinkTypeOK, RecordEntry, air
<1>2. /\ Len(todo) \in Nat /\ Len(todo) >= 1 /\ Len(todo') = Len(todo) - 1
      /\ \A i \in 1..Len(todo') : todo'[i] = todo[i + 1]
      /\ Head(todo) = todo[1] /\ 1 \in 1..Len(todo)
  BY <1>1, HeadTailProperties
<1>3. kind \in Kinds
  BY TodoInvariant
<1>4. /\ Schedule[kind] # <<>>
      /\ \A i \in 1..Len(todo) : todo[i].kind = kind
      /\ Clear(kind) => /\ Len(todo) <= Len(fig)
                        /\ \A i \in 1..Len(todo) :
                              todo[i].sent = fig[Len(fig) - Len(todo) + i]
  BY <1>1, <1>2 DEF TodoInOrder
<1>5. /\ f \in 1..Len(Schedule[kind])
      /\ at[kind] = IF f = Len(Schedule[kind]) THEN 1 ELSE f + 1
  BY <1>3, <1>4, LastFigType
<1>6. Len(fig) \in Nat
  BY <1>3, <1>5, ScheduleFacts
<1>7. LastFig(kind)' = f
  BY <1>1 DEF LastFig
<1>8. \A i \in 1..Len(todo') : i + 1 \in 1..Len(todo)
  BY <1>2
<1>9. todo' # <<>> => todo'[1].kind = kind
  BY <1>1, <1>2, <1>4, <1>8
<1> HIDE DEF f
<1>10. TodoInOrder'
  <2> SUFFICES ASSUME todo' # <<>>
               PROVE  /\ Schedule[kind] # <<>>
                      /\ \A i \in 1..Len(todo') : todo'[i].kind = kind
                      /\ Clear(kind) =>
                           /\ Len(todo') <= Len(fig)
                           /\ \A i \in 1..Len(todo') :
                                 todo'[i].sent = fig[Len(fig) - Len(todo') + i]
    BY <1>7, <1>9 DEF TodoInOrder
  <2>1. \A i \in 1..Len(todo') : todo'[i].kind = kind
    BY <1>2, <1>4, <1>8
  <2>2. ASSUME Clear(kind)
        PROVE  /\ Len(todo') <= Len(fig)
               /\ \A i \in 1..Len(todo') :
                     todo'[i].sent = fig[Len(fig) - Len(todo') + i]
    <3> HIDE DEF fig
    <3>1. Len(todo') <= Len(fig)
      BY <1>2, <1>4, <1>6, <2>2
    <3>2. \A i \in 1..Len(todo') :
             Len(fig) - Len(todo) + (i + 1) = Len(fig) - Len(todo') + i
      BY <1>2, <1>6
    <3>3. \A i \in 1..Len(todo') :
             todo'[i].sent = fig[Len(fig) - Len(todo) + (i + 1)]
      BY <1>2, <1>4, <1>8, <2>2
    <3> QED
      BY <3>1, <3>2, <3>3
  <2> QED
    BY <1>4, <2>1, <2>2
<1>11. ASSUME NEW k \in Kinds \ {kind}
       PROVE  NextPlace(k)' = NextPlace(k)
  BY <1>1, <1>2, <1>9 DEF NextPlace
<1>12. ASSUME Clear(kind)
       PROVE  /\ m \in 1..Len(fig) /\ NextPlace(kind) = <<f, m>>
              /\ Head(todo).sent = fig[m]
              /\ \A p, r \in Places(kind) :
                    Passed(p, NextPlace(kind)', r) <=> Passed(p, <<f, m + 1>>, r)
  <2>1. Len(todo) <= Len(fig)
    BY <1>4, <1>12
  <2>2. m \in 1..Len(fig)
    <3> HIDE DEF fig
    <3> QED
      BY <1>2, <1>6, <2>1
  <2>3. NextPlace(kind) = <<f, m>>
    BY <1>1, <1>2 DEF NextPlace, f
  <2>4. Head(todo).sent = fig[m]
    BY <1>2, <1>4, <1>12
  <2>5. ASSUME NEW p \in Places(kind), NEW r \in Places(kind)
        PROVE  Passed(p, NextPlace(kind)', r) <=> Passed(p, <<f, m + 1>>, r)
    <3>1. CASE todo' # <<>>
      <4>1. NextPlace(kind)' = <<f, Len(fig) - Len(todo') + 1>>
        BY <1>7, <1>9, <3>1 DEF NextPlace
      <4>2. Len(fig) - Len(todo') + 1 = m + 1
        <5> HIDE DEF fig
        <5> QED
          BY <1>2, <1>6
      <4> QED
        BY <4>1, <4>2
    <3>2. CASE todo' = <<>>
      <4>1. NextPlace(kind)' = <<at[kind], 1>>
        BY <1>1, <3>2 DEF NextPlace
      <4>2. Len(todo) = 1
        BY <1>2, <3>2
      <4>3. m + 1 = Len(fig) + 1
        <5> HIDE DEF fig
        <5> QED
          BY <1>6, <4>2
      <4> QED
        BY <1>3, <1>5, <4>1, <4>3, PassedFig
    <3> QED
      BY <3>1, <3>2
  <2> QED
    BY <2>2, <2>3, <2>4, <2>5
<1> QED
  BY <1>5, <1>10, <1>11, <1>12

\* Steps that leave a kind's list alone keep what is known of it.
LEMMA CollectsKept ==
    ASSUME NEW k \in Kinds, CollectsAll(k),
           current'[k] = current[k], trigger'[k] = trigger[k], missed'[k] = missed[k],
           publishing' # k => publishing # k,
           Clear(k) => \A p, r \in Places(k) :
                          Passed(p, NextPlace(k)', r) <=> Passed(p, NextPlace(k), r)
    PROVE  CollectsAll(k)'
<1> SUFFICES ASSUME Clear(k), trigger'[k] # None, ~missed'[k], publishing' # k
             PROVE  \E p \in Places(k) : CollectedSince(k, p)'
  BY DEF CollectsAll, Clear, Unmixed, Places, SentAt
<1>1. PICK p \in Places(k) : CollectedSince(k, p)
  BY DEF CollectsAll
<1>2. {r \in Places(k) : Passed(p, NextPlace(k)', r)} =
         {r \in Places(k) : Passed(p, NextPlace(k), r)}
  OBVIOUS
<1>3. CollectedSince(k, p)'
  <2>1. /\ Distinct(current[k])' <=> Distinct(current[k])
        /\ InOrderFrom(k, p, current[k])' <=> InOrderFrom(k, p, current[k])
    BY DEF Distinct, InOrderFrom, Passed, Before, Places, SentAt
  <2>2. {current'[k][i] : i \in 1..Len(current'[k])} =
           {current[k][i] : i \in 1..Len(current[k])}
    OBVIOUS
  <2>3. /\ SentAt(k, p).key = trigger'[k]
        /\ {current'[k][i] : i \in 1..Len(current'[k])} =
              {SentAt(k, q) : q \in {r \in Places(k) : Passed(p, NextPlace(k)', r)}}
    BY <1>1, <1>2, <2>2 DEF CollectedSince
  <2> QED
    BY <1>1, <2>1, <2>3 DEF CollectedSince
<1> QED
  BY <1>3

LEMMA WholeKept ==
    ASSUME NEW k \in Kinds, CompleteLists, json'[k] = json[k], whole'[k] = whole[k]
    PROVE  whole'[k] /\ Clear(k) => WholeRound(k)'
<1>1. /\ Distinct(json[k])' <=> Distinct(json[k])
      /\ \A p : InOrderFrom(k, p, json[k])' <=> InOrderFrom(k, p, json[k])
  BY DEF Distinct, InOrderFrom, Passed, Before, Places, SentAt
<1>2. WholeRound(k)' <=> WholeRound(k)
  BY <1>1 DEF WholeRound, Places, SentAt
<1> QED
  BY <1>2 DEF CompleteLists

\* The entry at a place of the schedule is collected.
LEMMA CollectsNext ==
    ASSUME IInv, NEW k \in Kinds, Clear(k), CollectsAll(k), ~missed[k], publishing # k,
           NEW n \in Places(k), NextPlace(k) = n, Collect(k, SentAt(k, n)),
           \A p, r \in Places(k) :
              Passed(p, NextPlace(k)', r) <=> Passed(p, <<n[1], n[2] + 1>>, r)
    PROVE  /\ SentAt(k, n).key # trigger[k] => CollectsAll(k)'
           /\ SentAt(k, n).key = trigger[k] => WholeRound(k)'
<1> DEFINE e == SentAt(k, n)
           f == n[1]
           m == n[2]
           longer == Append(current[k], e)
           since == {current[k][i] : i \in 1..Len(current[k])}
<1>1. trigger[k] # None /\ trigger' = trigger /\ missed' = missed
  BY DEF Collect
<1>2. PICK p \in Places(k) : CollectedSince(k, p)
  BY <1>1 DEF CollectsAll
<1>3. /\ SentAt(k, p).key = trigger[k] /\ Distinct(current[k])
      /\ InOrderFrom(k, p, current[k])
      /\ since = {SentAt(k, q) : q \in {r \in Places(k) : Passed(p, n, r)}}
  BY <1>2 DEF CollectedSince
<1>4. /\ n = <<f, m>> /\ f \in 1..Len(Schedule[k]) /\ m \in 1..Len(Schedule[k][f])
  BY PlaceFacts
<1>5. \A a, b \in Places(k) : SentAt(k, a).key = SentAt(k, b).key => a = b
  BY DEF Clear
<1>6. \A r \in Places(k) :
         /\ p # n => (Passed(p, <<f, m + 1>>, r) <=> Passed(p, n, r) \/ r = n)
         /\ p # n => ~Passed(p, n, n)
         /\ Passed(p, p, r) <=> r # p
  BY <1>4, PassedNext
<1>7. current[k] \in Seq(Entry)
  BY DEF IInv, SinkTypeOK
<1>8. Len(current[k]) \in Nat /\ \A i \in 1..Len(current[k]) : current[k][i] \in since
  BY <1>7
<1>9. ~Passed(p, n, n)
  BY <1>6
<1> HIDE DEF e, f, m, since
<1>10. \A i \in 1..Len(current[k]) : current[k][i].key # e.key
  <2> SUFFICES ASSUME NEW i \in 1..Len(current[k]), current[k][i].key = e.key
               PROVE  FALSE
    OBVIOUS
  <2>1. PICK q \in Places(k) : Passed(p, n, q) /\ current[k][i] = SentAt(k, q)
    BY <1>3, <1>8
  <2> QED
    BY <1>5, <1>9, <2>1 DEF e
<1>11. e \in Entry
  <2>1. e = Plain(Schedule[k][f][m])
    BY DEF e, f, m, SentAt
  <2> QED
    BY <1>4, <2>1, ScheduleFacts DEF Plain, Sent, Entry
<1>12. /\ {longer[i] : i \in 1..Len(longer)} = since \cup {e}
       /\ Distinct(longer)
       /\ InOrderFrom(k, p, longer)
  <2>1. PICK list \in Seq(Entry) : list = current[k]
    BY <1>7
  <2>2. Distinct(list) /\ \A i \in 1..Len(list) : list[i].key # e.key
    BY <1>3, <1>10, <2>1
  <2>3. /\ {Append(list, e)[i] : i \in 1..Len(Append(list, e))} =
              {list[i] : i \in 1..Len(list)} \cup {e}
        /\ Distinct(Append(list, e))
    BY <1>11, <2>2, AppendDistinct
  <2>4. /\ InOrderFrom(k, p, list)
        /\ {list[i] : i \in 1..Len(list)} =
              {SentAt(k, q) : q \in {r \in Places(k) : Passed(p, n, r)}}
    BY <1>3, <2>1 DEF since
  <2>5. InOrderFrom(k, p, Append(list, e))
    BY <2>4, AppendInOrder DEF e
  <2> QED
    BY <2>1, <2>3, <2>5 DEF since
<1> HIDE DEF longer
<1>13. ASSUME e.key # trigger[k]
       PROVE  CollectsAll(k)'
  <2>1. current'[k] = longer
    BY <1>13 DEF Collect, e, longer, IInv, SinkTypeOK
  <2>2. p # n
    BY <1>3, <1>13 DEF e
  <2>3. {r \in Places(k) : Passed(p, NextPlace(k)', r)} =
           {r \in Places(k) : Passed(p, n, r)} \cup {n}
    BY <1>6, <2>2 DEF f, m
  <2>4. since \cup {e} =
           {SentAt(k, q) : q \in {r \in Places(k) : Passed(p, NextPlace(k)', r)}}
    BY <1>3, <2>3 DEF e
  <2>5. CollectedSince(k, p)'
    BY <1>1, <1>3, <1>12, <2>1, <2>4 DEF CollectedSince
  <2>6. \E q \in Places(k) : CollectedSince(k, q)'
    BY <2>5
  <2> QED
    BY <2>6 DEF CollectsAll
<1>14. ASSUME e.key = trigger[k]
       PROVE  WholeRound(k)'
  <2>1. json'[k] = longer
    BY <1>14 DEF Collect, e, longer, IInv, SinkTypeOK
  <2>2. p = n
    BY <1>3, <1>5, <1>14 DEF e
  <2>3. since = {SentAt(k, q) : q \in Places(k) \ {n}}
    BY <1>3, <1>6, <2>2
  <2>4. since \cup {e} = {SentAt(k, q) : q \in Places(k)}
    BY <2>3 DEF e
  <2> QED
    BY <1>12, <2>1, <2>4 DEF WholeRound
<1> QED
  BY <1>13, <1>14 DEF e

LEMMA TriggerNext ==
    ASSUME IInv, NEW k \in Kinds, NEW n \in Places(k), SetTrigger(k, SentAt(k, n)),
           \A p, r \in Places(k) :
              Passed(p, NextPlace(k)', r) <=> Passed(p, <<n[1], n[2] + 1>>, r)
    PROVE  CollectsAll(k)'
<1>1. current'[k] = <<>> /\ trigger'[k] = SentAt(k, n).key
  BY DEF IInv, SinkTypeOK, SetTrigger
<1>2. \A r \in Places(k) : ~Passed(n, <<n[1], n[2] + 1>>, r)
  BY PlaceFacts, PassedNext
<1>3. {r \in Places(k) : Passed(n, NextPlace(k)', r)} = {}
  BY <1>2
<1>4. CollectedSince(k, n)'
  BY <1>1, <1>3 DEF CollectedSince, Distinct, InOrderFrom
<1>5. \E p \in Places(k) : CollectedSince(k, p)'
  BY <1>4
<1> QED
  BY <1>5 DEF CollectsAll

LEMMA CompleteStarts == SinkInit => CompleteInv
  BY DEF SinkInit, CompleteInv, TodoInOrder, CompleteLists, CollectsAll

LEMMA TodoKept ==
    ASSUME TodoInOrder, todo' = todo, at' = at
    PROVE  TodoInOrder'
<1>1. \A k : LastFig(k)' = LastFig(k)
  BY DEF LastFig
<1> QED
  BY <1>1 DEF TodoInOrder

LEMMA CompleteAir ==
    ASSUME IInv, CompleteInv, NEW kind \in Kinds, DamagedFib(kind) \/ GoodFib(kind)
    PROVE  CompleteInv'
<1>1. /\ trigger' = trigger /\ current' = current /\ json' = json
      /\ publishing' = publishing /\ whole' = whole /\ todo = <<>>
  BY DEF DamagedFib, GoodFib, Idle, lists, history
<1>2. CompleteLists'
  <2> SUFFICES ASSUME NEW k \in Kinds
               PROVE  whole'[k] /\ Clear(k) => WholeRound(k)'
    BY DEF CompleteLists, Clear, Unmixed, Places, SentAt
  <2> QED
    BY <1>1, WholeKept DEF CompleteInv
<1>3. CASE GoodFib(kind)
  <2>1. missed' = missed
    BY <1>3 DEF GoodFib, history
  <2>2. TodoInOrder'
    BY <1>3, GoodInOrder
  <2>3. ASSUME NEW k \in Kinds
        PROVE  CollectsAll(k)'
    <3>1. Clear(k) => \A p, r \in Places(k) :
                         Passed(p, NextPlace(k)', r) <=> Passed(p, NextPlace(k), r)
      BY <1>3, GoodInOrder
    <3> QED
      BY <1>1, <2>1, <3>1, CollectsKept DEF CompleteInv
  <2> QED
    BY <1>2, <2>2, <2>3 DEF CompleteInv
<1>4. CASE DamagedFib(kind)
  <2>1. /\ missed' = [missed EXCEPT ![kind] = TRUE] /\ todo' = <<>>
        /\ at' = [at EXCEPT ![kind] = Following(kind)]
    BY <1>1, <1>4 DEF DamagedFib
  <2>2. ASSUME NEW k \in Kinds
        PROVE  CollectsAll(k)'
    <3>1. CASE k = kind
      <4>1. missed'[k] = TRUE
        BY <2>1, <3>1 DEF IInv, SinkTypeOK
      <4> QED
        BY <4>1 DEF CollectsAll
    <3>2. CASE k # kind
      <4>1. at'[k] = at[k] /\ missed'[k] = missed[k]
        BY <2>1, <3>2 DEF IInv, SinkTypeOK
      <4>2. NextPlace(k)' = NextPlace(k)
        BY <1>1, <2>1, <4>1 DEF NextPlace
      <4> QED
        BY <1>1, <4>1, <4>2, CollectsKept DEF CompleteInv
    <3> QED
      BY <3>1, <3>2
  <2>3. TodoInOrder'
    BY <2>1 DEF TodoInOrder
  <2> QED
    BY <1>2, <2>2, <2>3 DEF CompleteInv
<1> QED
  BY <1>3, <1>4

LEMMA CompleteRecord ==
    ASSUME IInv, CompleteInv, RecordEntry
    PROVE  CompleteInv'
<1>1. PICK kind : kind = Head(todo).kind
  OBVIOUS
<1>2. PICK sent : sent = Head(todo).sent
  OBVIOUS
<1>3. kind \in Kinds /\ publishing = None
  BY <1>1, TodoInvariant DEF RecordEntry
<1>4. TodoInOrder /\ CompleteLists /\ \A k \in Kinds : CollectsAll(k)
  BY DEF CompleteInv
<1>5. /\ TodoInOrder'
      /\ \A k \in Kinds \ {kind} : NextPlace(k)' = NextPlace(k)
      /\ Clear(kind) =>
            \E f \in 1..Len(Schedule[kind]) : \E m \in 1..Len(Schedule[kind][f]) :
               /\ NextPlace(kind) = <<f, m>>
               /\ Head(todo).sent = Schedule[kind][f][m]
               /\ \A p, r \in Places(kind) :
                     Passed(p, NextPlace(kind)', r) <=> Passed(p, <<f, m + 1>>, r)
  BY <1>1, <1>4, RecordInOrder
<1>6. \/ Recorded(sent) /\ SetTrigger(kind, Plain(sent))
      \/ Recorded(sent) /\ Collect(kind, Plain(sent))
      \/ ~Recorded(sent) /\ UNCHANGED <<lists, history>>
  BY <1>1, <1>2 DEF RecordEntry
<1>7. \A k \in Kinds \ {kind} : /\ current'[k] = current[k] /\ trigger'[k] = trigger[k]
                                /\ missed'[k] = missed[k] /\ json'[k] = json[k]
                                /\ whole'[k] = whole[k] /\ publishing # k
  BY <1>3, <1>6, NoListAssumption
     DEF SetTrigger, Collect, lists, history, IInv, SinkTypeOK
<1>8. ASSUME NEW k \in Kinds \ {kind}
      PROVE  CollectsAll(k)' /\ (whole'[k] /\ Clear(k) => WholeRound(k)')
  <2>1. CollectsAll(k)'
    BY <1>4, <1>5, <1>7, CollectsKept
  <2> QED
    BY <1>4, <1>7, <2>1, WholeKept
<1>9. ASSUME Clear(kind)
      PROVE  CollectsAll(kind)' /\ (whole'[kind] => WholeRound(kind)')
  <2>0. PICK f \in 1..Len(Schedule[kind]) : \E m \in 1..Len(Schedule[kind][f]) :
           /\ NextPlace(kind) = <<f, m>>
           /\ sent = Schedule[kind][f][m]
           /\ \A p, r \in Places(kind) :
                 Passed(p, NextPlace(kind)', r) <=> Passed(p, <<f, m + 1>>, r)
    BY <1>2, <1>5, <1>9
  <2>1. PICK m \in 1..Len(Schedule[kind][f]) :
           /\ NextPlace(kind) = <<f, m>>
           /\ sent = Schedule[kind][f][m]
           /\ \A p, r \in Places(kind) :
                 Passed(p, NextPlace(kind)', r) <=> Passed(p, <<f, m + 1>>, r)
    BY <2>0
  <2>2. PICK n : n = <<f, m>>
    OBVIOUS
  <2>3. n[1] = f /\ n[2] = m
    BY <2>2
  <2>4. Plain(sent) = SentAt(kind, n)
    BY <2>1, <2>3 DEF SentAt
  <2>5. Recorded(sent) => n \in Places(kind)
    BY <1>3, <2>1, <2>2, PlaceFacts
  <2>6. CASE Recorded(sent) /\ SetTrigger(kind, Plain(sent))
    <3>1. CollectsAll(kind)'
      BY <1>3, <2>1, <2>3, <2>4, <2>5, <2>6, TriggerNext
    <3>2. json' = json /\ whole' = whole
      BY <2>6 DEF SetTrigger
    <3> QED
      BY <1>3, <1>4, <1>9, <3>1, <3>2, WholeKept
  <2>7. CASE Recorded(sent) /\ Collect(kind, Plain(sent))
    <3>1. n \in Places(kind) /\ Collect(kind, SentAt(kind, n)) /\ NextPlace(kind) = n
      BY <2>1, <2>2, <2>4, <2>5, <2>7
    <3>2. publishing # kind
      BY <1>3, NoListAssumption
    <3>3. CASE missed[kind]
      <4>1. missed' = missed
        BY <2>7 DEF Collect
      <4>2. CollectsAll(kind)'
        BY <3>3, <4>1 DEF CollectsAll
      <4>3. \/ json' = json /\ whole' = whole
            \/ whole' = [whole EXCEPT ![kind] = FALSE]
        BY <2>7, <3>3 DEF Collect
      <4>4. CASE json' = json /\ whole' = whole
        BY <1>3, <1>4, <1>9, <4>2, <4>4, WholeKept
      <4>5. CASE whole' = [whole EXCEPT ![kind] = FALSE]
        BY <1>3, <4>2, <4>5 DEF IInv, SinkTypeOK
      <4> QED
        BY <4>3, <4>4, <4>5
    <3>4. CASE ~missed[kind]
      <4>1. /\ SentAt(kind, n).key # trigger[kind] => CollectsAll(kind)'
            /\ SentAt(kind, n).key = trigger[kind] => WholeRound(kind)'
        BY <1>3, <1>4, <1>9, <2>1, <2>3, <3>1, <3>2, <3>4, CollectsNext
      <4>2. CASE SentAt(kind, n).key = trigger[kind]
        <5>1. publishing' = kind
          BY <3>1, <4>2 DEF Collect
        <5>2. CollectsAll(kind)'
          BY <5>1 DEF CollectsAll
        <5> QED
          BY <4>1, <4>2, <5>2
      <4>3. CASE SentAt(kind, n).key # trigger[kind]
        <5>1. json' = json /\ whole' = whole
          BY <3>1, <4>3 DEF Collect
        <5> QED
          BY <1>3, <1>4, <1>9, <4>1, <4>3, <5>1, WholeKept
      <4> QED
        BY <4>2, <4>3
    <3> QED
      BY <3>3, <3>4
  <2>8. CASE ~Recorded(sent) /\ UNCHANGED <<lists, history>>
    <3>1. /\ current' = current /\ trigger' = trigger /\ missed' = missed
          /\ publishing' = publishing /\ json' = json /\ whole' = whole
      BY <2>8 DEF lists, history
    <3>2. n \notin Places(kind)
      BY <1>3, <2>1, <2>3, <2>8, PlaceFacts
    <3>3. \A p, r \in Places(kind) :
             Passed(p, NextPlace(kind)', r) <=> Passed(p, NextPlace(kind), r)
      <4> SUFFICES ASSUME NEW p \in Places(kind), NEW r \in Places(kind)
                   PROVE  Passed(p, NextPlace(kind)', r) <=> Passed(p, NextPlace(kind), r)
        OBVIOUS
      <4>1. p # <<f, m>> /\ r # <<f, m>>
        BY <2>2, <3>2
      <4>2. Passed(p, <<f, m + 1>>, r) <=> Passed(p, <<f, m>>, r)
        BY <1>3, <4>1, PassedNext
      <4> QED
        BY <2>1, <4>2
    <3>4. CollectsAll(kind)'
      BY <1>3, <1>4, <3>1, <3>3, CollectsKept
    <3> QED
      BY <1>3, <1>4, <1>9, <3>1, <3>4, WholeKept
  <2> QED
    BY <1>6, <2>6, <2>7, <2>8
<1>10. \A k \in Kinds : CollectsAll(k)'
  <2>1. ~Clear(kind) => CollectsAll(kind)'
    BY DEF CollectsAll, Clear, Unmixed, Places, SentAt
  <2> QED
    BY <1>8, <1>9, <2>1
<1>11. CompleteLists'
  <2>1. \A k \in Kinds : whole'[k] /\ Clear(k) => WholeRound(k)'
    BY <1>8, <1>9
  <2> QED
    BY <2>1 DEF CompleteLists, Clear, Unmixed, Places, SentAt
<1> QED
  BY <1>5, <1>10, <1>11 DEF CompleteInv

LEMMA CompleteOpen ==
    ASSUME IInv, CompleteInv, OpenList
    PROVE  CompleteInv'
<1>1. /\ publishing \in Kinds /\ publishing' = None
      /\ trigger' = [trigger EXCEPT ![publishing] = None]
      /\ at' = at /\ todo' = todo /\ current' = current /\ json' = json
      /\ missed' = missed /\ whole' = whole
  BY DEF OpenList, air, history, IInv, SinkTypeOK
<1>2. TodoInOrder /\ CompleteLists /\ \A k \in Kinds : CollectsAll(k)
  BY DEF CompleteInv
<1>3. ASSUME NEW k \in Kinds
      PROVE  CollectsAll(k)' /\ (whole'[k] /\ Clear(k) => WholeRound(k)')
  <2>1. NextPlace(k)' = NextPlace(k)
    BY <1>1 DEF NextPlace, LastFig
  <2>2. CASE k = publishing
    <3>1. trigger'[k] = None
      BY <1>1, <2>2 DEF IInv, SinkTypeOK
    <3>2. CollectsAll(k)'
      BY <3>1 DEF CollectsAll
    <3> QED
      BY <1>1, <1>2, <3>2, WholeKept
  <2>3. CASE k # publishing
    <3>1. trigger'[k] = trigger[k]
      BY <1>1, <2>3 DEF IInv, SinkTypeOK
    <3>2. CollectsAll(k)'
      BY <1>1, <1>2, <2>1, <2>3, <3>1, CollectsKept
    <3> QED
      BY <1>1, <1>2, <3>2, WholeKept
  <2> QED
    BY <2>2, <2>3
<1>4. TodoInOrder'
  BY <1>1, <1>2, TodoKept
<1>5. CompleteLists'
  BY <1>3 DEF CompleteLists, Clear, Unmixed, Places, SentAt
<1> QED
  BY <1>3, <1>4, <1>5 DEF CompleteInv

LEMMA CompleteStep == IInv /\ CompleteInv /\ [SinkNext]_sinkVars => CompleteInv'
<1> SUFFICES ASSUME IInv, CompleteInv, [SinkNext]_sinkVars
             PROVE  CompleteInv'
  OBVIOUS
<1>1. CASE UNCHANGED sinkVars
  <2>1. /\ current' = current /\ trigger' = trigger /\ missed' = missed
        /\ publishing' = publishing /\ json' = json /\ whole' = whole
        /\ at' = at /\ todo' = todo
    BY <1>1 DEF sinkVars, air, lists, history
  <2>2. TodoInOrder /\ CompleteLists /\ \A k \in Kinds : CollectsAll(k)
    BY DEF CompleteInv
  <2>3. TodoInOrder'
    BY <2>1, <2>2, TodoKept
  <2>4. CompleteLists'
    <3>1. \A k \in Kinds : WholeRound(k)' <=> WholeRound(k)
      BY <2>1 DEF WholeRound, Distinct, InOrderFrom, Passed, Before,
                   Places, SentAt
    <3>2. \A k \in Kinds : Clear(k)' <=> Clear(k)
      BY DEF Clear, Unmixed, Places, SentAt
    <3> QED
      BY <2>1, <2>2, <3>1, <3>2 DEF CompleteLists
  <2>5. ASSUME NEW k \in Kinds
        PROVE  CollectsAll(k)'
    <3>1. NextPlace(k)' = NextPlace(k)
      BY <2>1 DEF NextPlace, LastFig
    <3> QED
      BY <2>1, <2>2, <3>1, CollectsKept
  <2> QED
    BY <2>3, <2>4, <2>5 DEF CompleteInv
<1> QED
  BY <1>1, CompleteAir, CompleteRecord, CompleteOpen DEF SinkNext

\* When no FIB of a kind was damaged while its list was collected, the list has
\* every entry that the multiplexer sends of the kind, none twice, and in the
\* order in which they are sent, whatever FIGs the multiplexer spreads them over
\* and wherever the collection began.
THEOREM ListsAreComplete == SinkSpec => []CompleteLists
<1>1. SinkSpec => [](IInv /\ CompleteInv)
  BY InitInvariant, StepInvariant, CompleteStarts, CompleteStep, PTL DEF SinkSpec
<1>2. CompleteInv => CompleteLists
  BY DEF CompleteInv
<1> QED
  BY <1>1, <1>2, PTL

-----------------------------------------------------------------------------
(* grdab info: what the lists' entries are merged into *)

LEMMA InsertFacts ==
    ASSUME channels \in Seq(Refs), IsInjective(channels), NEW refs \in Seq(Refs)
    PROVE  /\ Insert(refs) \in Seq(Refs) /\ IsInjective(Insert(refs))
           /\ Range(Insert(refs)) = Range(channels) \cup Range(refs)
<1> DEFINE N == Len(refs)
           Longer(seq, r) == IF r \in Range(seq) THEN seq ELSE Append(seq, r)
           step == [p \in (1..N) \X Seq(Refs) |-> Longer(p[2], refs[p[1]])]
           After(g) == [n \in 0..N |-> IF n = 0 THEN channels
                                       ELSE Longer(g[n - 1], refs[n])]
<1>1. N \in Nat /\ \A n \in 1..N : refs[n] \in Refs
  BY LenProperties, ElementOfSeq
<1>2. \A seq \in Seq(Refs), r \in Refs : Longer(seq, r) \in Seq(Refs)
  BY AppendProperties
<1>3. step \in [(1..N) \X Seq(Refs) -> Seq(Refs)]
  <2> HIDE DEF Longer
  <2> QED
    BY <1>1, <1>2
<1>4. PICK g \in [0..N -> Seq(Refs)] :
         g[0] = channels /\ \A n \in 1..N : g[n] = step[<<n, g[n - 1]>>]
  <2>1. \E S, M, do : S = Seq(Refs) /\ M = N /\ do = step
    OBVIOUS
  <2>2. PICK S, M, do : S = Seq(Refs) /\ M = N /\ do = step
    BY <2>1
  <2>3. channels \in S /\ M \in Nat
    BY <1>1, <2>2
  <2>4. do \in [(1..M) \X S -> S]
    BY <1>3, <2>2
  <2> HIDE DEF step, N
  <2>5. \E g \in [0..M -> S] : Recursive(g, channels, M, do)
    BY <2>3, <2>4, Recursion
  <2> QED
    BY <2>2, <2>5 DEF Recursive
<1>5. g = After(g)
  <2> HIDE DEF Longer
  <2>1. \A n \in 1..N : g[n] = Longer(g[n - 1], refs[n])
    <3> SUFFICES ASSUME NEW n \in 1..N
                 PROVE  g[n] = Longer(g[n - 1], refs[n])
      OBVIOUS
    <3>1. n - 1 \in 0..N
      BY <1>1
    <3>2. g[n - 1] \in Seq(Refs)
      BY <1>4, <3>1
    <3> QED
      BY <1>4, <3>2
  <2>2. \A n \in 0..N : n # 0 => n \in 1..N
    BY <1>1
  <2> QED
    BY <1>4, <2>1, <2>2
<1> DEFINE after == CHOOSE h : h = After(h)
<1>6. after = After(after)
  BY <1>5
<1>7. Insert(refs) = after[N]
  BY DEF Insert
<1> HIDE DEF after
<1>8. after[0] = channels /\ \A n \in 1..N : after[n] = Longer(after[n - 1], refs[n])
  <2> HIDE DEF Longer
  <2>1. 0 \in 0..N /\ \A n \in 1..N : n \in 0..N /\ n # 0
    BY <1>1
  <2> QED
    BY <1>6, <2>1
<1> DEFINE Good(seq, n) ==
             /\ seq \in Seq(Refs) /\ IsInjective(seq)
             /\ Range(seq) = Range(channels) \cup {refs[k] : k \in 1..n}
           M == {n \in Nat : n <= N => Good(after[n], n)}
<1>9. 0 \in M
  BY <1>8
<1>10. ASSUME NEW n \in Nat, n \in M
       PROVE  n + 1 \in M
  <2> SUFFICES ASSUME n + 1 <= N
               PROVE  Good(after[n + 1], n + 1)
    OBVIOUS
  <2> DEFINE seq == after[n]
             r == refs[n + 1]
  <2>1. Good(seq, n)
    BY <1>1, <1>10
  <2>2. after[n + 1] = Longer(seq, r) /\ r \in Refs
    BY <1>1, <1>8
  <2>3. {refs[k] : k \in 1..(n + 1)} = {refs[k] : k \in 1..n} \cup {r}
    <3>1. 1..(n + 1) = (1..n) \cup {n + 1}
      OBVIOUS
    <3> QED
      BY <3>1
  <2> HIDE DEF seq, r
  <2>4. CASE r \in Range(seq)
    BY <2>1, <2>2, <2>3, <2>4
  <2>5. CASE r \notin Range(seq)
    <3> DEFINE new == Append(seq, r)
    <3>1. /\ new \in Seq(Refs) /\ Len(seq) \in Nat /\ Len(new) = Len(seq) + 1
          /\ \A i \in 1..Len(seq) : new[i] = seq[i]
          /\ new[Len(seq) + 1] = r
          /\ DOMAIN seq = 1..Len(seq) /\ DOMAIN new = 1..Len(new)
      BY <2>1, <2>2, AppendProperties, LenProperties
    <3> HIDE DEF new
    <3>2. Range(new) = Range(seq) \cup {r}
      <4>1. 1..Len(new) = (1..Len(seq)) \cup {Len(seq) + 1}
        BY <3>1
      <4>2. Len(seq) + 1 \notin 1..Len(seq)
        BY <3>1
      <4> QED
        BY <3>1, <4>1, <4>2 DEF Range
    <3>3. IsInjective(new)
      <4> SUFFICES ASSUME NEW a \in 1..Len(new), NEW b \in 1..Len(new), new[a] = new[b]
                   PROVE  a = b
        BY <3>1 DEF IsInjective
      <4>1. \A k \in 1..Len(new) : k \in 1..Len(seq) \/ k = Len(seq) + 1
        BY <3>1
      <4>2. \A k \in 1..Len(seq) : seq[k] \in Range(seq)
        BY <3>1 DEF Range
      <4>3. CASE a \in 1..Len(seq) /\ b \in 1..Len(seq)
        BY <2>1, <3>1, <4>3 DEF IsInjective
      <4>4. CASE a \in 1..Len(seq) /\ b = Len(seq) + 1
        BY <2>5, <3>1, <4>2, <4>4
      <4>5. CASE b \in 1..Len(seq) /\ a = Len(seq) + 1
        BY <2>5, <3>1, <4>2, <4>5
      <4> QED
        BY <4>1, <4>3, <4>4, <4>5
    <3>4. after[n + 1] = new
      BY <2>2, <2>5 DEF new
    <3> QED
      BY <2>1, <2>3, <3>1, <3>2, <3>3, <3>4
  <2> QED
    BY <2>4, <2>5
<1>11. Nat \subseteq M
  <2> HIDE DEF M
  <2> QED
    BY <1>9, <1>10, Induction
<1>12. Good(after[N], N)
  <2>1. N \in M
    BY <1>1, <1>11
  <2> HIDE DEF Good, N
  <2> QED
    BY <1>1, <2>1
<1>13. Range(refs) = {refs[k] : k \in 1..N}
  <2>1. DOMAIN refs = 1..N
    BY LenProperties
  <2> QED
    BY <2>1 DEF Range
<1> QED
  BY <1>7, <1>12, <1>13

\* The last of some places in a list is one of them.
LEMMA LastOfPlaces ==
    ASSUME NEW N \in Nat, NEW I \in SUBSET (1..N), I # {}
    PROVE  Max(I) \in I
<1> DEFINE T == {N - i : i \in I}
<1>1. PICK m \in T : \A k \in T : m <= k
  <2>1. \A i \in I : i \in 1..N /\ N - i \in Nat
    OBVIOUS
  <2>2. T \subseteq Nat /\ T # {}
    BY <2>1
  <2> HIDE DEF T
  <2> QED
    BY <2>2, LeastNumber
<1>2. PICK i \in I : m = N - i
  OBVIOUS
<1>3. \A j \in I : i >= j
  <2> SUFFICES ASSUME NEW j \in I
               PROVE  i >= j
    OBVIOUS
  <2>1. N - j \in T
    OBVIOUS
  <2> QED
    BY <1>1, <1>2, <2>1
<1> QED
  BY <1>2, <1>3 DEF Max

LEMMA EntryFacts ==
    ASSUME NEW kind \in Kinds, NEW e \in Readable[kind]
    PROVE  /\ e.key \in Keys /\ e.key \in Refs /\ e.about \in Refs
           /\ e \in Entry /\ e = [key |-> e.key, about |-> e.about]
  BY ReadableAssumption DEF Entry, Refs

LEMMA ListFacts ==
    ASSUME NEW kind \in Kinds, NEW list \in Seq(Readable[kind])
    PROVE  /\ Len(list) \in Nat
           /\ \A i \in 1..Len(list) : list[i] \in Readable[kind]
           /\ Keyed(list) \in Seq(Refs) /\ Refers(list) \in Seq(Refs)
           /\ Range(Keyed(list)) \subseteq Refs
           /\ Range(Refers(list)) = {list[i].about : i \in 1..Len(list)}
<1>1. Len(list) \in Nat /\ \A i \in 1..Len(list) : list[i] \in Readable[kind]
  BY LenProperties, ElementOfSeq
<1>2. \A i \in 1..Len(list) : list[i].key \in Refs /\ list[i].about \in Refs
  BY <1>1, EntryFacts
<1>3. Keyed(list) \in [1..Len(list) -> Refs] /\ Refers(list) \in [1..Len(list) -> Refs]
  BY <1>2 DEF Keyed, Refers
<1>4. Keyed(list) \in Seq(Refs) /\ Refers(list) \in Seq(Refs)
  BY <1>1, <1>3, SeqDef
<1>5. Range(Keyed(list)) \subseteq Refs
  BY <1>2 DEF Keyed, Range
<1>6. Range(Refers(list)) = {list[i].about : i \in 1..Len(list)}
  BY DEF Refers, Range
<1> QED
  BY <1>1, <1>4, <1>5, <1>6

\* What is published, and what was learnt of it: an ID is one that a service
\* was sent with, and so was the sub-channel that a channel was given.
Published ==
    /\ json \in [Kinds -> Seq(Entry)]
    /\ \A k \in Kinds : json[k] \in Seq(Readable[k])
IdsLearnt ==
    \A c \in DOMAIN id : [key |-> id[c], about |-> c] \in Readable["service"]
SubchLearnt ==
    \A c \in DOMAIN subch :
        /\ [key |-> subch[c].key, about |-> c] \in Readable["service"]
        /\ subch[c] \in Readable["subch"]

SearchTypes ==
    /\ pc \in {"labels", "services", "subch", "decide", "done", "failed"}
    /\ attempt \in 0..MaxAttempts
    /\ channels \in Seq(Refs) /\ IsInjective(channels)
    /\ label \subseteq Range(channels)
    /\ DOMAIN id \subseteq Range(channels) /\ DOMAIN subch \subseteq DOMAIN id

\* Nothing is learnt after the channels were printed.
PrintedLast ==
    /\ pc # "done" => printed = {}
    /\ printed \subseteq DOMAIN subch
    /\ \A c \in printed : c \in label \/ attempt = MaxAttempts - 1

SearchInv == SearchTypes /\ IdsLearnt /\ SubchLearnt /\ PrintedLast

LEMMA IdsFacts ==
    ASSUME NEW list \in Seq(Readable["service"])
    PROVE  /\ DOMAIN Ids(list) = Range(Refers(list))
           /\ \A c \in DOMAIN Ids(list) :
                 [key |-> Ids(list)[c], about |-> c] \in Readable["service"]
<1>1. DOMAIN Ids(list) = Range(Refers(list))
  BY DEF Ids
<1>2. ASSUME NEW c \in Range(Refers(list))
      PROVE  [key |-> Ids(list)[c], about |-> c] \in Readable["service"]
  <2> DEFINE I == {i \in 1..Len(list) : list[i].about = c}
  <2>1. "service" \in Kinds
    BY DEF Kinds
  <2>2. I # {} /\ I \in SUBSET (1..Len(list)) /\ Len(list) \in Nat
    BY <1>2, <2>1, ListFacts
  <2>3. Ids(list)[c] = list[Max(I)].key
    BY <1>2 DEF Ids
  <2>4. Max(I) \in I
    <3> HIDE DEF I
    <3> QED
      BY <2>2, LastOfPlaces
  <2>5. list[Max(I)] \in Readable["service"] /\ list[Max(I)].about = c
    BY <2>1, <2>4, ListFacts
  <2> HIDE DEF I
  <2> QED
    BY <2>1, <2>3, <2>5, EntryFacts
<1> QED
  BY <1>1, <1>2

LEMMA AttachedFacts ==
    ASSUME SearchInv, NEW list \in Seq(Readable["subch"])
    PROVE  /\ DOMAIN Attached(list) \subseteq DOMAIN id
           /\ \A c \in DOMAIN Attached(list) :
                 /\ [key |-> Attached(list)[c].key, about |-> c] \in Readable["service"]
                 /\ Attached(list)[c] \in Readable["subch"]
<1> DEFINE For(c) == {i \in 1..Len(list) : c \in Attach(list[i])}
<1>1. DOMAIN Attached(list) = {d \in Range(channels) : For(d) # {}}
  BY DEF Attached
<1>2. ASSUME NEW c \in Range(channels), For(c) # {}
      PROVE  /\ c \in DOMAIN id
             /\ [key |-> Attached(list)[c].key, about |-> c] \in Readable["service"]
             /\ Attached(list)[c] \in Readable["subch"]
  <2>1. "subch" \in Kinds
    BY DEF Kinds
  <2>2. Attached(list)[c] = list[Max(For(c))]
    BY <1>2 DEF Attached
  <2>3. Len(list) \in Nat /\ For(c) \in SUBSET (1..Len(list))
    BY <2>1, ListFacts
  <2>4. Max(For(c)) \in For(c)
    <3> HIDE DEF For
    <3> QED
      BY <1>2, <2>3, LastOfPlaces
  <2> DEFINE m == Max(For(c))
  <2>5. m \in 1..Len(list) /\ c \in Attach(list[m])
    BY <2>4
  <2> HIDE DEF m
  <2>6. c \in DOMAIN id /\ id[c] = list[m].key
    BY <2>5 DEF Attach, Having
  <2>7. list[m] \in Readable["subch"]
    BY <2>1, <2>5, ListFacts
  <2>8. [key |-> list[m].key, about |-> c] \in Readable["service"]
    BY <2>6 DEF SearchInv, IdsLearnt
  <2> QED
    BY <2>2, <2>6, <2>7, <2>8 DEF m
<1> QED
  BY <1>1, <1>2

LEMMA SearchInvariant ==
    ASSUME Published, SearchInv, Search
    PROVE  SearchInv'
<1> USE DEF SearchInv, SearchTypes, PrintedLast
<1>1. \A k \in {"label", "service", "subch"} : json[k] \in Seq(Readable[k])
  BY DEF Published, Kinds
<1>2. CASE ReadLabels
  <2> DEFINE refs == Keyed(json["label"])
  <2>1. CASE Malformed("label")
    BY <1>2, <2>1 DEF ReadLabels, IdsLearnt, SubchLearnt
  <2>2. CASE ~Malformed("label")
    <3>1. /\ pc = "labels" /\ pc' = "services"
          /\ channels' = Insert(refs) /\ label' = label \cup Range(refs)
          /\ UNCHANGED <<attempt, id, subch, printed>>
      BY <1>2, <2>2 DEF ReadLabels
    <3>2. refs \in Seq(Refs)
      BY <1>1, ListFacts DEF Kinds
    <3> HIDE DEF refs
    <3>3. channels' \in Seq(Refs) /\ IsInjective(channels')
      BY <3>1, <3>2, InsertFacts
    <3>4. Range(channels') = Range(channels) \cup Range(refs)
      BY <3>1, <3>2, InsertFacts
    <3> QED
      BY <3>1, <3>3, <3>4 DEF IdsLearnt, SubchLearnt
  <2> QED
    BY <2>1, <2>2
<1>3. CASE ReadServices
  <2> DEFINE list == json["service"]
  <2>1. CASE Malformed("service")
    BY <1>3, <2>1 DEF ReadServices, IdsLearnt, SubchLearnt
  <2>2. CASE ~Malformed("service")
    <3>1. /\ pc = "services" /\ pc' = "subch"
          /\ channels' = Insert(Refers(list)) /\ id' = Updated(id, Ids(list))
          /\ UNCHANGED <<attempt, label, subch, printed>>
      BY <1>3, <2>2 DEF ReadServices
    <3>2. list \in Seq(Readable["service"])
      BY <1>1
    <3>3. Refers(list) \in Seq(Refs)
      BY <3>2, ListFacts DEF Kinds
    <3> HIDE DEF list
    <3>4. channels' \in Seq(Refs) /\ IsInjective(channels')
      BY <3>1, <3>3, InsertFacts
    <3>5. Range(channels') = Range(channels) \cup Range(Refers(list))
      BY <3>1, <3>3, InsertFacts
    <3>6. DOMAIN id' = DOMAIN id \cup DOMAIN Ids(list)
      BY <3>1 DEF Updated
    <3>7. \A c \in DOMAIN id' :
             id'[c] = IF c \in DOMAIN Ids(list) THEN Ids(list)[c] ELSE id[c]
      BY <3>1 DEF Updated
    <3>8. IdsLearnt'
      BY <3>2, <3>6, <3>7, IdsFacts, ReadableAssumption DEF IdsLearnt
    <3>9. DOMAIN id' \subseteq Range(channels')
      BY <3>2, <3>5, <3>6, IdsFacts
    <3> QED
      BY <3>1, <3>4, <3>5, <3>6, <3>8, <3>9 DEF SubchLearnt
  <2> QED
    BY <2>1, <2>2
<1>4. CASE ReadSubch
  <2> DEFINE list == json["subch"]
  <2>1. CASE Malformed("subch")
    BY <1>4, <2>1 DEF ReadSubch, IdsLearnt, SubchLearnt
  <2>2. CASE ~Malformed("subch")
    <3>1. /\ pc = "subch" /\ pc' = "decide" /\ subch' = Updated(subch, Attached(list))
          /\ UNCHANGED <<attempt, channels, label, id, printed>>
      BY <1>4, <2>2 DEF ReadSubch
    <3>2. list \in Seq(Readable["subch"])
      BY <1>1
    <3> HIDE DEF list
    <3>3. DOMAIN subch' = DOMAIN subch \cup DOMAIN Attached(list)
      BY <3>1 DEF Updated
    <3>4. \A c \in DOMAIN subch' :
             subch'[c] = IF c \in DOMAIN Attached(list) THEN Attached(list)[c]
                                                        ELSE subch[c]
      BY <3>1 DEF Updated
    <3>5. SubchLearnt'
      <4> SUFFICES ASSUME NEW c \in DOMAIN subch'
                   PROVE  /\ [key |-> subch'[c].key, about |-> c] \in Readable["service"]
                          /\ subch'[c] \in Readable["subch"]
        BY DEF SubchLearnt
      <4>1. CASE c \in DOMAIN Attached(list)
        BY <3>2, <3>4, <4>1, AttachedFacts
      <4>2. CASE c \notin DOMAIN Attached(list)
        BY <3>3, <3>4, <4>2 DEF SubchLearnt
      <4> QED
        BY <4>1, <4>2
    <3>6. DOMAIN subch' \subseteq DOMAIN id'
      BY <3>1, <3>2, <3>3, AttachedFacts
    <3> QED
      BY <3>1, <3>5, <3>6 DEF IdsLearnt
  <2> QED
    BY <2>1, <2>2
<1>5. CASE Decide
  BY <1>5, AttemptsAssumption DEF Decide, IdsLearnt, SubchLearnt
<1> QED
  BY <1>2, <1>3, <1>4, <1>5 DEF Search

LEMMA SearchKept ==
    SearchInv /\ UNCHANGED searchVars => SearchInv'
  BY DEF SearchInv, SearchTypes, IdsLearnt, SubchLearnt, PrintedLast, searchVars

LEMMA SearchStarts == SearchInit => SearchInv
<1> SUFFICES ASSUME SearchInit
             PROVE  SearchInv
  OBVIOUS
<1>1. DOMAIN id = {} /\ DOMAIN subch = {}
  BY DEF SearchInit
<1>2. channels \in Seq(Refs) /\ IsInjective(channels)
  BY DEF SearchInit, IsInjective
<1> QED
  BY <1>1, <1>2, AttemptsAssumption
     DEF SearchInit, SearchInv, SearchTypes, IdsLearnt, SubchLearnt, PrintedLast

LEMMA PublishedStarts == ListsInit => Published
  BY DEF ListsInit, Published

LEMMA ReadableLists ==
    ASSUME NEW kind \in Kinds
    PROVE  Seq(Readable[kind]) \subseteq Seq(Entry)
<1>1. Readable[kind] \subseteq Entry
  BY ReadableAssumption
<1> QED
  BY <1>1

LEMMA PublishedKept ==
    ASSUME Published, [ListsNext]_listVars
    PROVE  Published'
<1>1. ASSUME NEW kind \in Kinds, Publish(kind, json'[kind])
      PROVE  Published'
  <2>1. PICK list \in Seq(Readable[kind]) : json' = [json EXCEPT ![kind] = list]
    BY <1>1 DEF Publish
  <2>2. json' \in [Kinds -> Seq(Entry)]
    BY <2>1, ReadableLists DEF Published
  <2>3. \A k \in Kinds : json'[k] \in Seq(Readable[k])
    BY <2>1 DEF Published
  <2> QED
    BY <2>2, <2>3 DEF Published
<1>2. CASE Open \/ UNCHANGED listVars
  BY <1>2 DEF Open, listVars, Published
<1> QED
  BY <1>1, <1>2 DEF ListsNext

LEMMA PrintedExist == SearchInv => PrintedChannelsExist
  BY DEF SearchInv, PrintedLast, SubchLearnt, PrintedChannelsExist

LEMMA InfoTypes ==
    ASSUME SearchInv, Published,
           publishing \in Kinds \cup {None},
           unlabelled \subseteq Labelled, partial \in 0..MaxPartial
    PROVE  TypeOK
<1>1. json \in [Kinds -> Seq(Entry)]
  BY DEF Published
<1>2. Range(id) \subseteq Keys
  <2>1. \A c \in DOMAIN id : id[c] \in Keys
    BY EntryFacts DEF SearchInv, IdsLearnt, Kinds
  <2> QED
    BY <2>1 DEF Range
<1>3. Range(subch) \subseteq Entry
  <2>1. \A c \in DOMAIN subch : subch[c] \in Entry
    BY EntryFacts DEF SearchInv, SubchLearnt, Kinds
  <2> QED
    BY <2>1 DEF Range
<1> QED
  BY <1>1, <1>2, <1>3 DEF TypeOK, SearchInv, SearchTypes, PrintedLast

InfoInv ==
    /\ Published /\ SearchInv
    /\ publishing \in Kinds \cup {None}
    /\ unlabelled \subseteq Labelled /\ partial \in 0..MaxPartial

LEMMA InfoStep == InfoInv /\ [Next]_vars => InfoInv'
<1> SUFFICES ASSUME InfoInv, [Next]_vars
             PROVE  InfoInv'
  OBVIOUS
<1>1. ASSUME NEW kind \in Kinds, PublishPartial(kind) \/ PublishWhole(kind)
      PROVE  InfoInv'
  <2>1. PICK list : Publish(kind, list)
    BY <1>1 DEF PublishPartial, PublishWhole
  <2>2. Published'
    <3>1. Publish(kind, json'[kind])
      BY <2>1 DEF Publish, InfoInv, Published
    <3> QED
      BY <3>1, PublishedKept DEF InfoInv, ListsNext
  <2>3. SearchInv'
    BY <1>1, SearchKept DEF InfoInv, PublishPartial, PublishWhole
  <2>4. partial' \in 0..MaxPartial /\ (unlabelled \subseteq Labelled)'
    BY <1>1, PartialAssumption DEF InfoInv, PublishPartial, PublishWhole, Labelled
  <2>5. publishing' \in Kinds \cup {None}
    BY <2>1 DEF Publish
  <2> QED
    BY <2>2, <2>3, <2>4, <2>5 DEF InfoInv
<1>2. CASE SinkOpens
  <2>1. Published'
    BY <1>2, PublishedKept DEF InfoInv, SinkOpens, ListsNext
  <2>2. SearchInv'
    BY <1>2, SearchKept DEF InfoInv, SinkOpens
  <2> QED
    BY <1>2, <2>1, <2>2 DEF InfoInv, SinkOpens, Open, Labelled
<1>3. CASE SearchStep
  <2>1. SearchInv'
    BY <1>3, SearchInvariant DEF InfoInv, SearchStep
  <2> QED
    BY <1>3, <2>1 DEF InfoInv, SearchStep, listVars, Published, Labelled
<1>4. CASE UNCHANGED vars
  <2>1. SearchInv'
    BY <1>4, SearchKept DEF InfoInv, vars
  <2> QED
    BY <1>4, <2>1 DEF InfoInv, vars, listVars, Published, Labelled
<1> QED
  BY <1>1, <1>2, <1>3, <1>4 DEF Next

LEMMA InfoStarts == Init => InfoInv
  BY SearchStarts, PublishedStarts, PartialAssumption DEF Init, InfoInv, ListsInit

\* Type correctness of the search, with a dictionary in which no channel is
\* twice, and of which every part knows only channels of the dictionary.
THEOREM SearchTypesHold == Spec => []TypeOK
<1>1. InfoInv => TypeOK
  BY InfoTypes DEF InfoInv
<1> QED
  BY <1>1, InfoStarts, InfoStep, PTL DEF Spec

\* Whatever lists the sink publishes, however often and in whatever order, and
\* however the search reads them from its own thread: what it prints exists.
THEOREM PrintedChannelsAreSent == Spec => []PrintedChannelsExist
<1>1. InfoInv => PrintedChannelsExist
  BY PrintedExist DEF InfoInv
<1> QED
  BY <1>1, InfoStarts, InfoStep, PTL DEF Spec

-----------------------------------------------------------------------------
(* grdab info on the FIB sink itself, in threads of their own *)

InfoOnSink ==
    /\ SinkInit /\ SearchInit
    /\ [][\/ SinkNext /\ UNCHANGED searchVars
          \/ Search /\ UNCHANGED sinkVars]_<<sinkVars, searchVars>>

LEMMA SameLists ==
    ASSUME Readable = ReadAs
    PROVE  [Lists!ListsNext]_(Lists!listVars) => [ListsNext]_listVars
<1>1. Lists!Kinds = Kinds
  BY DEF Lists!Kinds, Kinds
<1> HIDE DEF Kinds, Lists!Kinds
<1>2. ASSUME NEW kind \in Kinds, Lists!Publish(kind, json'[kind])
      PROVE  Publish(kind, json'[kind])
  BY <1>2 DEF Lists!Publish, Publish, Lists!IsRound, IsRound
<1>3. Lists!Open => Open
  BY DEF Lists!Open, Open
<1> QED
  BY <1>1, <1>2, <1>3 DEF Lists!ListsNext, ListsNext, Lists!listVars, listVars

\* Whatever the multiplexer sends, whatever of it is damaged and however FIGs
\* are misread, grdab info on the FIB sink prints only channels whose service
\* was read as being sent with this sub-channel.
THEOREM PrintedChannelsAreRead ==
    ASSUME Readable = ReadAs
    PROVE  InfoOnSink => []PrintedChannelsExist
<1> DEFINE OnSinkInv == IInv /\ Published /\ SearchInv
<1>1. SinkInit /\ SearchInit => OnSinkInv
  <2>1. SinkInit => ListsInit
    BY DEF SinkInit, ListsInit
  <2> QED
    BY <2>1, InitInvariant, PublishedStarts, SearchStarts
<1>2. OnSinkInv /\ [\/ SinkNext /\ UNCHANGED searchVars
                    \/ Search /\ UNCHANGED sinkVars]_<<sinkVars, searchVars>>
        => OnSinkInv'
  <2> SUFFICES ASSUME OnSinkInv,
                      [\/ SinkNext /\ UNCHANGED searchVars
                       \/ Search /\ UNCHANGED sinkVars]_<<sinkVars, searchVars>>
               PROVE  OnSinkInv'
    OBVIOUS
  <2>1. [SinkNext]_sinkVars
    OBVIOUS
  <2>2. IInv' /\ [ListsNext]_listVars
    BY <2>1, StepInvariant, SameLists
  <2>3. Published'
    BY <2>2, PublishedKept
  <2>4. SearchInv'
    BY SearchInvariant, SearchKept
  <2> QED
    BY <2>2, <2>3, <2>4
<1>3. OnSinkInv => PrintedChannelsExist
  BY PrintedExist
<1> HIDE DEF OnSinkInv
<1> QED
  BY <1>1, <1>2, <1>3, PTL DEF InfoOnSink

=============================================================================
