------------------------------- MODULE FibSink ------------------------------
(***************************************************************************)
(* The block fib_sink_vb (lib/fib_sink_vb_impl.cc): it reads the fast      *)
(* information blocks (FIBs) and collects four lists out of the            *)
(* information groups (FIGs) in them, which the multiplexer sends over and *)
(* over: sub-channels, service components, programme types and labels.     *)
(* The end of a list is not signalled; the sink takes a list for complete  *)
(* when the key it began with comes again.                                 *)
(*                                                                         *)
(* The getters are called from another thread and nothing is locked, so    *)
(* the two statements that publish a list are steps of their own.  FIGs    *)
(* that are only logged, the ensemble label, and the fields of an entry    *)
(* besides its key are left out (an entry's `about' stands for them).      *)
(***************************************************************************)
EXTENDS ChannelEntries, FiniteSets, SequencesExt

CONSTANTS Schedule,  \* per kind, the FIGs that the multiplexer repeats
          MaxLost    \* FIBs that arrive damaged

\* What the multiplexer sends of an entry: for a sub-channel the short or the
\* long form, for a service component audio or data.
Forms == {"short", "long", "audio", "data", "plain"}
Sent == [key : Keys, about : Abouts, form : Forms]
Read == [key : Keys, about : Abouts \cup {Garbled}, form : Forms]

\* The trigger's -1 is no key.
ASSUME NoneAssumption == None \notin Keys
ASSUME ScheduleAssumption == Schedule \in [Kinds -> Seq(Seq(Sent))]
ASSUME MaxLostAssumption == MaxLost \in Nat

VARIABLES at,            \* multiplexer: the FIG of each kind that is next
          lost,          \* FIBs damaged so far
          d_crc_passed,
          todo,          \* work(): entries of the FIB still to be recorded
          trigger,       \* d_..._written_trigger
          current,       \* d_..._current (json: d_json_...)
          missed,        \* history: a FIG got lost since the trigger was set
          whole          \* history: the published list missed no FIG

air == <<at, lost>>
lists == <<trigger, current, json, publishing>>
history == <<missed, whole>>
sinkVars == <<air, d_crc_passed, todo, lists, history>>

SinkTypeOK ==
    /\ at \in [Kinds -> Nat] /\ lost \in 0..MaxLost
    /\ d_crc_passed \in BOOLEAN
    /\ todo \in Seq([kind : Kinds, sent : Read])
    /\ trigger \in [Kinds -> Keys \cup {None}]
    /\ current \in [Kinds -> Seq(Entry)]
    /\ json \in [Kinds -> Seq(Entry)]
    /\ publishing \in Kinds \cup {None}
    /\ \A k \in Kinds : trigger[k] = None => current[k] = <<>>
    /\ missed \in [Kinds -> BOOLEAN] /\ whole \in [Kinds -> BOOLEAN]

-----------------------------------------------------------------------------
(* Reading a FIG *)

Plain(s) == [key |-> s.key, about |-> s.about]
Count(fig, form) == Cardinality({i \in 1..Len(fig) : fig[i].form = form})

\* What an entry read out of place says.
Misread == [key : Keys, about : {Garbled}, form : {"long"}]

FirstShort(fig) ==
    {i \in 1..Len(fig) : /\ fig[i].form = "short"
                         /\ \A j \in 1..(i - 1) : fig[j].form # "short"}

\* How many entries of four bytes the rest of the FIG is read as.
ReadLong(rest) ==
    (3 * Count(rest, "short") + 4 * Count(rest, "long") + 3) \div 4

\* A sub-channel FIG is read in the form of its first entry throughout.  In the
\* long form, a short entry of three bytes is read as four, and so is all that
\* follows, one byte too far on: only the key of the first one is right.
Organization(fig) ==
    IF fig # <<>> /\ fig[1].form = "short"
    THEN {[i \in 1..Len(fig) |-> [fig[i] EXCEPT !.form = "short"]]}
    ELSE IF FirstShort(fig) = {} THEN {fig}
    ELSE UNION {{SubSeq(fig, 1, i - 1) \o garbage :
                    garbage \in {g \in [1..ReadLong(SubSeq(fig, i, Len(fig))) -> Misread] :
                                   g[1].key = fig[i].key}} :
                i \in FirstShort(fig)}

\* What a FIG is read as.
Readings(kind, fig) == IF kind = "subch" THEN Organization(fig) ELSE {fig}

\* Only the long form is recorded of sub-channels, only audio of services.
Recorded(s) == s.form \notin {"short", "data"}

-----------------------------------------------------------------------------
\* The multiplexer's next FIG of a kind.
Following(kind) == IF at[kind] = Len(Schedule[kind]) THEN 1 ELSE at[kind] + 1

Idle == todo = <<>> /\ publishing = None

\* process_fib finds the checksum wrong and drops the FIB.
DamagedFib(kind) ==
    /\ Idle /\ Schedule[kind] # <<>>
    /\ lost < MaxLost
    /\ lost' = lost + 1
    /\ at' = [at EXCEPT ![kind] = Following(kind)]
    /\ d_crc_passed' = FALSE
    /\ missed' = [missed EXCEPT ![kind] = TRUE]
    /\ UNCHANGED <<todo, lists, whole>>

\* process_fib finds the checksum right and goes through the FIGs.
GoodFib(kind) ==
    /\ Idle /\ Schedule[kind] # <<>>
    /\ at' = [at EXCEPT ![kind] = Following(kind)]
    /\ d_crc_passed' = TRUE
    /\ \E reading \in Readings(kind, Schedule[kind][at[kind]]) :
          todo' = [i \in 1..Len(reading) |-> [kind |-> kind, sent |-> reading[i]]]
    /\ UNCHANGED <<lost, lists, history>>

\* Variant: the collected entries are not cleared when a list is published.
CollectOn(kind, entry) ==
    /\ trigger[kind] # None
    /\ IF entry.key = trigger[kind]
       THEN /\ json' = [json EXCEPT ![kind] = Append(current[kind], entry)]
            /\ publishing' = kind
            /\ current' = current
            /\ whole' = [whole EXCEPT ![kind] = ~missed[kind]]
       ELSE /\ current' = [current EXCEPT ![kind] = Append(@, entry)]
            /\ UNCHANGED <<json, publishing, whole>>
    /\ UNCHANGED <<trigger, missed>>

\* Variant: the list is published without the entry that completes it.
CollectShort(kind, entry) ==
    /\ trigger[kind] # None
    /\ IF entry.key = trigger[kind]
       THEN /\ json' = [json EXCEPT ![kind] = current[kind]]
            /\ publishing' = kind
            /\ current' = [current EXCEPT ![kind] = <<>>]
            /\ whole' = [whole EXCEPT ![kind] = ~missed[kind]]
       ELSE /\ current' = [current EXCEPT ![kind] = Append(@, entry)]
            /\ UNCHANGED <<json, publishing, whole>>
    /\ UNCHANGED <<trigger, missed>>

\* An entry after the one that set the trigger is collected; when its key is
\* the trigger, the list is assigned to the published one, which then begins
\* with a comma.
Collect(kind, entry) ==
    /\ trigger[kind] # None
    /\ IF entry.key = trigger[kind]
       THEN /\ json' = [json EXCEPT ![kind] = Append(current[kind], entry)]
            /\ publishing' = kind
            /\ current' = [current EXCEPT ![kind] = <<>>]
            /\ whole' = [whole EXCEPT ![kind] = ~missed[kind]]
       ELSE /\ current' = [current EXCEPT ![kind] = Append(@, entry)]
            /\ UNCHANGED <<json, publishing, whole>>
    /\ UNCHANGED <<trigger, missed>>

\* The first entry of all, or after a published list, only sets the trigger.
SetTrigger(kind, entry) ==
    /\ trigger[kind] = None
    /\ trigger' = [trigger EXCEPT ![kind] = entry.key]
    /\ missed' = [missed EXCEPT ![kind] = FALSE]
    /\ UNCHANGED <<current, json, publishing, whole>>

\* process_fig comes to the next entry of the FIB.
RecordEntry ==
    /\ todo # <<>> /\ publishing = None
    /\ todo' = Tail(todo)
    /\ LET kind == Head(todo).kind
           sent == Head(todo).sent
       IN  \/ Recorded(sent) /\ SetTrigger(kind, Plain(sent))
           \/ Recorded(sent) /\ Collect(kind, Plain(sent))
           \/ ~Recorded(sent) /\ UNCHANGED <<lists, history>>
    /\ UNCHANGED <<air, d_crc_passed>>

\* The comma is overwritten with '[', and a new list begins.
OpenList ==
    /\ publishing # None
    /\ trigger' = [trigger EXCEPT ![publishing] = None]
    /\ publishing' = None
    /\ UNCHANGED <<air, d_crc_passed, todo, current, json, history>>

SinkInit ==
    /\ at = [k \in Kinds |-> 1] /\ lost = 0
    /\ d_crc_passed = FALSE
    /\ todo = <<>>
    /\ trigger = [k \in Kinds |-> None]
    /\ current = [k \in Kinds |-> <<>>]
    /\ json = [k \in Kinds |-> <<>>]
    /\ publishing = None
    /\ missed = [k \in Kinds |-> FALSE] /\ whole = [k \in Kinds |-> FALSE]

SinkNext ==
    \/ \E kind \in Kinds : DamagedFib(kind) \/ GoodFib(kind)
    \/ RecordEntry
    \/ OpenList

SinkSpec == SinkInit /\ [][SinkNext]_sinkVars

\* The multiplexer repeats every kind, and the block's thread goes on.
SinkFairness ==
    /\ \A k \in Kinds : SF_sinkVars(GoodFib(k))
    /\ WF_sinkVars(RecordEntry \/ OpenList)

SinkFairSpec == SinkSpec /\ SinkFairness

-----------------------------------------------------------------------------
\* The entries that FIGs of a kind are read as.
ReadAs ==
    [k \in Kinds |->
        {Plain(e) : e \in {d \in Read :
            /\ Recorded(d)
            /\ \E f \in 1..Len(Schedule[k]) :
                  \E r \in Readings(k, Schedule[k][f]) :
                      \E i \in 1..Len(r) : r[i] = d}}]

Lists == INSTANCE ChannelLists WITH Readable <- ReadAs

\* However many FIBs are damaged and FIGs misread: what a getter may see is a
\* round of entries, or one that is not well-formed yet.
ImplementsLists == Lists!ListsSpec

\* The places (FIG and place in it) of the entries that the multiplexer sends
\* of a kind, those that are recorded.
Places(kind) ==
    {p \in UNION {{f} \X (1..Len(Schedule[kind][f])) : f \in 1..Len(Schedule[kind])} :
        Recorded(Schedule[kind][p[1]][p[2]])}
SentAt(kind, p) == Plain(Schedule[kind][p[1]][p[2]])

\* No FIG of this kind mixes the forms, and no key is sent twice.
Unmixed(kind) ==
    \A f \in 1..Len(Schedule[kind]) :
       \A i, j \in 1..Len(Schedule[kind][f]) :
          Schedule[kind][f][i].form = "short" => Schedule[kind][f][j].form = "short"
Clear(kind) ==
    /\ Unmixed(kind)
    /\ \A p, q \in Places(kind) :
          SentAt(kind, p).key = SentAt(kind, q).key => p = q

\* Place q is passed on the way from p to next, around the schedule's end.
Before(a, b) == a[1] < b[1] \/ (a[1] = b[1] /\ a[2] < b[2])
Passed(p, next, q) ==
    IF Before(p, next) THEN Before(p, q) /\ Before(q, next)
                       ELSE Before(p, q) \/ Before(q, next)

\* All that the multiplexer sends, nothing twice, and in the order in which it
\* is sent from the place behind some p on.
Distinct(list) ==
    \A i, j \in 1..Len(list) : list[i].key = list[j].key => i = j
InOrderFrom(kind, p, list) ==
    \A i, j \in 1..Len(list) : \A q, r \in Places(kind) :
       i < j /\ list[i] = SentAt(kind, q) /\ list[j] = SentAt(kind, r)
          => Passed(p, r, q)
WholeRound(kind) ==
    /\ {json[kind][i] : i \in 1..Len(json[kind])} =
          {SentAt(kind, p) : p \in Places(kind)}
    /\ Distinct(json[kind])
    /\ \E p \in Places(kind) : InOrderFrom(kind, p, json[kind])

\* When no FIB of a kind was damaged while its list was collected, the list
\* holds all that the multiplexer sends, every entry once and in the order sent.
CompleteLists == \A k \in Kinds : whole[k] /\ Clear(k) => WholeRound(k)

\* When only some FIBs are damaged, lists keep being published, of services
\* that share a sub-channel too; and where no key is sent twice, in the end
\* only complete ones.
ListsKeepComing ==
    \A k \in Kinds :
        Places(k) # {} /\ Unmixed(k) =>
            /\ []<>(publishing = k)
            /\ Clear(k) => <>[](publishing = k => WholeRound(k))
=============================================================================
