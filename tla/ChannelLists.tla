---------------------------- MODULE ChannelLists ----------------------------
(***************************************************************************)
(* What the FIB sink promises to those who call its getters: now and then  *)
(* a list is replaced by another round of what the multiplexer sends, and  *)
(* for a moment the new list is not well-formed.                           *)
(***************************************************************************)
EXTENDS ChannelEntries

CONSTANT Readable   \* per kind, the entries that FIGs are read as

ASSUME ReadableAssumption == Readable \in [Kinds -> SUBSET Entry]

\* The multiplexer repeats its entries, so the key that the list ends with
\* was not in it before.
IsRound(list) ==
    /\ list # <<>>
    /\ \A i \in 1..(Len(list) - 1) : list[i].key # list[Len(list)].key

Publish(kind, list) ==
    /\ publishing = None
    /\ list \in Seq(Readable[kind]) /\ IsRound(list)
    /\ json' = [json EXCEPT ![kind] = list]
    /\ publishing' = kind

Open ==
    /\ publishing # None
    /\ publishing' = None
    /\ json' = json

ListsInit ==
    /\ json = [k \in Kinds |-> <<>>]
    /\ publishing = None

ListsNext ==
    \/ \E kind \in Kinds : Publish(kind, json'[kind])
    \/ Open

ListsSpec == ListsInit /\ [][ListsNext]_listVars
=============================================================================
