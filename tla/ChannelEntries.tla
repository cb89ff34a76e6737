--------------------------- MODULE ChannelEntries ---------------------------
(***************************************************************************)
(* The entries of the lists that the FIB sink publishes, and what a getter *)
(* sees of them.                                                           *)
(***************************************************************************)
EXTENDS Integers, Sequences

CONSTANTS Keys,      \* identifiers: of sub-channels and of services
          Abouts,    \* what else an entry says
          Garbled,   \* what a misread entry says
          None       \* no list; no key

Kinds == {"subch", "service", "type", "label"}
Entry == [key : Keys, about : Abouts \cup {Garbled}]

ASSUME NoListAssumption == None \notin Kinds

VARIABLES json,       \* the published lists, empty at first
          publishing  \* the kind whose list has no '[' yet, or None

listVars == <<json, publishing>>
=============================================================================
