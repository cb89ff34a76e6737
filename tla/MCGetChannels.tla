--------------------------- MODULE MCGetChannels ----------------------------
(***************************************************************************)
(* An ensemble of two services, each with a sub-channel of its own, and    *)
(* either of which may have no label.                                      *)
(***************************************************************************)
EXTENDS GetChannels

CONSTANTS s1, s2, c1, c2, p

Say(key, about) == [key |-> key, about |-> about]

MCReadable ==
    [subch |-> {Say(c1, p), Say(c2, p)},
     service |-> {Say(c1, s1), Say(c2, s2)},
     type |-> {},
     label |-> {Say(s1, p), Say(s2, p)}]
=============================================================================
