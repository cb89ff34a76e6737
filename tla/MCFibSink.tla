----------------------------- MODULE MCFibSink ------------------------------
(***************************************************************************)
(* A multiplexer with two sub-channel FIGs, one of which mixes the forms,  *)
(* three labels, and two services that share a sub-channel.                *)
(***************************************************************************)
EXTENDS FibSink

CONSTANTS s1, s2, c1, c2, c3, p

Say(key, about, form) == [key |-> key, about |-> about, form |-> form]

MCSchedule ==
    [subch |-> << <<Say(c1, p, "long"), Say(c2, p, "short")>>,
                  <<Say(c3, p, "short"), Say(c1, p, "long")>> >>,
     service |-> << <<Say(c1, s1, "audio"), Say(c2, s1, "data"),
                      Say(c1, s2, "audio")>> >>,
     type |-> <<>>,
     label |-> << <<Say(s1, p, "plain")>>, <<Say(s2, p, "plain")>>,
                  <<Say(c1, p, "plain")>> >>]
=============================================================================
