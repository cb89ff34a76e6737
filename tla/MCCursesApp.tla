----------------------------- MODULE MCCursesApp ----------------------------
(***************************************************************************)
(* Lists of channels for CursesApp: two ensembles, the same address in     *)
(* both of them, all levels of protection, channels that no decoder can    *)
(* be built for; and the same sub-channels with the bit rates that         *)
(* "grdab info" prints.                                                    *)
(***************************************************************************)
EXTENDS CursesApp

Channel(f, a, size, level, rate) ==
    [frequency |-> f, address |-> a, subch_size |-> size,
     protect_level |-> level, bit_rate |-> rate, classic |-> FALSE]

MCAll == << Channel(1, 304, 64, 1, 64), Channel(1, 0, 60, 2, 80),
            Channel(2, 304, 96, 0, 64), Channel(2, 0, 32, 3, 64),
            Channel(2, 400, 8, 1, 8), Channel(2, 800, 72, 2, 96),
            [Channel(1, 400, 96, 1, 96) EXCEPT !.classic = TRUE] >>

MCLists == {<<>>, SubSeq(MCAll, 1, 3), MCAll}

Printed(ch) == [ch EXCEPT !.bit_rate = PrintedBitRate(ch)]
MCPrintedLists == {[k \in 1..4 |-> Printed(MCAll[k])]}

MCHeights == {2, 4, 5}
=============================================================================
