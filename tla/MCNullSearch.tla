---------------------------- MODULE MCNullSearch ----------------------------
(* A small instance of the search: one energy far below the average, one    *)
(* that is above it or not as the average changes, and two in the null      *)
(* symbol.                                                                  *)
EXTENDS NullSearch

CONSTANTS MaxItems,     \* items that arrive
          MaxRestarts

MCEnergies == {-100, -66, -40, -20}
MCLevels == {-100, -92, 0}
MCNegInfinity == -1000
Lowest == -100

\* A call works on what was pending when it began; that more arrives meanwhile
\* makes no difference to it.
MCNext == \/ noutput = 0 /\ Len(in) < MaxItems /\ Arrive
          \/ restarts < MaxRestarts /\ Restart
          \/ Work

\* The block's thread runs as long as there are items; work() that returns
\* nothing is called again.
MCSpec == Init /\ [][MCNext]_vars /\ WF_vars(Work)

\* An item below every threshold ends the excursion before it, and all that
\* came before it is passed on.
Arrived(n) == Len(in) >= n /\ in[n] = Lowest
PassedOn(n) == read >= n
NothingHeldBack == \A n \in 1..MaxItems : Arrived(n) ~> PassedOn(n)
=============================================================================
