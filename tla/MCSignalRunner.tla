--------------------------- MODULE MCSignalRunner ---------------------------
(***************************************************************************)
(* Small fleets.  The first run may be attempted twice, any other once.    *)
(***************************************************************************)
EXTENDS SignalRunner, TLC

MCMaxAttempts == [r \in Runs |-> IF r = 1 THEN 2 ELSE 1]
MCOneAttempt  == [r \in Runs |-> 1]
MCUnfit == {<<s, 2>> : s \in Stations}
MCOneUnfit == {<<CHOOSE s \in Stations : TRUE, 1>>}
Symmetry == Permutations(Stations)
=============================================================================
