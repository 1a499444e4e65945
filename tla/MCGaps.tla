------------------------------- MODULE MCGaps -------------------------------
(* Two genomes that crossed from p and that only q still has.  A run has two *)
(* crossings and one trouble, or one genome, a kill and the horizon.        *)
EXTENDS Gaps

CONSTANTS p, q, h1, h2

CrossedFrom == [h \in Genome |-> p]
CachedAt == [h \in Genome |-> {q}]
Crossings == [of |-> Genome, crossings |-> 2, troubles |-> 1, crashes |-> 0, ages |-> 0]
Kills == [of |-> {h1}, crossings |-> 3, troubles |-> 0, crashes |-> 1, ages |-> 2]
RunBudgets == {Crossings, Kills}
=============================================================================
