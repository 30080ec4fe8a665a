--------------------------- MODULE MCCloudEvidence ---------------------------
(* CloudEvidence on one source with one piece of evidence or two.  One clock *)
(* unit is longer than a manifest waits and shorter than a source lives.     *)
EXTENDS CloudEvidence, TLC

CONSTANTS s1, e1, e2, h1, h2, c1, c2

AllAtOnce == [s \in Sources |-> 0]
Short == [s \in Sources |-> 2]
Shortest == [s \in Sources |-> 1]
OneSourceOf == [e \in Evidence |-> s1]
Like == Permutations(Uploads) \cup Permutations(Cleaners)
=============================================================================
