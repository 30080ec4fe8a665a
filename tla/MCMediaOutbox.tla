---------------------------- MODULE MCMediaOutbox ----------------------------
(* MediaOutbox on one binding with one or two sources. *)
EXTENDS MediaOutbox, TLC

CONSTANTS b1, s1, s2

\* Two like sources of one binding, both admitted at the start.
TwoBindingOf == (s1 :> b1 @@ s2 :> b1)
TwoAdmitted == (s1 :> 0 @@ s2 :> 0)
TwoDeadline == (s1 :> 1 @@ s2 :> 1)
TwoBytes == (s1 :> 2 @@ s2 :> 2)
EitherSource == Permutations({s1, s2})

OneBindingOf == (s1 :> b1)
OneAdmitted == (s1 :> 0)
OneDeadline == (s1 :> 2)
OneBytes == (s1 :> 2)

Roomy == [pending |-> 3, records |-> 3, bytes |-> 9]
=============================================================================
