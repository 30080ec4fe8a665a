------------------------------ MODULE MCOutbox ------------------------------
(* Outbox on small instances. *)
EXTENDS Outbox, TLC

CONSTANTS b1, b2, s1, s2, s3

\* One source in each of two bindings that follow one another.
TwoBindingsBindingOf == (s1 :> b1 @@ s2 :> b2)
TwoBindingsAdmitted == (s1 :> 0 @@ s2 :> 0)
TwoBindingsDeadline == (s1 :> 1 @@ s2 :> 1)
TwoBindingsBytes == (s1 :> 3 @@ s2 :> 3)

\* Exchanging the bindings together with their sources changes nothing.
Exchange == {(b1 :> b1 @@ b2 :> b2 @@ s1 :> s1 @@ s2 :> s2),
             (b1 :> b2 @@ b2 :> b1 @@ s1 :> s2 @@ s2 :> s1)}

\* Three like sources of one binding, and room for two.
ThreeSourcesBindingOf == [s \in {s1, s2, s3} |-> b1]
ThreeSourcesAdmitted == [s \in {s1, s2, s3} |-> 0]
ThreeSourcesDeadline == [s \in {s1, s2, s3} |-> 1]
ThreeSourcesBytes == [s \in {s1, s2, s3} |-> 2]
AnySource == Permutations({s1, s2, s3})
RoomForTwo == [pending |-> 3, records |-> 3, bytes |-> 4]

SmallBinding == [pending |-> 2, records |-> 2, bytes |-> 5]
SmallInstallation == [pending |-> 2, records |-> 2, bytes |-> 5]

=============================================================================
