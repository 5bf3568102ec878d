------------------------------- MODULE MCVSR -------------------------------
(***************************************************************************)
(* Instances of VSR for TLC: which replica each client talks to, the       *)
(* symmetry of the clients, and the states worth exploring further.        *)
(***************************************************************************)
EXTENDS VSR

CONSTANTS c1, c2

\* c1 uses the first primary, c2 the second one.
OneEach == (c1 :> {0}) @@ (c2 :> {1})
\* Both clients use replica 1, a backup until view 1.
At1 == (c1 :> {1}) @@ (c2 :> {1})
Anywhere == [c \in Clients |-> Replicas]
Primary0 == [c \in Clients |-> {0}]

ClientSymmetry == Permutations(Clients)

\* What follows a misinstallation says nothing about SafeUnlessMisinstalled.
Quiet == ~ misinstalled

\* Bound: different packets sent in one behaviour, when packets stay in msgs.
\* What a commit in view 0 and the change to view 1 need is well within it.
MaxPackets == 18
SmallNetwork == Cardinality(msgs) <= MaxPackets

============================================================================
