----------------------------- MODULE MCChatQuery -----------------------------
(* Small instances of ChatQuery for TLC.                                    *)
EXTENDS ChatQuery, TLC

CONSTANTS t1, t2, t3, t4, m1, m2, m3

ThreeThreads == {t1, t2, t3}
FourThreads  == {t1, t2, t3, t4}
TwoMessages  == {m1, m2}
ThreeMessages == {m1, m2, m3}

NoSoftNoCard == {"thread", "probe"}
EveryHazard == HazardKinds

Symmetry3 == Permutations(FourThreads) \cup Permutations(ThreeMessages)
=============================================================================
