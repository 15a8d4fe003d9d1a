----------------------------- MODULE MCThreadLock -----------------------------
(* The instance of ThreadLock for TLC: Jan and Simona on one thread, each  *)
(* in one tab, and a second one with two tabs of Jan.                      *)
EXTENDS ThreadLock

MCActors == {"jan", "simona"}

\* Two of Jan's calls can overtake each other: any but two heartbeats or two releases.
OneCall == [acquire |-> {"k1"}, refresh |-> {"k1"}, release |-> {"k1"}]
TwoCalls == [acquire |-> {"k1", "k2"}, refresh |-> {"k2"}, release |-> {"k1"}]

MCSessions == {"j1", "s1"}
MCActorOf == [s \in MCSessions |-> IF s = "s1" THEN "simona" ELSE "jan"]
MCSlotsOf == [s \in MCSessions |-> IF s = "s1" THEN OneCall ELSE TwoCalls]

\* Two timeouts that differ, so a refresh and a takeover are told apart; Jan's is not the
\* default, so the effect runs again in his tab.
MCTtl == [a \in MCActors |-> IF a = "jan" THEN 1 ELSE 2]
MCDefaultTtl == 2

\* Jan has a second tab; one call of each tab at a time.
MCTabs == {"j1", "j2", "s1"}
MCTabActorOf == [s \in MCTabs |-> IF s = "s1" THEN "simona" ELSE "jan"]
MCTabSlotsOf == [s \in MCTabs |-> OneCall]
MCTabTtl == [a \in MCActors |-> 1]
MCTabDefaultTtl == 1

=============================================================================
