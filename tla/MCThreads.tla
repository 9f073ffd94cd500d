------------------------------ MODULE MCThreads ------------------------------
(***************************************************************************)
(* Instances of ThreadCounts for TLC.                                      *)
(***************************************************************************)
EXTENDS ThreadCounts, MCPrograms

Six == 1 .. 6

(***************************************************************************)
(* Three initial states, a full chunk of two and one of one, that race for *)
(* the states 4 and 5, from which the program goes on, or not; some of     *)
(* them are to blame.                                                      *)
(***************************************************************************)
Steps(one, two, three, four) == <<one, two, three, four, {1}, {1}>>

Crowds ==
  {Program({1, 2, 3}, FALSE, Steps(one, two, three, four), stepError, Invs(Six, bad, {})) :
     one \in {{4}, {4, 5}}, two \in {{4}, {5}}, three \in {{5}, {6}}, four \in {{}, {6}},
     stepError \in {{}, {5}}, bad \in {{}, {4}}}
  \cup
  {Program({1, 2, 3}, initError, Steps({}, {}, {}, {}), {}, Invs(Six, {}, {2})) :
     initError \in BOOLEAN}

FreeConfigs == {Bounds(TRUE, NoBound, NoBound), Bounds(FALSE, 1, NoBound), Bounds(FALSE, 0, NoBound)}

CrowdConfigs == FreeConfigs \cup {Bounds(TRUE, NoBound, 4)}

Identity == [s \in States |-> s]

SomeCollide == {Identity, [Identity EXCEPT ![5] = 4]}

OneToOne == {Identity}

=============================================================================
