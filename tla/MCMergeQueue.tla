---------------------------- MODULE MCMergeQueue -----------------------------
(***************************************************************************)
(* MergeQueue in two parts: logs of a few rows about two shas with every   *)
(* kind of cut-off append, and whole logs of up to one join for each of    *)
(* three shas by every kind of candidate, whose plans are looked at.       *)
(***************************************************************************)
EXTENDS MergeQueue

AreasInOrder == <<"system", "feature">>
\* The queue of features, and none when its file is missing or invalid.
FeatureQueues == {<<"loop", "pool">>, <<>>}

ThreeShas == {1, 2, 3}

Candidate(s, owner, head, joined, files) ==
    [sha |-> s, owner |-> owner, area |-> "feature", feature |-> "loop",
     base |-> "new", review_sha |-> s, review_head |-> head,
     verdict |-> "PASS", files |-> files, joined_at |-> joined]

\* Two owners of the first sha; a review given on an older head.
Disputed ==
    {Candidate(1, "lane0", "new", 0, {"f"}),
     Candidate(1, "lane0", "new", 3, {"f", "g"}),
     Candidate(1, "lane1", "new", 0, {"f"}),
     Candidate(2, "lane1", "old", 0, {"g"})}

\* Three ranks, one of them of a feature that is not listed; ready, to be
\* rebased and to be reviewed again; files that overlap in every way three
\* candidates can.
Ranks == {<<"system", "pool">>, <<"feature", "loop">>, <<"feature", "stray">>}
Reviews == {<<"new", "new">>, <<"new", "old">>, <<"old", "new">>}
Overlapping == {{"f"}, {"g"}, {"f", "g"}, {"h"}}

Planned ==
    {[sha |-> s, owner |-> "lane", area |-> rank[1], feature |-> rank[2],
      base |-> review[2], review_sha |-> s, review_head |-> review[1],
      verdict |-> "PASS", files |-> F, joined_at |-> 1 + (s % 2)] :
        s \in Sha, rank \in Ranks, review \in Reviews, F \in Overlapping}

AllCandidates == Disputed \cup Planned

\* The log of the first part: rows of disputed candidates.
Short == \A i \in DOMAIN log : log[i].entry.owner # "lane"

\* The log of the second part: a whole join of each sha in turn.
Long == ~torn /\ \A i \in DOMAIN log : log[i].sha = i /\ log[i].entry.owner = "lane"

JoinsDisputed ==
    Short /\ \E c \in Disputed, head \in Masters, now \in Time \ {0} : Join(c, head, now)

Leaves == Short /\ \E s \in Sha : Leave(s)

\* Each sha joins in turn, and no append is cut off.
JoinsPlanned ==
    /\ Long
    /\ \E c \in Planned, head \in Masters :
          /\ c.sha = Len(log) + 1
          /\ Join(c, head, 1)
          /\ ~torn' /\ told'[c.sha] # Unknown

MCSpec == Init /\ [][JoinsDisputed \/ Leaves \/ JoinsPlanned]_vars

=============================================================================
