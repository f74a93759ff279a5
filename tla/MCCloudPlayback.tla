-------------------------- MODULE MCCloudPlayback ---------------------------
(* Playback of files of one day and the next; every set of up to five files is *)
(* at least scanned.                                                          *)
EXTENDS CloudPlayback

Trial(f, m, r, d, p) ==
    [files |-> f, moves |-> m, records |-> r, deletes |-> d, plays |-> p]
MCTrials ==
    {Trial({2, 4}, 2, 2, 1, 0), Trial({3, 5}, 0, 0, 0, 2),
     Trial({3, 5}, 0, 1, 1, 1), Trial({3, 5}, 1, 0, 0, 1)}
    \cup {Trial(f, 0, 0, 0, 0) : f \in {f \in SUBSET Times : Cardinality(f) <= 5}}
MCOnePlayOneDelete == {Trial({2, 3, 5}, 0, 0, 1, 1)}
MCKind == [t \in Times |-> IF t % 3 = 0 THEN "KEY" ELSE "PIR"]
=============================================================================
