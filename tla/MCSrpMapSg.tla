----------------------------- MODULE MCSrpMapSg -----------------------------
(* Instances of SrpMapSg for TLC: two requests that share the pool.        *)
EXTENDS SrpMapSg, TLC

Entry(addr, len) == [addr |-> addr, len |-> len]

\* An entry of at most one byte more than a region of two pages of two bytes;
\* entries are not adjacent in memory.
EntriesAt(i) ==
  {Entry(8 * i + p[1], p[2]) : p \in
     {p \in {0, 1} \X (0..5) : (p[2] <= 4 => p[1] + p[2] <= 4) /\ (p[2] = 0 => p[1] = 0)}}

AllLists ==
  {<<a>> : a \in EntriesAt(1)} \cup (EntriesAt(1) \X EntriesAt(2))
    \cup (EntriesAt(1) \X EntriesAt(2) \X EntriesAt(3))

TwoRegions == <<Entry(32, 3), Entry(40, 4)>>

\* The pool of FMRs remembers what was mapped before, so there are fewer lists:
\* with and without pages in common, merged entries and unaligned ones.
FmrLists ==
  {<<Entry(8, 4), Entry(16, 3), Entry(24, 3)>>, <<Entry(8, 2), Entry(16, 2)>>,
   <<Entry(8, 3), Entry(17, 2)>>}
SharedLists ==
  {<<Entry(8, 4), Entry(16, 3)>>, <<Entry(16, 4)>>}

MCSgLists ==
  [fr \in BOOLEAN |->
     [r \in Requests |-> IF fr THEN IF r = "r1" THEN AllLists ELSE {TwoRegions}
                               ELSE IF r = "r1" THEN FmrLists ELSE SharedLists]]

MCSymmetry == Permutations(Regions)
==============================================================================
