----------------------------- MODULE MCSrpTarget -----------------------------
(***************************************************************************)
(* Small instances of SrpTarget for TLC: machines, HCAs and parameters.    *)
(***************************************************************************)
EXTENDS SrpTarget, TLC

\* Machines whose CPU 0 is on the first node and whose nodes have at least as
\* many CPUs as channels; in one of them CPU 4 is possible but offline.
RegularMachines ==
  {[nodes |-> 1, node |-> [c \in 0..3 |-> 0], possible |-> 0..4],
   [nodes |-> 2, node |-> [c \in 0..3 |-> c \div 2], possible |-> 0..3],
   [nodes |-> 2, node |-> [c \in 0..5 |-> c % 2], possible |-> 0..5]}

Machines(ms, vectors, counts, comp_vectors) ==
  {[nodes |-> m.nodes, node |-> m.node, possible |-> m.possible,
    vectors |-> v, ch_count |-> n, comp_vector |-> o] :
     m \in ms, v \in vectors, n \in counts, o \in comp_vectors}

RegularConfigs == Machines(RegularMachines, {1, 3, 4}, {0, 1, 4}, {0})
ASSUME AllRegular == \A c \in RegularConfigs : IsRegular(c)

\* Two nodes, four vectors, and a first vector other than 0.
ShiftedConfigs ==
  Machines({[nodes |-> 2, node |-> [c \in 0..3 |-> c \div 2], possible |-> 0..3]},
           {4}, {0}, {0, 1})
=============================================================================
