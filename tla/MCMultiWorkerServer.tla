------------------------ MODULE MCMultiWorkerServer ------------------------
(* Small instances of MultiWorkerServer for TLC.                            *)
EXTENDS MultiWorkerServerInv, TLC

\* Workers, heap blocks, and connections of one kind are interchangeable.
Symmetry ==
    UNION {Permutations(Workers), Permutations(Cells),
           Permutations(Senders), Permutations(Conns \ Senders)}

=============================================================================
