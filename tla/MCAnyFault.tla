----------------------------- MODULE MCAnyFault -----------------------------
\* The chain of MCScanner up to height 3, with its queries.
EXTENDS MCScanner, QueryProperties

MCFewBlocks == {"g", "a1", "a2", "a3", "b2", "b3", "d1", "d2"}
MCFewHeight == [b \in MCFewBlocks |-> MCHeight[b]]
MCFewPath == [b \in MCFewBlocks |-> MCPath[b]]
MCFewOuts == [b \in MCFewBlocks |-> MCForwardOuts[b]]

MCSubtype == [id \in MCItems |-> 0]
MCBlockTime == [h \in 0 .. 3 |-> h]
MCDecay == [a \in 0 .. 4 |-> 5 - a]
=============================================================================
