---------------------------- MODULE MCRlsParser ----------------------------
(* Instances of RlsParser for TLC: every text of a few lines.              *)
EXTENDS RlsParser

NodeLn(x)  == [kind |-> "node", node |-> x]
DataLn(ws) == [kind |-> "data", words |-> ws]
Junk       == [kind |-> "other"]
BadNode    == [kind |-> "badnode"]

W(op, count, type) == [op |-> op, count |-> count, type |-> type]

process == W("MAP_PROCESS", 1, 3)
queues  == W("MAP_QUEUES", 0, 3)
nop     == W("other", 0, 3)
zero    == W("other", 0, 0)

(* Packets broken into lines in every way *)
SplitLines == {NodeLn("n1"), NodeLn("n2"), Junk, DataLn(<<process, zero>>),
               DataLn(<<queues, zero>>), DataLn(<<zero, queues>>), DataLn(<<zero>>)}
SplitTexts == UNION {[1..len -> SplitLines] : len \in 0..5}

(* Nodes without data, broken node lines and bad packets *)
ErrorLines == {NodeLn("n1"), NodeLn("n2"), BadNode, Junk, DataLn(<<queues, zero>>),
               DataLn(<<nop, zero>>), DataLn(<< >>)}
ErrorTexts == UNION {[1..len -> ErrorLines] : len \in 0..4}

MCTexts == SplitTexts \union ErrorTexts
=============================================================================
