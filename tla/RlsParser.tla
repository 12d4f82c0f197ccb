------------------------------ MODULE RlsParser ------------------------------
(***************************************************************************)
(* The parser of /sys/kernel/debug/kfd/rls (src/src/pm4/rls_parser.cc): a  *)
(* state machine over lines that is called once per runlist and remembers  *)
(* where it stopped.                                                       *)
(*                                                                         *)
(* A text is a sequence of lines, each already classified as the regular   *)
(* expressions of pm4.cc do: "node" lines, "data" lines with their dwords, *)
(* "badnode" lines, which have the form of a node line but a number that   *)
(* does not fit, and others.  A position is the number of a line.          *)
(*                                                                         *)
(* Parse is called as sift_pm4_parse_runlists does, until it returns       *)
(* nothing, or once as sift_pm4_parse_runlist does.                        *)
(***************************************************************************)
EXTENDS Pm4Packets

CONSTANTS
  Nodes,  \* the pairs of node id and gpu id
  AnyNode,\* no node is asked for: find_all_nodes_
  Texts,  \* the texts to parse, sequences of lines
  npos    \* std::string_view::npos

VARIABLES
  text,
  terminated, \* the last line ends with a newline
  target,     \* the node asked for, or AnyNode
  pc,         \* "call", "loop", "build", or how it ended: "done", "thrown"
  state,      \* state_
  at,         \* the line start is in
  lastData,   \* last_data_match: the line after the last data line
  end,        \* end_, between two calls
  node,       \* node_ and gpu_
  buffer,     \* dwords_buffer_
  results     \* what the calls returned: one runlist each

input == <<text, terminated, target>>
vars  == <<input, pc, state, at, lastData, end, node, buffer, results>>

Line ==
  [kind : {"node"}, node : Nodes] \union [kind : {"data"}, words : Seq(Word)]
    \union [kind : {"badnode", "other"}]

ASSUME TextsAssumption == Texts \subseteq Seq(Line) /\ npos \notin Nat

Init ==
  /\ text \in Texts
  /\ terminated \in BOOLEAN
  /\ target \in Nodes \union {AnyNode}
  /\ pc = "call"
  /\ state = "NODE"
  /\ at = 1
  /\ lastData = 1
  /\ end = 1
  /\ node = target
  /\ buffer = << >>
  /\ results = << >>

-----------------------------------------------------------------------------
(* Parse starts where the last call stopped.  (A rewound end_ is at the    *)
(* newline before that line: the empty line there matches nothing.)        *)
Call ==
  /\ pc = "call"
  /\ pc' = "loop"
  /\ state' = "NODE"
  /\ at' = IF end = npos THEN Len(text) + 1 ELSE end
  /\ lastData' = at'
  /\ UNCHANGED <<input, end, node, buffer, results>>

(* end_ != npos: the line is there and ends with a newline *)
Ended(i) == i \in DOMAIN text /\ (i < Len(text) \/ terminated)
HasLine  == Ended(at)

(* Mutant: the newline is stepped over twice. *)
MutGoto(st, increment) ==
  /\ state' = st
  /\ at' = at + 2 * increment

(* next.state, and start = end_ + next.increment *)
Goto(st, increment) ==
  /\ state' = st
  /\ at' = at + increment

Wanted(x) == target = AnyNode \/ x = target

(* ParseNode *)
NodeLine ==
  /\ pc = "loop" /\ state = "NODE" /\ HasLine
  /\ LET line == text[at]
     IN  \/ /\ line.kind = "badnode"
            /\ Goto("ERROR", 0)
            /\ UNCHANGED node
         \/ /\ line.kind = "node" /\ Wanted(line.node)
            /\ Goto("DATA", 1)
            /\ node' = line.node
         \/ /\ line.kind # "badnode"
            /\ ~(line.kind = "node" /\ Wanted(line.node))
            /\ Goto("NODE", 1)
            /\ UNCHANGED node
  /\ UNCHANGED <<input, pc, lastData, end, buffer, results>>

(* Mutant: the line that ends a runlist is consumed with it. *)
MutDataLine ==
  /\ pc = "loop" /\ state = "DATA" /\ HasLine
  /\ LET line == text[at]
     IN  \/ /\ line.kind = "data"
            /\ Goto("DATA", 1)
            /\ buffer' = Append(buffer, line.words)
            /\ UNCHANGED lastData
         \/ /\ line.kind # "data"
            /\ Goto("END", 0)
            /\ lastData' = at + 1
            /\ UNCHANGED buffer
  /\ UNCHANGED <<input, pc, end, node, results>>

(* ParseData, and last_data_match = start - 1 when it leaves the state.    *)
(* Its two ways to ERROR are no step: they need an exception from the      *)
(* regular expressions or from std::stoul, which only ever gets the eight  *)
(* hexadecimal digits that data_format matches, so that no text brings one *)
(* about.                                                                  *)
DataLine ==
  /\ pc = "loop" /\ state = "DATA" /\ HasLine
  /\ LET line == text[at]
     IN  \/ /\ line.kind = "data"
            /\ Goto("DATA", 1)
            /\ buffer' = Append(buffer, line.words)
            /\ UNCHANGED lastData
         \/ /\ line.kind # "data"
            /\ Goto("END", 0)
            /\ lastData' = at
            /\ UNCHANGED buffer
  /\ UNCHANGED <<input, pc, end, node, results>>

(* case State::END: rewind *)
EndLine ==
  /\ pc = "loop" /\ state = "END" /\ HasLine
  /\ end' = lastData
  /\ pc' = "build"
  /\ UNCHANGED <<input, state, at, lastData, node, buffer, results>>

(* Mutant: the error is logged, and the loop goes on. *)
MutErrorLine ==
  /\ pc = "loop" /\ state = "ERROR" /\ HasLine
  /\ UNCHANGED vars

(* case State::ERROR: throw, and the object is not used again *)
ErrorLine ==
  /\ pc = "loop" /\ state = "ERROR" /\ HasLine
  /\ pc' = "thrown"
  /\ UNCHANGED <<input, state, at, lastData, end, node, buffer, results>>

(* No newline any more: the loop ends in whatever state it is. *)
OutOfLines ==
  /\ pc = "loop" /\ ~HasLine
  /\ end' = npos
  /\ pc' = "build"
  /\ UNCHANGED <<input, state, at, lastData, node, buffer, results>>

(* BuildEntries returns a runlist: the only or the next one. *)
Built ==
  /\ pc = "build"
  /\ Parses(FlattenSeq(buffer))
  /\ results' = Append(results,
                  [node |-> node, entries |-> Entries(FlattenSeq(buffer))])
  /\ pc' = IF target = AnyNode THEN "call" ELSE "done"
  /\ buffer' = << >>
  /\ UNCHANGED <<input, state, at, lastData, end, node>>

(* BuildEntries returns nothing, and the caller stops. *)
NotBuilt ==
  /\ pc = "build"
  /\ ~Parses(FlattenSeq(buffer))
  /\ pc' = "done"
  /\ buffer' = << >>
  /\ UNCHANGED <<input, state, at, lastData, end, node, results>>

Next ==
  \/ Call \/ NodeLine \/ DataLine \/ EndLine \/ ErrorLine \/ OutOfLines
  \/ Built \/ NotBuilt

(* One thread runs it to the end. *)
Spec == Init /\ [][Next]_vars /\ WF_vars(Next)

-----------------------------------------------------------------------------
TypeOK ==
  /\ pc \in {"call", "loop", "build", "done", "thrown"}
  /\ state \in {"NODE", "DATA", "END", "ERROR"}
  /\ at \in 1..(Len(text) + 1)
  /\ lastData \in 1..(Len(text) + 1)
  /\ end \in 1..(Len(text) + 1) \union {npos}
  /\ node \in Nodes \union {AnyNode}
  /\ Len(results) <= Len(text)

(* What the text says, without the machine.  A runlist begins at a node    *)
(* line (the first one, if a node is asked for) and holds the dwords of    *)
(* the data lines right after it.                                          *)
Begins ==
  LET wanted == {i \in DOMAIN text : Ended(i) /\ text[i].kind = "node" /\ Wanted(text[i].node)}
  IN  IF target = AnyNode THEN wanted ELSE {i \in wanted : \A j \in wanted : i <= j}

Words(i) ==
  LET run == {j \in (i + 1)..Len(text) :
                \A k \in (i + 1)..j : Ended(k) /\ text[k].kind = "data"}
  IN  FlattenSeq([j \in 1..Cardinality(run) |-> text[i + j].words])

Runlist(i) == [node |-> text[i].node, entries |-> Entries(Words(i))]

(* Calls stop for good at a node without a good runlist. *)
Reached == {i \in Begins : \A j \in Begins : j < i => Parses(Words(j))}
Good    == {i \in Reached : Parses(Words(i))}

(* Broken node lines that the machine looks at before it stops *)
Met == {b \in DOMAIN text :
          /\ Ended(b) /\ text[b].kind = "badnode"
          /\ \A i \in Begins : i < b => Parses(Words(i)) /\ (target = AnyNode)}

(* Whatever lies between the runlists, however their dwords are broken     *)
(* into lines and wherever the text ends, the calls return the runlists of *)
(* the text in order up to the first node that has none; none is returned  *)
(* twice, skipped, or mixed with the dwords of its neighbour, although     *)
(* every call but the last rewinds; and Parse throws exactly when a broken *)
(* node line is met.                                                       *)
RunlistsInOrder ==
  LET order == InOrder({i \in Good : pc = "thrown" => \A b \in Met : i < b})
  IN  /\ IsPrefix(results, [n \in DOMAIN order |-> Runlist(order[n])])
      /\ pc \in {"done", "thrown"} =>
           Len(results) = Len(order) /\ (pc = "thrown" <=> Met # {})

(* The packets of a runlist are all its dwords, each once and in order: if *)
(* counts say what the bodies of their packets need, each body has all of  *)
(* its dwords in the text, the last one too, and the headers and bodies    *)
(* returned can be put together to the dwords again.                       *)
PacketsTile ==
  \A n \in DOMAIN results :
    LET es     == results[n].entries
        header(e) == [op |-> e.op, count |-> e.count - 1, type |-> e.type + 1]
    IN  (\A k \in DOMAIN es : es[k].count = BodyWords(es[k])) =>
          /\ \A k \in DOMAIN es : Len(es[k].body) = BodyWords(es[k])
          /\ \E i \in Begins :
               Words(i) = FlattenSeq([k \in DOMAIN es |-> <<header(es[k])>> \o es[k].body])

(* The calls come to an end: a rewind never leads back to the same node. *)
Terminates == <>(pc \in {"done", "thrown"})

=============================================================================
