---------------------------- MODULE MCIndexMerge ----------------------------
EXTENDS IndexMerge

MCPriorities == {<<1, 2, 3>>, <<1, 1, 2>>, <<1, 2, 2>>, <<1, 2, 1000>>}

\* A source that does not answer, and the indices of one publisher and one
\* extension with two builds at most, or without either.
Unreachable == [ok |-> FALSE, publishers |-> <<>>, extensions |-> <<>>]
OneName == CHOOSE n \in Name : TRUE
OnePublisher == CHOOSE p \in Publisher : TRUE
MCAnswers ==
  {Unreachable} \cup
  {[ok |-> TRUE, publishers |-> [p \in {OnePublisher} |-> key], extensions |-> e] :
     key \in BOOLEAN,
     e \in {<<>>} \cup [{OneName} -> [meta : BOOLEAN,
                                      versions : [Version -> SUBSET Target] \cup {<<>>}]]}
=============================================================================
