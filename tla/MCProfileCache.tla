--------------------------- MODULE MCProfileCache ---------------------------
(* Instances of ProfileCache for TLC.                                      *)
EXTENDS ProfileCache

CONSTANTS none, c1

In(ns) == [namespace |-> ns, name |-> "n"]

InNamespaceA == [name |-> "namespace", value |-> "a"]
InNamespaceB == [name |-> "namespace", value |-> "b"]
Labelled     == [name |-> "tweak", value |-> TRUE]

\* All combinations, and an option that is given twice.
AllOptions ==
    {<< >>, <<InNamespaceA>>, <<Labelled>>, <<InNamespaceB, Labelled, InNamespaceA>>}

\* Every kind without options, and one kind with all of them.
AllInformers ==
    [kind : Kinds, options : {<< >>}] \cup
    [kind : {[version |-> "v1alpha2", type |-> "PlacementDecision"]}, options : AllOptions]

TwoObjects == {In("a"), In("b")}
=============================================================================
