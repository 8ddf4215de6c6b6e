--------------------------- MODULE MCInventoryHub ---------------------------
(* Instances of InventoryHub for TLC.                                      *)
EXTENDS InventoryHub, TLC

CONSTANTS s1, s2, none

AllChars == {"a", "b", "A", "-", "_", "!"}

\* With a prefix of at most two characters, "A_b" and "a" both make the prefix
\* "a"; of "!" nothing is left, and it is no label value.
A_b == <<"A", "_", "b">>
a   == <<"a">>
bad == <<"!", "a">>

AllManagers == {A_b, a, bad}

\* Two seeders race for the names of one prefix, beside a client of v1alpha1
\* that works for one of them: credentials are lost to the seeders.
SomeFlags ==
    (s1 :> {[manager |-> A_b, clusters |-> 2]}) @@
    (s2 :> [manager : {A_b, a, bad}, clusters : {1}] \cup [manager : {a}, clusters : {-1, 0}])

OneAgent == {[version |-> "v1alpha1", manager |-> a]}

TwoSeeders == {s1, s2}
=============================================================================
