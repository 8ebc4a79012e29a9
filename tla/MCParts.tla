------------------------------ MODULE MCParts ------------------------------
\* Small instances of the parts: policies of the purge, definitions of an
\* artifact of each shape, patches of both directories, two source trees.
EXTENDS Parts

SomePolicies ==
    [name : {"older"}, value : {0, 1}]
    \cup [name : {"last"}, value : {0, 2}]
    \cup [name : {"each"}, value : {1}]
    \cup [name : {"size"}, value : {1, 3}]

\* The version of source supp is s, of source main m.
Def(multi, urls, m, s, checked, names) ==
    [multi |-> multi, urls |-> urls,
     version |-> [x \in Sources |-> IF x = "main" THEN m ELSE s],
     sums |-> checked, names |-> names]

SomeDefinitions ==
    {Def(FALSE, {"main"}, 2, 0, {}, "fixed"),
     Def(TRUE, {"supp"}, 1, 1, {"supp"}, "versioned"),
     Def(TRUE, Sources, 1, 0, {"main"}, "fixed"),
     Def(TRUE, Sources, 1, 1, Sources, "shared")}

SomePatches ==
    {[dir |-> "generic", index |-> 2, for |-> BuildFormats],
     [dir |-> "version", index |-> 1, for |-> {"rpm"}]}

\* A file of the upstream source holds 0 at version v1 and 1 at v2.
Trees ==
    [v \in {"v1", "v2"} |->
        [f \in SourceFiles |-> IF v = "v1" THEN 0 ELSE 1]]

Places == {<<"d1", "main">>, <<"d2", "next">>}
=============================================================================
