-------------------------- MODULE MCPermissionStore --------------------------
(* Small instances of PermissionStore for TLC.  A path is the sequence of    *)
(* its names: /d, /d/ff and /eeee.                                           *)
EXTENDS PermissionStore, SequencesExt, TLC

MCRoot == << >>
MCPaths == {<< >>, <<"d">>, <<"d", "ff">>, <<"eeee">>}
MCCovers(p, q) == IsPrefix(p, q)
MCPathLength ==
    [p \in MCPaths |-> CASE p = << >>   -> 1
                         [] p = <<"d">> -> 2
                         [] OTHER       -> 5]
MCGrantTokens == {{"ALL"}, {"READ", "LIST"}}

\* Fewer paths, for the instance with more users and servers.
MCBranch == {<< >>, <<"d">>}
MCBranchLength == [p \in MCBranch |-> MCPathLength[p]]

\* Server ids are interchangeable.
ServerSymmetry == Permutations(Servers)
=============================================================================
