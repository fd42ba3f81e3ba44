---------------------------- MODULE MCSftpSession ----------------------------
(* Small instances of SftpSession for TLC.                                  *)
EXTENDS SftpSession, TLC

CONSTANT File   \* a path below the root of a server

MCPaths == {"/", File}
MCRoot == "/"

Granted(servers, paths, rights) ==
    [authorized |-> servers, allowed |-> servers \X paths \X rights]

\* The user has no rule; may read all; may write and delete one file.
MCProfiles ==
    {Granted({}, {}, {}),
     Granted(Agents, MCPaths, {"READ"}),
     Granted(Agents, {File}, {"WRITE", "DELETE"})}

\* Slots are interchangeable, and so are servers.
SessionSymmetry == Permutations(Requests) \union Permutations(Agents)
=============================================================================
