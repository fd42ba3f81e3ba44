--------------------------- MODULE PermissionStore ---------------------------
(***************************************************************************)
(* Who may do what: the users, agents and permissions tables of            *)
(* GatewayDatabase, the cache PermissionManager keeps of the third one,    *)
(* and the CLI commands that change them.                                  *)
(*                                                                         *)
(* Statements of better-sqlite3 and the code around them are synchronous,  *)
(* so a command and the cache reload it ends with are one step; the order  *)
(* of commands, permission checks and restarts is arbitrary.  Paths are    *)
(* the normalised ones both the table and the checks use: Covers(p, q)     *)
(* says that p is q or a directory above it.                               *)
(***************************************************************************)
EXTENDS Integers, FiniteSets, Sequences

CONSTANTS
    Users,          \* user names, with or without an account
    Admin,          \* the account a gateway without users creates at start
    Servers,        \* server ids
    Paths, Root,    \* normalised paths, and "/"
    Covers(_, _),   \* rule.path === '/' || target === rule.path || ...
    PathLength,     \* path.length
    GrantTokens,    \* the permission lists that `grant` is given
    MaxRows,        \* bound on the rows of the permissions table
    NoRow           \* no row under a (username, server_id, path)

Rights == {"READ", "WRITE", "DELETE", "EXECUTE"}

ASSUME NamesAssumption == Admin \in Users /\ Root \in Paths

ASSUME NoRowAssumption == NoRow \notin GrantTokens \union {{"ALL"}}

\* Finitely many paths occur, and their lengths order the directories above
\* a path.
ASSUME PathAssumption ==
    /\ IsFiniteSet(Paths)
    /\ PathLength \in [Paths -> Nat]
    /\ \A p, q \in Paths :
          Covers(p, q) => p = q \/ PathLength[p] < PathLength[q]
    /\ \A p, q, t \in Paths :
          Covers(p, t) /\ Covers(q, t) /\ PathLength[q] <= PathLength[p]
              => Covers(q, p)

VARIABLES
    users,        \* table users
    agents,       \* table agents
    permissions,  \* table permissions, by its unique key
    cache         \* userPermissionsCache; a user or server it has no entry
                  \* for has the empty list of rules

vars == <<users, agents, permissions, cache>>

Keys == Users \X Servers \X Paths

Rules == [path : Paths, rights : SUBSET Rights]

-----------------------------------------------------------------------------
(* From rows to rules.                                                     *)

\* Seeded bug: ALL is cached as it is written.
TokensAsRights(tokens) == tokens

\* ALL stands for every right, and words that name no right are dropped.
RightsOf(tokens) == IF "ALL" \in tokens THEN Rights ELSE tokens \intersect Rights

\* The rules that the rows of a table give a user on a server.
RulesOf(table, u, s) ==
    {[path |-> p, rights |-> RightsOf(table[<<u, s, p>>])] :
        p \in {q \in Paths : table[<<u, s, q>>] # NoRow}}

\* Seeded bug: the rules are left in the order of the rows.
UnsortedRuleLists(R) ==
    {l \in [1 .. Cardinality(R) -> R] :
        /\ \A rule \in R : \E i \in DOMAIN l : l[i] = rule
        /\ \A i, j \in DOMAIN l : l[i] = l[j] => i = j}

\* What cacheRow makes of the rows in any order: every rule once, the longest
\* paths first.
RuleLists(R) ==
    {l \in [1 .. Cardinality(R) -> R] :
        /\ \A rule \in R : \E i \in DOMAIN l : l[i] = rule
        /\ \A i, j \in DOMAIN l : l[i] = l[j] => i = j
        /\ \A i, j \in DOMAIN l :
              i < j => PathLength[l[i].path] >= PathLength[l[j].path]}

\* What the cache may hold for a user, and for everyone, once it is reloaded.
UserCaches(table, u) ==
    {c \in [Servers -> UNION {RuleLists(RulesOf(table, u, s)) : s \in Servers}] :
        \A s \in Servers : c[s] \in RuleLists(RulesOf(table, u, s))}

Caches(table) ==
    {c \in [Users -> UNION {UserCaches(table, u) : u \in Users}] :
        \A u \in Users : c[u] \in UserCaches(table, u)}

\* Seeded bug: the command changes the table and leaves the cache alone.
NoReload(table, u) == UNCHANGED cache

\* PermissionManager.reloadUserCache
ReloadUserCache(table, u) ==
    \E c \in UserCaches(table, u) : cache' = [cache EXCEPT ![u] = c]

\* PermissionManager.reloadCache
ReloadCache(table) == cache' \in Caches(table)

WithoutUser(u) ==
    [k \in Keys |-> IF k[1] = u THEN NoRow ELSE permissions[k]]

WithoutAgent(s) ==
    [k \in Keys |-> IF k[2] = s THEN NoRow ELSE permissions[k]]

-----------------------------------------------------------------------------
(* Permission checks.                                                      *)

Cached(u) == \E s \in Servers : cache[u][s] # << >>

\* PermissionManager.isServerAuthorized, once the user is cached.
IsServerAuthorized(u, s) == cache[u][s] # << >>

\* PermissionManager.checkPermission, once the user is cached: the first rule
\* of the list whose path covers the target decides.
CheckPermission(u, s, target, right) ==
    \E i \in DOMAIN cache[u][s] :
        /\ Covers(cache[u][s][i].path, target)
        /\ \A j \in DOMAIN cache[u][s] :
              j < i => ~Covers(cache[u][s][j].path, target)
        /\ right \in cache[u][s][i].rights

-----------------------------------------------------------------------------
(* The gateway starts: the cache is read from the table, an admin account  *)
(* with every right on every agent is made if there is no user, and then   *)
(* the cache is read again.                                                *)

Bootstrapped(us, ags, table) ==
    IF us # {} THEN table
    ELSE [k \in Keys |-> IF k[1] = Admin /\ k[2] \in ags /\ k[3] = Root
                         THEN {"ALL"} ELSE table[k]]

Boot(us, ags, table) ==
    /\ users' = IF us = {} THEN {Admin} ELSE us
    /\ agents' = ags
    /\ permissions' = Bootstrapped(us, ags, table)
    /\ ReloadCache(Bootstrapped(us, ags, table))

\* The first start, on an empty database.
Init ==
    /\ users = {Admin}
    /\ agents = {}
    /\ permissions = [k \in Keys |-> NoRow]
    /\ cache = [u \in Users |-> [s \in Servers |-> << >>]]

\* The process ends, by a signal or a crash, and starts again.
Restart == Boot(users, agents, permissions)

\* It ends between the two DELETE statements of deleteUser, which no
\* transaction joins.
RestartInDeleteUser(u) ==
    /\ u \in users
    /\ Boot(users \ {u}, agents, permissions)

-----------------------------------------------------------------------------
(* CLI commands.                                                           *)

\* adduser: the INSERT fails when there is an account of that name.
AddUser(u) ==
    /\ u \notin users
    /\ users' = users \union {u}
    /\ UNCHANGED <<agents, permissions, cache>>

\* deluser: the permission rows go in any case, the cache is reloaded only
\* when there was an account.
DeleteUser(u) ==
    /\ users' = users \ {u}
    /\ permissions' = WithoutUser(u)
    /\ \/ u \in users /\ ReloadUserCache(WithoutUser(u), u)
       \/ u \notin users /\ UNCHANGED cache
    /\ UNCHANGED agents

\* addagent: an upsert.
AddAgent(s) ==
    /\ agents' = agents \union {s}
    /\ UNCHANGED <<users, permissions, cache>>

\* delagent: the agent and every permission row on it; the cache is not told.
DeleteAgent(s) ==
    /\ agents' = agents \ {s}
    /\ permissions' = WithoutAgent(s)
    /\ UNCHANGED <<users, cache>>

\* grant: an upsert for any name and server id, known or not.
Grant(u, s, p, tokens) ==
    /\ \/ permissions[<<u, s, p>>] # NoRow
       \/ Cardinality({k \in Keys : permissions[k] # NoRow}) < MaxRows
    /\ permissions' = [permissions EXCEPT ![<<u, s, p>>] = tokens]
    /\ ReloadUserCache(permissions', u)
    /\ UNCHANGED <<users, agents>>

\* revoke: of a row that exists.
Revoke(u, s, p) ==
    /\ permissions[<<u, s, p>>] # NoRow
    /\ permissions' = [permissions EXCEPT ![<<u, s, p>>] = NoRow]
    /\ ReloadUserCache(permissions', u)
    /\ UNCHANGED <<users, agents>>

\* A permission check of a user who is not cached reads the rows first.
LazyReload(u) ==
    /\ ~Cached(u)
    /\ ReloadUserCache(permissions, u)
    /\ UNCHANGED <<users, agents, permissions>>

-----------------------------------------------------------------------------

Next ==
    \/ Restart
    \/ \E u \in Users :
          \/ RestartInDeleteUser(u)
          \/ AddUser(u)
          \/ DeleteUser(u)
          \/ LazyReload(u)
    \/ \E s \in Servers : AddAgent(s) \/ DeleteAgent(s)
    \/ \E u \in Users, s \in Servers, p \in Paths :
          \/ Revoke(u, s, p)
          \/ \E tokens \in GrantTokens : Grant(u, s, p, tokens)

Spec == Init /\ [][Next]_vars

-----------------------------------------------------------------------------
(* Properties.                                                             *)

\* The database is well formed and the cache holds rules with real rights.
TypeOK ==
    /\ users \subseteq Users
    /\ agents \subseteq Servers
    /\ permissions \in [Keys -> GrantTokens \union {{"ALL"}, NoRow}]
    /\ cache \in [Users -> [Servers -> Seq(Rules)]]

\* A user's rules on a server are cached, each once and the longest path
\* first, whenever the table has rows for them: whatever commands, lazy
\* reloads and restarts came before, no grant is forgotten, and neither the
\* listing of the virtual root nor a check misses a server because it reads
\* the cache alone.
RowsAreCached ==
    \A u \in Users, s \in Servers :
        RulesOf(permissions, u, s) # {}
            => cache[u][s] \in RuleLists(RulesOf(permissions, u, s))

\* What the rows say: the rule on the closest directory above the target.
TableAllows(u, s, target, right) ==
    \E rule \in RulesOf(permissions, u, s) :
        /\ Covers(rule.path, target)
        /\ \A other \in RulesOf(permissions, u, s) :
              Covers(other.path, target) => Covers(other.path, rule.path)
        /\ right \in rule.rights

\* As long as the table has a row for a user on a server, checks there decide
\* as the closest rule in the table does: a revoked right is gone and a
\* granted one is there with the command's own step, and a rule on a
\* directory overrides those above it whatever order they were granted in.
ChecksFollowRows ==
    \A u \in Users, s \in Servers :
        RulesOf(permissions, u, s) # {} =>
            /\ IsServerAuthorized(u, s)
            /\ \A target \in Paths, right \in Rights :
                  CheckPermission(u, s, target, right)
                      <=> TableAllows(u, s, target, right)

\* Deleting an account takes its access away with the same command: what is
\* cached for the user is what the table still says, so every check a session
\* of the user makes from then on is made on that.
DeletedUserLosesAccess ==
    [][\A u \in Users :
          u \in users /\ u \notin users' =>
             \A s \in Servers :
                cache'[u][s] \in RuleLists(RulesOf(permissions', u, s))]_vars

\* What README.md says of the gateway, that it checks permissions against
\* SQLite at the moment they are needed: every check decides as the table does.
ChecksMatchTable ==
    \A u \in Users, s \in Servers, target \in Paths, right \in Rights :
        CheckPermission(u, s, target, right) => TableAllows(u, s, target, right)
=============================================================================
