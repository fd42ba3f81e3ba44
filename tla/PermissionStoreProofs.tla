------------------------ MODULE PermissionStoreProofs ------------------------
(***************************************************************************)
(* Proofs about PermissionStore for every set of users, servers and paths: *)
(* the table's rows are cached, and the cached list decides as the rule on *)
(* the closest directory does.                                             *)
(***************************************************************************)
EXTENDS PermissionStore, FiniteSetTheorems, TLAPS

USE NamesAssumption, NoRowAssumption

-----------------------------------------------------------------------------
(* Rules and lists of rules.                                               *)

\* A well typed table.
Table(t) == t \in [Keys -> GrantTokens \union {{"ALL"}, NoRow}]

\* The rules of a user on a server are finitely many and have real rights.
LEMMA RulesOfType ==
    ASSUME NEW table, NEW u, NEW s
    PROVE  /\ RulesOf(table, u, s) \subseteq Rules
           /\ IsFiniteSet(RulesOf(table, u, s))
<1> DEFINE P == {q \in Paths : table[<<u, s, q>>] # NoRow}
           f == [p \in P |-> [path |-> p, rights |-> RightsOf(table[<<u, s, p>>])]]
<1>1. RulesOf(table, u, s) \subseteq Rules
  <2>1. \A p \in P : RightsOf(table[<<u, s, p>>]) \subseteq Rights
    BY DEF RightsOf
  <2>2. \A p \in P : [path |-> p, rights |-> RightsOf(table[<<u, s, p>>])] \in Rules
    BY <2>1 DEF Rules
  <2> QED
    BY <2>2 DEF RulesOf
<1>2. IsFiniteSet(P)
  BY PathAssumption, FS_Subset
<1>3. f \in Surjection(P, RulesOf(table, u, s))
  BY DEF Surjection, RulesOf
<1> QED
  BY <1>1, <1>2, <1>3, FS_Surjection

\* A list of rules is a sequence.
LEMMA RuleListType ==
    ASSUME NEW R, R \subseteq Rules, IsFiniteSet(R), NEW l \in RuleLists(R)
    PROVE  l \in Seq(Rules)
<1>1. Cardinality(R) \in Nat
  BY FS_CardinalityType
<1>2. l \in [1 .. Cardinality(R) -> Rules]
  BY DEF RuleLists
<1> QED
  BY <1>1, <1>2

\* What is reloaded for a user: lists of the user's rules.
LEMMA UserCacheType ==
    ASSUME NEW table, NEW u, NEW c \in UserCaches(table, u)
    PROVE  /\ c \in [Servers -> Seq(Rules)]
           /\ \A s \in Servers : c[s] \in RuleLists(RulesOf(table, u, s))
<1>1. \A s \in Servers : c[s] \in RuleLists(RulesOf(table, u, s))
  BY DEF UserCaches
<1>2. \A s \in Servers : c[s] \in Seq(Rules)
  BY <1>1, RulesOfType, RuleListType
<1>3. c = [s \in Servers |-> c[s]]
  BY DEF UserCaches
<1> QED
  BY <1>1, <1>2, <1>3

\* Rules depend on the rows of their user and server only.
LEMMA RulesOfSame ==
    ASSUME NEW table, NEW t2, NEW u, NEW s,
           \A p \in Paths : table[<<u, s, p>>] = t2[<<u, s, p>>]
    PROVE  RulesOf(table, u, s) = RulesOf(t2, u, s)
  BY DEF RulesOf

\* Without rows there are no rules.
LEMMA RulesOfNone ==
    ASSUME NEW table, NEW u, NEW s, \A p \in Paths : table[<<u, s, p>>] = NoRow
    PROVE  RulesOf(table, u, s) = {}
  BY DEF RulesOf

-----------------------------------------------------------------------------
(* The inductive invariant: types and RowsAreCached.                       *)

StoreInv == TypeOK /\ RowsAreCached

\* Reloading one user leaves a cache of the right type in which the user's
\* rules are those of the table and every other user's are as before.
LEMMA ReloadUserEffect ==
    ASSUME NEW table, NEW u \in Users, TypeOK, ReloadUserCache(table, u)
    PROVE  /\ cache' \in [Users -> [Servers -> Seq(Rules)]]
           /\ \A s \in Servers : cache'[u][s] \in RuleLists(RulesOf(table, u, s))
           /\ \A v \in Users \ {u} : cache'[v] = cache[v]
<1> PICK c \in UserCaches(table, u) : cache' = [cache EXCEPT ![u] = c]
  BY DEF ReloadUserCache
<1>1. /\ c \in [Servers -> Seq(Rules)]
      /\ \A s \in Servers : c[s] \in RuleLists(RulesOf(table, u, s))
  BY UserCacheType
<1> QED
  BY <1>1 DEF TypeOK

\* Reloading everyone leaves the rules of the table for everyone.
LEMMA ReloadEffect ==
    ASSUME NEW table, ReloadCache(table)
    PROVE  /\ cache' \in [Users -> [Servers -> Seq(Rules)]]
           /\ \A u \in Users, s \in Servers :
                 cache'[u][s] \in RuleLists(RulesOf(table, u, s))
<1>1. cache' \in Caches(table)
  BY DEF ReloadCache
<1>2. \A u \in Users : cache'[u] \in UserCaches(table, u)
  BY <1>1 DEF Caches
<1>3. cache' = [u \in Users |-> cache'[u]]
  BY <1>1 DEF Caches
<1>4. \A u \in Users :
         /\ cache'[u] \in [Servers -> Seq(Rules)]
         /\ \A s \in Servers : cache'[u][s] \in RuleLists(RulesOf(table, u, s))
  BY <1>2, UserCacheType
<1> QED
  BY <1>3, <1>4

\* A start of the gateway establishes the invariant from any database.
LEMMA BootInv ==
    ASSUME NEW us, us \subseteq Users, NEW ags, ags \subseteq Servers,
           NEW table, Table(table), Boot(us, ags, table)
    PROVE  StoreInv'
<1> DEFINE t2 == Bootstrapped(us, ags, table)
<1>1. t2 \in [Keys -> GrantTokens \union {{"ALL"}, NoRow}]
  BY DEF Table, Bootstrapped
<1>2. /\ cache' \in [Users -> [Servers -> Seq(Rules)]]
      /\ \A u \in Users, s \in Servers : cache'[u][s] \in RuleLists(RulesOf(t2, u, s))
  BY ReloadEffect DEF Boot
<1>3. users' \subseteq Users /\ agents' \subseteq Servers /\ permissions' = t2
  BY DEF Boot
<1> QED
  BY <1>1, <1>2, <1>3 DEF StoreInv, TypeOK, RowsAreCached

\* The initial state satisfies the invariant.
LEMMA StoreInitInv == Init => StoreInv
<1> SUFFICES ASSUME Init PROVE StoreInv
  OBVIOUS
<1>1. TypeOK
  <2>1. << >> \in Seq(Rules)
    OBVIOUS
  <2> QED
    BY <2>1 DEF Init, TypeOK
<1>2. \A u \in Users, s \in Servers : RulesOf(permissions, u, s) = {}
  BY DEF Init, RulesOf, Keys
<1> QED
  BY <1>1, <1>2 DEF StoreInv, RowsAreCached

\* A step on the rows of one user that reloads that user keeps it.
LEMMA ReloadingStepInv ==
    ASSUME StoreInv, NEW u \in Users, Table(permissions'),
           ReloadUserCache(permissions', u),
           \A v \in Users \ {u}, s \in Servers, p \in Paths :
              permissions'[<<v, s, p>>] = permissions[<<v, s, p>>]
    PROVE  /\ cache' \in [Users -> [Servers -> Seq(Rules)]]
           /\ RowsAreCached'
<1>1. /\ cache' \in [Users -> [Servers -> Seq(Rules)]]
      /\ \A s \in Servers :
            cache'[u][s] \in RuleLists(RulesOf(permissions', u, s))
      /\ \A v \in Users \ {u} : cache'[v] = cache[v]
  BY ReloadUserEffect DEF StoreInv
<1>2. \A v \in Users \ {u}, s \in Servers :
         RulesOf(permissions', v, s) = RulesOf(permissions, v, s)
  BY RulesOfSame
<1>3. ASSUME NEW v \in Users, NEW s \in Servers, RulesOf(permissions', v, s) # {}
      PROVE  cache'[v][s] \in RuleLists(RulesOf(permissions', v, s))
  BY <1>1, <1>2, <1>3 DEF StoreInv, RowsAreCached
<1> QED
  BY <1>1, <1>3 DEF RowsAreCached

\* A step that takes rows away and leaves the cache alone keeps it.
LEMMA RemovingStepInv ==
    ASSUME StoreInv, UNCHANGED cache,
           \A u \in Users, s \in Servers :
              \/ \A p \in Paths : permissions'[<<u, s, p>>] = permissions[<<u, s, p>>]
              \/ \A p \in Paths : permissions'[<<u, s, p>>] = NoRow
    PROVE  RowsAreCached'
<1> SUFFICES ASSUME NEW u \in Users, NEW s \in Servers,
                    RulesOf(permissions', u, s) # {}
             PROVE  cache'[u][s] \in RuleLists(RulesOf(permissions', u, s))
  BY DEF RowsAreCached
<1>1. \A p \in Paths : permissions'[<<u, s, p>>] = permissions[<<u, s, p>>]
  BY RulesOfNone
<1>2. RulesOf(permissions', u, s) = RulesOf(permissions, u, s)
  BY <1>1, RulesOfSame
<1> QED
  BY <1>2 DEF StoreInv, RowsAreCached

\* Every command, check and restart keeps the invariant.
LEMMA StoreNextInv == StoreInv /\ [Next]_vars => StoreInv'
<1> SUFFICES ASSUME StoreInv, [Next]_vars PROVE StoreInv'
  OBVIOUS
<1>0. Table(permissions) /\ users \subseteq Users /\ agents \subseteq Servers
  BY DEF StoreInv, TypeOK, Table
<1>1. CASE Restart
  BY <1>0, <1>1, BootInv DEF Restart
<1>2. ASSUME NEW u \in Users, RestartInDeleteUser(u) PROVE StoreInv'
  <2>1. users \ {u} \subseteq Users
    BY <1>0
  <2> QED
    BY <1>0, <1>2, <2>1, BootInv DEF RestartInDeleteUser
<1>3. ASSUME NEW u \in Users, AddUser(u) PROVE StoreInv'
  BY <1>3 DEF AddUser, StoreInv, TypeOK, RowsAreCached
<1>4. ASSUME NEW u \in Users, DeleteUser(u) PROVE StoreInv'
  <2>1. /\ users' \subseteq Users /\ agents' \subseteq Servers
        /\ permissions' = WithoutUser(u)
    BY <1>0, <1>4 DEF DeleteUser
  <2>2. Table(permissions')
    BY <1>0, <2>1 DEF Table, WithoutUser
  <2>3. \A v \in Users \ {u}, s \in Servers, p \in Paths :
           permissions'[<<v, s, p>>] = permissions[<<v, s, p>>]
    BY <2>1 DEF WithoutUser, Keys
  <2>4. \A s \in Servers, p \in Paths : permissions'[<<u, s, p>>] = NoRow
    BY <2>1 DEF WithoutUser, Keys
  <2>5. CASE ReloadUserCache(WithoutUser(u), u)
    <3>1. ReloadUserCache(permissions', u)
      BY <2>1, <2>5
    <3>2. /\ cache' \in [Users -> [Servers -> Seq(Rules)]]
          /\ RowsAreCached'
      BY <2>2, <2>3, <3>1, ReloadingStepInv
    <3> QED
      BY <2>1, <2>2, <3>2 DEF StoreInv, TypeOK, Table
  <2>6. CASE UNCHANGED cache
    <3>1. RowsAreCached'
      BY <2>3, <2>4, <2>6, RemovingStepInv
    <3> QED
      BY <2>1, <2>2, <2>6, <3>1 DEF StoreInv, TypeOK, Table
  <2> QED
    BY <1>4, <2>5, <2>6 DEF DeleteUser
<1>5. ASSUME NEW s \in Servers, AddAgent(s) PROVE StoreInv'
  BY <1>5 DEF AddAgent, StoreInv, TypeOK, RowsAreCached
<1>6. ASSUME NEW s \in Servers, DeleteAgent(s) PROVE StoreInv'
  <2>1. /\ users' \subseteq Users /\ agents' \subseteq Servers
        /\ permissions' = WithoutAgent(s) /\ UNCHANGED cache
    BY <1>0, <1>6 DEF DeleteAgent
  <2>2. Table(permissions')
    BY <1>0, <2>1 DEF Table, WithoutAgent
  <2>3. \A u \in Users, t \in Servers \ {s}, p \in Paths :
           permissions'[<<u, t, p>>] = permissions[<<u, t, p>>]
    BY <2>1 DEF WithoutAgent, Keys
  <2>4. \A u \in Users, p \in Paths : permissions'[<<u, s, p>>] = NoRow
    BY <2>1 DEF WithoutAgent, Keys
  <2>5. RowsAreCached'
    BY <2>1, <2>3, <2>4, RemovingStepInv
  <2> QED
    BY <2>1, <2>2, <2>5 DEF StoreInv, TypeOK, Table
<1>7. ASSUME NEW u \in Users, NEW s \in Servers, NEW p \in Paths,
             NEW row \in GrantTokens \union {NoRow},
             permissions' = [permissions EXCEPT ![<<u, s, p>>] = row],
             ReloadUserCache(permissions', u),
             UNCHANGED <<users, agents>>
      PROVE StoreInv'
  <2>1. <<u, s, p>> \in Keys
    BY DEF Keys
  <2>2. Table(permissions')
    BY <1>0, <1>7, <2>1 DEF Table
  <2>3. \A v \in Users \ {u}, t \in Servers, q \in Paths :
           permissions'[<<v, t, q>>] = permissions[<<v, t, q>>]
    BY <1>0, <1>7 DEF Table, Keys
  <2>4. /\ cache' \in [Users -> [Servers -> Seq(Rules)]]
        /\ RowsAreCached'
    BY <1>7, <2>2, <2>3, ReloadingStepInv
  <2> QED
    BY <1>0, <1>7, <2>2, <2>4 DEF StoreInv, TypeOK, Table
<1>8. ASSUME NEW u \in Users, NEW s \in Servers, NEW p \in Paths,
             NEW tokens \in GrantTokens, Grant(u, s, p, tokens)
      PROVE StoreInv'
  BY <1>7, <1>8 DEF Grant
<1>9. ASSUME NEW u \in Users, LazyReload(u) PROVE StoreInv'
  <2>1. ReloadUserCache(permissions', u) /\ UNCHANGED <<users, agents, permissions>>
    BY <1>9 DEF LazyReload
  <2>2. /\ cache' \in [Users -> [Servers -> Seq(Rules)]]
        /\ RowsAreCached'
    BY <1>0, <2>1, ReloadingStepInv DEF Table
  <2> QED
    BY <1>0, <2>1, <2>2 DEF StoreInv, TypeOK, Table
<1>10. CASE UNCHANGED vars
  BY <1>10 DEF vars, StoreInv, TypeOK, RowsAreCached
<1>11. ASSUME NEW u \in Users, NEW s \in Servers, NEW p \in Paths, Revoke(u, s, p)
       PROVE StoreInv'
  BY <1>7, <1>11 DEF Revoke
<1> QED
  BY <1>1, <1>2, <1>3, <1>4, <1>5, <1>6, <1>8, <1>9, <1>10, <1>11 DEF Next

\* The types hold and the table's rows are cached in every behaviour.
THEOREM StoreInvariant == Spec => []StoreInv
  BY StoreInitInv, StoreNextInv, PTL DEF Spec

\* Whatever commands, checks and restarts came before, a user's rows on a
\* server are all cached, the longest paths first.
THEOREM RowsStayCached == Spec => []RowsAreCached
  BY StoreInvariant, PTL DEF StoreInv

\* The database stays well formed and the cache holds rules with real rights.
THEOREM StoreTypeCorrect == Spec => []TypeOK
  BY StoreInvariant, PTL DEF StoreInv

\* An account that goes has lost its access in the same step, whether the
\* command runs to its end or a crash between its two statements restarts the
\* gateway.
THEOREM DeletedUsersLoseAccess == Spec => DeletedUserLosesAccess
<1>1. ASSUME StoreInv, [Next]_vars
      PROVE  [\A u \in Users :
                u \in users /\ u \notin users' =>
                   \A s \in Servers :
                      cache'[u][s] \in RuleLists(RulesOf(permissions', u, s))]_vars
  <2> SUFFICES ASSUME NEW u \in Users, u \in users, u \notin users', Next
               PROVE  \A s \in Servers :
                        cache'[u][s] \in RuleLists(RulesOf(permissions', u, s))
    BY <1>1 DEF vars
  <2>1. ASSUME NEW us, Boot(us, agents, permissions)
        PROVE  \A s \in Servers : cache'[u][s] \in RuleLists(RulesOf(permissions', u, s))
    BY <2>1, ReloadEffect DEF Boot
  <2>2. CASE Restart
    BY <2>1, <2>2 DEF Restart
  <2>3. ASSUME NEW v \in Users, RestartInDeleteUser(v)
        PROVE  \A s \in Servers : cache'[u][s] \in RuleLists(RulesOf(permissions', u, s))
    BY <2>1, <2>3 DEF RestartInDeleteUser
  <2>4. ASSUME NEW v \in Users, DeleteUser(v)
        PROVE  \A s \in Servers : cache'[u][s] \in RuleLists(RulesOf(permissions', u, s))
    <3>1. u = v /\ u \in users
      BY <2>4 DEF DeleteUser
    <3>2. permissions' = WithoutUser(u) /\ ReloadUserCache(WithoutUser(u), u)
      BY <2>4, <3>1 DEF DeleteUser
    <3>3. TypeOK
      BY <1>1 DEF StoreInv
    <3> QED
      BY <3>2, <3>3, ReloadUserEffect
  <2>5. \A v \in Users, s \in Servers, p \in Paths :
          ~Revoke(v, s, p) /\ \A tokens \in GrantTokens : ~Grant(v, s, p, tokens)
    BY DEF Revoke, Grant
  <2>6. \A s \in Servers : ~AddAgent(s) /\ ~DeleteAgent(s)
    BY DEF AddAgent, DeleteAgent
  <2>7. \A v \in Users : ~AddUser(v) /\ ~LazyReload(v)
    BY DEF AddUser, LazyReload
  <2> QED
    BY <2>2, <2>3, <2>4, <2>5, <2>6, <2>7 DEF Next
<1> QED
  BY <1>1, StoreInvariant, PTL DEF Spec, DeletedUserLosesAccess

-----------------------------------------------------------------------------
(* The first rule that covers the target is the closest one.               *)

\* Scanning a list sorted by path length decides as the tree of paths does.
LEMMA FirstIsClosest ==
    ASSUME StoreInv, NEW u \in Users, NEW s \in Servers,
           cache[u][s] \in RuleLists(RulesOf(permissions, u, s)),
           NEW target \in Paths, NEW right
    PROVE  CheckPermission(u, s, target, right)
               <=> TableAllows(u, s, target, right)
<1> DEFINE R == RulesOf(permissions, u, s)
           l == cache[u][s]
<1>1. /\ R \subseteq Rules
      /\ Cardinality(R) \in Nat
  <2>1. R \subseteq Rules /\ IsFiniteSet(R)
    BY RulesOfType
  <2> QED
    BY <2>1, FS_CardinalityType
<1>2. /\ DOMAIN l = 1 .. Cardinality(R)
      /\ \A i \in DOMAIN l : l[i] \in R /\ l[i].path \in Paths
      /\ \A rule \in R : \E i \in DOMAIN l : l[i] = rule
      /\ \A i, j \in DOMAIN l : l[i] = l[j] => i = j
      /\ \A i, j \in DOMAIN l :
            i < j => PathLength[l[i].path] >= PathLength[l[j].path]
  <2>1. l \in [1 .. Cardinality(R) -> R]
    BY DEF RuleLists
  <2>2. \A rule \in R : rule.path \in Paths
    BY <1>1 DEF Rules
  <2>3. \A i \in DOMAIN l : l[i] \in R
    BY <2>1
  <2>4. /\ \A rule \in R : \E i \in DOMAIN l : l[i] = rule
        /\ \A i, j \in DOMAIN l : l[i] = l[j] => i = j
        /\ \A i, j \in DOMAIN l :
              i < j => PathLength[l[i].path] >= PathLength[l[j].path]
    BY DEF RuleLists
  <2>5. DOMAIN l = 1 .. Cardinality(R)
    BY <2>1
  <2>6. \A i \in DOMAIN l : l[i].path \in Paths
    BY <2>2, <2>3
  <2> HIDE DEF l, R
  <2> QED
    BY <2>3, <2>4, <2>5, <2>6
<1>3. ASSUME NEW p \in R, NEW q \in R, p.path = q.path PROVE p = q
  <2> DEFINE rule(x) ==
                [path |-> x, rights |-> RightsOf(permissions[<<u, s, x>>])]
  <2>1. PICK x \in Paths : p = rule(x)
    BY DEF RulesOf
  <2>2. PICK y \in Paths : q = rule(y)
    BY DEF RulesOf
  <2>3. x = y
    BY <1>3, <2>1, <2>2
  <2> QED
    BY <2>1, <2>2, <2>3
<1>4. \A p \in Paths : PathLength[p] \in Nat
  BY PathAssumption
<1>5. ASSUME CheckPermission(u, s, target, right)
      PROVE  TableAllows(u, s, target, right)
  <2>1. PICK i \in DOMAIN l :
           /\ Covers(l[i].path, target)
           /\ \A j \in DOMAIN l : j < i => ~Covers(l[j].path, target)
           /\ right \in l[i].rights
    BY <1>5 DEF CheckPermission
  <2>2. ASSUME NEW other \in R, Covers(other.path, target)
        PROVE  Covers(other.path, l[i].path)
    <3>1. PICK j \in DOMAIN l : l[j] = other
      BY <1>2
    <3>2. ~(j < i)
      BY <2>1, <2>2, <3>1
    <3>3. CASE j = i
      <4>1. PathLength[other.path] <= PathLength[l[i].path]
        BY <1>2, <1>4, <3>1, <3>3
      <4> QED
        BY <1>2, <2>1, <2>2, <3>1, <4>1, PathAssumption
    <3>4. CASE i < j
      <4>1. PathLength[other.path] <= PathLength[l[i].path]
        BY <1>2, <1>4, <3>1, <3>4
      <4> QED
        BY <1>2, <2>1, <2>2, <3>1, <4>1, PathAssumption
    <3>5. i \in Int /\ j \in Int
      BY <1>1, <1>2
    <3> QED
      BY <3>2, <3>3, <3>4, <3>5
  <2> QED
    BY <1>2, <2>1, <2>2 DEF TableAllows
<1>6. ASSUME TableAllows(u, s, target, right)
      PROVE  CheckPermission(u, s, target, right)
  <2>1. PICK rule \in R :
           /\ Covers(rule.path, target)
           /\ \A other \in R :
                 Covers(other.path, target) => Covers(other.path, rule.path)
           /\ right \in rule.rights
    BY <1>6 DEF TableAllows
  <2>2. PICK i \in DOMAIN l : l[i] = rule
    BY <1>2
  <2>3. ASSUME NEW j \in DOMAIN l, j < i, Covers(l[j].path, target)
        PROVE  FALSE
    <3>1. Covers(l[j].path, rule.path)
      BY <1>2, <2>1, <2>3
    <3>2. PathLength[l[j].path] >= PathLength[rule.path]
      BY <1>2, <2>2, <2>3
    <3>3. l[j].path = rule.path
      BY <1>2, <1>4, <2>2, <3>1, <3>2, PathAssumption
    <3>4. l[j] = l[i]
      BY <1>1, <1>2, <1>3, <2>2, <3>3
    <3>5. i = j
      BY <1>2, <3>4
    <3> QED
      BY <1>1, <1>2, <2>3, <3>5
  <2> QED
    BY <2>1, <2>2, <2>3 DEF CheckPermission
<1> QED
  BY <1>5, <1>6

\* As long as the table has a row for a user on a server, checks there decide
\* as the closest rule in the table does.
THEOREM ChecksAlwaysFollowRows == Spec => []ChecksFollowRows
<1>1. StoreInv => ChecksFollowRows
  <2> SUFFICES ASSUME StoreInv, NEW u \in Users, NEW s \in Servers,
                      RulesOf(permissions, u, s) # {}
               PROVE  /\ IsServerAuthorized(u, s)
                      /\ \A target \in Paths, right \in Rights :
                            CheckPermission(u, s, target, right)
                                <=> TableAllows(u, s, target, right)
    BY DEF ChecksFollowRows
  <2>1. cache[u][s] \in RuleLists(RulesOf(permissions, u, s))
    BY DEF StoreInv, RowsAreCached
  <2>2. IsServerAuthorized(u, s)
    <3>1. PICK rule : rule \in RulesOf(permissions, u, s)
      OBVIOUS
    <3>2. \E i \in DOMAIN cache[u][s] : cache[u][s][i] = rule
      BY <2>1, <3>1 DEF RuleLists
    <3>3. DOMAIN << >> = {}
      OBVIOUS
    <3> QED
      BY <3>2, <3>3 DEF IsServerAuthorized
  <2> QED
    BY <2>1, <2>2, FirstIsClosest
<1> QED
  BY <1>1, StoreInvariant, PTL

-----------------------------------------------------------------------------
(* When the cache is stale.                                                *)

\* What is cached of user u on server s is what the table says.
IsFresh(u, s) == cache[u][s] \in RuleLists(RulesOf(permissions, u, s))

\* The commands that take rows away and do not tell the cache: delagent, and
\* deluser of a name that has rows but no account.
UntoldDeletion(u, s) == DeleteAgent(s) \/ (u \notin users /\ DeleteUser(u))

\* A step that reloads what it changes leaves what was fresh fresh.
LEMMA ReloadKeepsFresh ==
    ASSUME TypeOK, NEW v \in Users, ReloadUserCache(permissions', v),
           \A w \in Users \ {v}, t \in Servers, p \in Paths :
              permissions'[<<w, t, p>>] = permissions[<<w, t, p>>],
           NEW u \in Users, NEW s \in Servers, IsFresh(u, s)
    PROVE  IsFresh(u, s)'
<1>1. /\ \A t \in Servers : cache'[v][t] \in RuleLists(RulesOf(permissions', v, t))
      /\ \A w \in Users \ {v} : cache'[w] = cache[w]
  BY ReloadUserEffect
<1>2. CASE u = v
  BY <1>1, <1>2 DEF IsFresh
<1>3. CASE u # v
  <2>1. RulesOf(permissions', u, s) = RulesOf(permissions, u, s)
    BY <1>3, RulesOfSame
  <2> QED
    BY <1>1, <1>3, <2>1 DEF IsFresh
<1> QED
  BY <1>2, <1>3

\* Of the commands, checks and restarts no other makes the cache stale.
LEMMA FreshStep ==
    ASSUME StoreInv, [Next]_vars, NEW u \in Users, NEW s \in Servers, IsFresh(u, s)
    PROVE  IsFresh(u, s)' \/ UntoldDeletion(u, s)
<1>0. TypeOK /\ Table(permissions)
  BY DEF StoreInv, TypeOK, Table
<1>1. ASSUME NEW us, Boot(us, agents, permissions) PROVE IsFresh(u, s)'
  BY <1>1, ReloadEffect DEF Boot, IsFresh
<1>2. ASSUME NEW v \in Users, NEW t \in Servers, NEW p \in Paths, NEW row,
             permissions' = [permissions EXCEPT ![<<v, t, p>>] = row],
             ReloadUserCache(permissions', v)
      PROVE  IsFresh(u, s)'
  <2>1. \A w \in Users \ {v}, x \in Servers, q \in Paths :
           permissions'[<<w, x, q>>] = permissions[<<w, x, q>>]
    BY <1>0, <1>2 DEF Table, Keys
  <2> QED
    BY <1>0, <1>2, <2>1, ReloadKeepsFresh
<1>3. ASSUME NEW v \in Users, DeleteUser(v) PROVE IsFresh(u, s)' \/ UntoldDeletion(u, s)
  <2>1. permissions' = WithoutUser(v)
    BY <1>3 DEF DeleteUser
  <2>2. \A w \in Users \ {v}, x \in Servers, q \in Paths :
           permissions'[<<w, x, q>>] = permissions[<<w, x, q>>]
    BY <2>1 DEF WithoutUser, Keys
  <2>3. CASE ReloadUserCache(WithoutUser(v), v)
    <3>1. ReloadUserCache(permissions', v)
      BY <2>1, <2>3
    <3> QED
      BY <1>0, <2>2, <3>1, ReloadKeepsFresh
  <2>4. CASE v \notin users /\ UNCHANGED cache /\ u # v
    <3>1. RulesOf(permissions', u, s) = RulesOf(permissions, u, s)
      BY <2>2, <2>4, RulesOfSame
    <3> QED
      BY <2>4, <3>1 DEF IsFresh
  <2>5. CASE v \notin users /\ u = v
    BY <1>3, <2>5 DEF UntoldDeletion
  <2> QED
    BY <1>3, <2>3, <2>4, <2>5 DEF DeleteUser
<1>4. ASSUME NEW t \in Servers, DeleteAgent(t) PROVE IsFresh(u, s)' \/ UntoldDeletion(u, s)
  <2>1. CASE t # s
    <3>1. \A q \in Paths : permissions'[<<u, s, q>>] = permissions[<<u, s, q>>]
      BY <1>4, <2>1 DEF DeleteAgent, WithoutAgent, Keys
    <3>2. RulesOf(permissions', u, s) = RulesOf(permissions, u, s)
      BY <3>1, RulesOfSame
    <3> QED
      BY <1>4, <3>2 DEF DeleteAgent, IsFresh
  <2>2. CASE t = s
    BY <1>4, <2>2 DEF UntoldDeletion
  <2> QED
    BY <2>1, <2>2
<1>5. ASSUME NEW v \in Users, LazyReload(v) PROVE IsFresh(u, s)'
  <2>1. ReloadUserCache(permissions', v) /\ permissions' = permissions
    BY <1>5 DEF LazyReload
  <2> QED
    BY <1>0, <2>1, ReloadKeepsFresh
<1>6. ASSUME UNCHANGED <<permissions, cache>> PROVE IsFresh(u, s)'
  BY <1>6 DEF IsFresh
<1>7. CASE Restart \/ \E v \in Users : RestartInDeleteUser(v)
  BY <1>1, <1>7 DEF Restart, RestartInDeleteUser
<1>8. ASSUME NEW v \in Users, NEW t \in Servers, NEW p \in Paths,
             Revoke(v, t, p) \/ \E tokens \in GrantTokens : Grant(v, t, p, tokens)
      PROVE  IsFresh(u, s)'
  BY <1>2, <1>8 DEF Revoke, Grant
<1> QED
  BY <1>3, <1>4, <1>5, <1>6, <1>7, <1>8 DEF Next, AddUser, AddAgent, vars

\* ChecksMatchTable fails after a deletion that the cache is not told of, and
\* after nothing else: no other command, check or restart, in any order, makes
\* what is cached of a user on a server differ from the table.
THEOREM StaleOnlyByDeletion ==
    Spec => [][\A u \in Users, s \in Servers :
                  IsFresh(u, s) /\ ~UntoldDeletion(u, s) => IsFresh(u, s)']_vars
<1>1. ASSUME StoreInv, [Next]_vars
      PROVE  [\A u \in Users, s \in Servers :
                  IsFresh(u, s) /\ ~UntoldDeletion(u, s) => IsFresh(u, s)']_vars
  BY <1>1, FreshStep
<1> QED
  BY <1>1, StoreInvariant, PTL DEF Spec

\* No agent is deleted, and no name without an account.
NoUntoldDeletion == [][\A u \in Users, s \in Servers : ~UntoldDeletion(u, s)]_vars

\* Without such deletions every check decides as the table does, for users
\* that have lost their last row on a server too.
THEOREM ChecksMatchTableUnlessDeleted == Spec /\ NoUntoldDeletion => []ChecksMatchTable
<1> DEFINE AllFresh == \A u \in Users, s \in Servers : IsFresh(u, s)
<1>1. Init => AllFresh
  <2> SUFFICES ASSUME Init, NEW u \in Users, NEW s \in Servers PROVE IsFresh(u, s)
    OBVIOUS
  <2>1. RulesOf(permissions, u, s) = {}
    BY DEF Init, RulesOf, Keys
  <2>2. cache[u][s] = << >>
    BY DEF Init
  <2>3. Cardinality({}) = 0 /\ 1 .. 0 = {}
    BY FS_EmptySet
  <2>4. << >> \in [1 .. 0 -> {}] /\ DOMAIN << >> = {}
    BY <2>3
  <2>5. << >> \in RuleLists({})
    BY <2>3, <2>4 DEF RuleLists
  <2> QED
    BY <2>1, <2>2, <2>5 DEF IsFresh
<1>2. ASSUME StoreInv, AllFresh, [Next]_vars,
             [\A u \in Users, s \in Servers : ~UntoldDeletion(u, s)]_vars
      PROVE  AllFresh'
  <2>1. CASE UNCHANGED vars
    BY <1>2, <2>1 DEF vars, IsFresh
  <2>2. CASE \A u \in Users, s \in Servers : ~UntoldDeletion(u, s)
    BY <1>2, <2>2, FreshStep
  <2> QED
    BY <1>2, <2>1, <2>2
<1>3. StoreInv /\ AllFresh => ChecksMatchTable
  BY FirstIsClosest DEF ChecksMatchTable, IsFresh
<1> HIDE DEF AllFresh
<1> QED
  BY <1>1, <1>2, <1>3, StoreInvariant, PTL DEF Spec, NoUntoldDeletion
=============================================================================
