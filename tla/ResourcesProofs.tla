--------------------------- MODULE ResourcesProofs --------------------------
(***************************************************************************)
(* Facts about the operators of Authentication and Resources, for every    *)
(* value of their constants.                                               *)
(***************************************************************************)
EXTENDS Resources, SequenceTheorems, WellFoundedInduction, TLAPS

\* A non-empty set of indexes of a sequence has a greatest element, so the
\* CHOOSE in LdapServer names the last LDAP entry of auth.go's loop.
LEMMA GreatestIndex ==
    ASSUME NEW n \in Nat, NEW S \in SUBSET (1..n), S # {}
    PROVE  \E i \in S : \A j \in S : j <= i
<1> DEFINE T == {m \in 0..n : n - m \in S}
<1>1. T \subseteq Nat
  OBVIOUS
<1>2. T # {}
  <2>1. PICK i \in S : TRUE
    OBVIOUS
  <2>2. i \in 1..n /\ n - i \in 0..n /\ n - (n - i) = i
    BY <2>1
  <2> QED
    BY <2>1, <2>2
<1>3. PICK m \in T : \A x \in T : ~(<<x, m>> \in OpToRel(<, Nat))
  <2> HIDE DEF T
  <2> QED
    BY <1>1, <1>2, WFMin, NatLessThanWellFounded
<1>4. \A x \in T : m <= x
  <2> SUFFICES ASSUME NEW x \in T PROVE m <= x
    OBVIOUS
  <2>1. <<x, m>> \notin {ss \in Nat \X Nat : ss[1] < ss[2]}
    BY <1>3 DEF OpToRel
  <2> QED
    BY <1>1, <2>1
<1>5. \A j \in S : j <= n - m
  <2> SUFFICES ASSUME NEW j \in S PROVE j <= n - m
    OBVIOUS
  <2>1. n - j \in 0..n /\ n - (n - j) = j /\ j \in Int /\ m \in Int
    OBVIOUS
  <2>2. m <= n - j
    BY <1>4, <2>1
  <2> QED
    BY <2>1, <2>2
<1> QED
  BY <1>5

\* GetConfig names the server of some LDAP authenticator, or none.
LEMMA GetConfigType ==
    ASSUME NEW as \in Seq(Authenticator)
    PROVE  GetConfig(as) \in AuthConfig
<1>1. LdapServer(as) \in Servers \cup {None}
  <2>1. CASE LdapIndexes(as) = {}
    BY <2>1 DEF LdapServer
  <2>2. CASE LdapIndexes(as) # {}
    <3>1. LdapIndexes(as) \in SUBSET (1..Len(as)) /\ Len(as) \in Nat
      BY LenProperties DEF LdapIndexes
    <3> DEFINE last == CHOOSE i \in LdapIndexes(as) :
                          \A j \in LdapIndexes(as) : j <= i
    <3>2. last \in LdapIndexes(as)
      BY <2>2, <3>1, GreatestIndex
    <3>3. as[last] \in Authenticator /\ as[last].type = "ldap"
      <4> HIDE DEF last
      <4> QED
        BY <3>1, <3>2, ElementOfSeq DEF LdapIndexes
    <3>4. as[last].provider.server \in Servers
      BY <3>3 DEF Authenticator, OidcAuthenticator, LdapAuthenticator,
                  LdapProvider
    <3> QED
      BY <2>2, <3>4 DEF LdapServer
  <2> QED
    BY <2>1, <2>2
<1>2. AuthTypes(as) \in {<<"AUTH_DB">>, <<"AUTH_LDAP", "AUTH_OAUTH">>}
  BY DEF AuthTypes
<1> QED
  BY <1>1, <1>2 DEF GetConfig, AuthConfig

\* NewAuthentication, when it accepts the entries, makes one authenticator of
\* each.
LEMMA NewAuthenticatorsType ==
    ASSUME NEW auths \in Seq(Entry), NEW classes \in [Classes -> ClassState],
           AuthenticationAccepted(auths, classes)
    PROVE  NewAuthenticators(auths, classes) \in Seq(Authenticator)
<1>1. ASSUME NEW i \in 1..Len(auths)
      PROVE  NewAuthenticator(auths[i], classes[auths[i].class])
                \in Authenticator
  <2> DEFINE p == classes[auths[i].class]
  <2>1. auths[i] \in Entry
    OBVIOUS
  <2>2. p \in Provider /\ (p.oidc \/ p.ldap # None)
    BY <2>1 DEF AuthenticationAccepted, EntryAccepted, ProviderMissing,
                ProviderSupported, Entry, ClassState
  <2>3. CASE p.oidc
    BY <2>1, <2>3 DEF NewAuthenticator, Entry, Authenticator, OidcAuthenticator
  <2>4. CASE ~p.oidc
    <3>1. p.ldap \in LdapProvider
      BY <2>2, <2>4 DEF Provider
    <3> QED
      BY <2>4, <3>1 DEF NewAuthenticator, Authenticator, LdapAuthenticator
  <2> QED
    BY <2>3, <2>4
<1>2. Len(auths) \in Nat /\ DOMAIN auths = 1..Len(auths)
  OBVIOUS
<1> QED
  BY <1>1, <1>2 DEF NewAuthenticators

\* What the four builders make is an object.
LEMMA BuildType ==
    ASSUME NEW s \in AirflowClusterSpec, NEW item \in Item,
           s.clusterConfig # None,
           <<item.role, item.group>> \in RoleGroupsOf(s)
    PROVE  Build(item, s) \in Object
<1>1. s.roles[item.role] \in RoleSpec
  BY DEF AirflowClusterSpec, Item, RoleGroupsOf
<1>2. s.roles[item.role].groups[item.group] \in GroupSpec
  BY <1>1 DEF RoleSpec, Item, RoleGroupsOf
<1>3. GroupConfig(s, item.role, item.group) \in OptionalConfig
  BY <1>1, <1>2 DEF GroupConfig, MergeObject, RoleSpec, GroupSpec
<1>4. CASE item.kind = "configmap"
  <2>1. s.clusterConfig.vector \in BOOLEAN
    BY DEF AirflowClusterSpec, ClusterConfigSpec
  <2>2. item.auth # None => GetConfig(item.auth) \in AuthConfig
    BY GetConfigType DEF Item, AuthValue
  <2> QED
    BY <1>3, <1>4, <2>1, <2>2
       DEF Build, BuildConfigMap, ConfigMap, Object
<1>5. CASE item.kind = "statefulset"
  <2>1. s.image \in Images
    BY DEF AirflowClusterSpec
  <2> QED
    BY <1>2, <1>3, <1>5, <2>1
       DEF Build, BuildStatefulSet, StatefulSet, GroupSpec, Object
<1>6. CASE item.kind \notin {"configmap", "statefulset"}
  BY <1>6 DEF Build, BuildService, Service, Object, Port
<1> QED
  BY <1>4, <1>5, <1>6

\* The key of a reconciler is a key.
LEMMA ItemKeyType ==
    ASSUME NEW item \in Item
    PROVE  ItemKey(item) \in Key
BY DEF ItemKey, KeyOf, Key, Item, ItemKind, ObjectKind, ObjectKindOf

\* The reconcilers of a role group: their types, their common role group,
\* the ConfigMap before the StatefulSet, an object of each kind, and the two
\* services of a webserver group side by side.
LEMMA ReconcilersProperties ==
    ASSUME NEW r \in Role, NEW g \in Groups, NEW auth \in AuthValue
    PROVE  LET p == Reconcilers(r, g, auth)
           IN  /\ p \in Seq(Item)
               /\ Len(p) = IF r = "webservers" THEN 4 ELSE 3
               /\ \A i \in 1..Len(p) : p[i].role = r /\ p[i].group = g
               /\ p[1].kind = "configmap"
               /\ p[2].kind = "statefulset"
               /\ r # "webservers" => p[3].kind = "metrics"
               /\ r = "webservers" => /\ p[3].kind = "service"
                                      /\ p[4].kind = "metrics"
<1> DEFINE p == Reconcilers(r, g, auth)
<1>1. CASE r = "webservers"
  <2>1. ItemKinds(r) = <<"configmap", "statefulset", "service", "metrics">>
    BY <1>1 DEF ItemKinds
  <2>2. /\ DOMAIN p = 1..4
        /\ \A i \in 1..4 : p[i] = [kind |-> ItemKinds(r)[i], role |-> r,
                                   group |-> g, auth |-> auth]
    BY <2>1 DEF Reconcilers
  <2>3. \A i \in 1..4 : p[i] \in Item
    BY <2>1, <2>2 DEF Item, ItemKind
  <2>4. p \in Seq(Item) /\ Len(p) = 4
    BY <2>2, <2>3 DEF Reconcilers
  <2> QED
    BY <1>1, <2>1, <2>2, <2>4
<1>2. CASE r # "webservers"
  <2>1. ItemKinds(r) = <<"configmap", "statefulset", "metrics">>
    BY <1>2 DEF ItemKinds
  <2>2. /\ DOMAIN p = 1..3
        /\ \A i \in 1..3 : p[i] = [kind |-> ItemKinds(r)[i], role |-> r,
                                   group |-> g, auth |-> auth]
    BY <2>1 DEF Reconcilers
  <2>3. \A i \in 1..3 : p[i] \in Item
    BY <2>1, <2>2 DEF Item, ItemKind
  <2>4. p \in Seq(Item) /\ Len(p) = 3
    BY <2>2, <2>3 DEF Reconcilers
  <2> QED
    BY <1>2, <2>1, <2>2, <2>4
<1> QED
  BY <1>1, <1>2
=============================================================================
