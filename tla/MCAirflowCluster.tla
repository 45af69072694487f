-------------------------- MODULE MCAirflowCluster --------------------------
(***************************************************************************)
(* Small instances of AirflowCluster for TLC: one AuthenticationClass, one *)
(* or two role groups, and a handful of specifications chosen so that each *)
(* step of a pass can succeed and fail.                                    *)
(***************************************************************************)
EXTENDS AirflowCluster, TLC

CONSTANTS g1, g2, corp, ldap1, ldap2, image1, quiet, userA

MCSettings == {userA}

LdapAt(server, bind) == [oidc |-> FALSE, ldap |-> [server |-> server, bind |-> bind]]

OneClassState == {LdapAt(ldap1, TRUE)}

\* The class names one server or another.
MovingClassStates == {LdapAt(ldap1, TRUE), LdapAt(ldap2, TRUE)}

LdapEntry == [class |-> corp, oidc |-> FALSE, settings |-> userA]

ClusterConfig(auths, credentials, vector) ==
    [authentication |-> auths, credentials |-> credentials, vector |-> vector]

Plain == ClusterConfig(<<>>, TRUE, FALSE)

RoleWith(groups, replicas, config) ==
    [config |-> config,
     groups |-> [g \in Groups |->
                    IF g \in groups THEN [replicas |-> replicas, config |-> None]
                                    ELSE None]]

NoGroups == RoleWith({}, 1, None)

SpecWith(clusterConfig, stopped, workers, schedulers, webservers) ==
    [image |-> image1, stopped |-> stopped, clusterConfig |-> clusterConfig,
     roles |-> [celeryexecutors |-> workers, schedulers |-> schedulers,
                webservers |-> webservers]]

One(replicas, config) == RoleWith({g1}, replicas, config)

\* Without webservers a pass can reach its end.
Headless == SpecWith(Plain, FALSE, One(1, None), One(1, None), NoGroups)

\* The same, stopped and with other settings.
Stopped == SpecWith(Plain, TRUE, One(1, quiet), One(1, quiet), NoGroups)

NoSecret == SpecWith(ClusterConfig(<<>>, FALSE, FALSE), FALSE,
                     One(2, quiet), One(2, quiet), NoGroups)

NoSchedulers == SpecWith(Plain, FALSE, One(2, quiet), None, One(2, None))

\* Edits that take one another back, and versions that fail in either phase.
SafetySpecs == {Headless, Stopped, NoSecret, NoSchedulers}

\* Webservers that authenticate with LDAP and send logs to Vector.
LdapWebservers ==
    SpecWith(ClusterConfig(<<LdapEntry>>, TRUE, TRUE), FALSE,
             NoGroups, NoGroups, One(1, None))

\* Two groups of webservers.
TwoGroups == SpecWith(Plain, FALSE, NoGroups, NoGroups, RoleWith({g1, g2}, 1, None))

LiveSpecs == {LdapWebservers, TwoGroups}
ClassesSpecs == {LdapWebservers}
OptionalSpecs == {NoSchedulers}
=============================================================================
