------------------------ MODULE MCAuthenticationLoop ------------------------
(***************************************************************************)
(* Instances of AuthenticationLoop: two classes, two LDAP servers, lists   *)
(* of at most two entries with agreeing and disagreeing settings.          *)
(***************************************************************************)
EXTENDS AuthenticationLoop

CONSTANTS c1, c2, ldap1, ldap2, userA, userB

MCServers == {ldap1, ldap2}
MCSettings == {userA, userB}

Ldap(server, bind) ==
    [oidc |-> FALSE, ldap |-> [server |-> server, bind |-> bind]]

\* OIDC and LDAP in one class, OIDC only, neither, LDAP without credentials.
MCClassStates ==
    {Ldap(ldap1, TRUE), Ldap(ldap2, TRUE), Ldap(ldap1, FALSE),
     [oidc |-> TRUE, ldap |-> [server |-> ldap1, bind |-> TRUE]],
     [oidc |-> TRUE, ldap |-> None], [oidc |-> FALSE, ldap |-> None]}

EntriesOf(cs, os, ss) == [class : cs, oidc : os, settings : ss]

First == EntriesOf({c1}, BOOLEAN, {userA})
Second == EntriesOf({c1, c2}, BOOLEAN, {userA, userB})

MCAuthLists == {<<>>} \cup {<<e>> : e \in First} \cup (First \X Second)
=============================================================================
