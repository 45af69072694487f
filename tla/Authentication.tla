--------------------------- MODULE Authentication ---------------------------
(***************************************************************************)
(* What internal/controller/common/auth.go computes from the list          *)
(* clusterConfig.authentication and the AuthenticationClass objects it     *)
(* names: which lists are refused, which authenticators the others become, *)
(* and the part of webserver_config.py they are rendered to.               *)
(*                                                                         *)
(* Abstracted data.  An LDAP provider is the server it names and whether   *)
(* it carries bind credentials; the eight ldap_* fields follow the server. *)
(* The three values that must agree between entries (syncRolesAt,          *)
(* userRegistration, userRegistrationRole) are one value, "settings".      *)
(***************************************************************************)
EXTENDS Integers, Sequences

CONSTANTS
    Classes,   \* names of AuthenticationClass objects
    Servers,   \* LDAP servers
    Settings,  \* values of the triple of user settings of an entry
    None       \* an unset optional value, a missing object

ASSUME AuthenticationAssumption ==
    None \notin Classes \cup Servers \cup Settings

LdapProvider == [server : Servers, bind : BOOLEAN]

Provider == [oidc : BOOLEAN, ldap : LdapProvider \cup {None}]

\* An AuthenticationClass: its provider, or None when the object does not
\* exist (GetAuthProvider swallows NotFound) or has no provider set.
ClassState == Provider \cup {None}

\* One element of clusterConfig.authentication; "oidc" says that the
\* optional field of that name is present.
Entry == [class : Classes, oidc : BOOLEAN, settings : Settings]

OidcAuthenticator == [type : {"oidc"}, config : BOOLEAN]
LdapAuthenticator == [type : {"ldap"}, provider : LdapProvider]
Authenticator == OidcAuthenticator \cup LdapAuthenticator

-----------------------------------------------------------------------------
(* The loop of NewAuthentication, entry by entry.                          *)

\* Dereferencing the nil provider of a missing class panics.
ProviderMissing(p) == p = None

\* OIDC is preferred when a class offers both; neither is an error.
ProviderSupported(p) == p.oidc \/ p.ldap # None

NewAuthenticator(e, p) ==
    IF p.oidc THEN [type |-> "oidc", config |-> e.oidc]
              ELSE [type |-> "ldap", provider |-> p.ldap]

\* The first entry sets the user settings, every later one must repeat them.
SettingsAgree(auths, i) == auths[i].settings = auths[1].settings

EntryAccepted(auths, i, p) ==
    /\ ~ProviderMissing(p)
    /\ ProviderSupported(p)
    /\ SettingsAgree(auths, i)

\* NewAuthentication returns an Authentication, no error and no panic.
AuthenticationAccepted(auths, classes) ==
    \A i \in DOMAIN auths : EntryAccepted(auths, i, classes[auths[i].class])

\* Its authenticators in the order of the entries.  The code keeps one list
\* per type; the order inside each list is the order of the entries.
NewAuthenticators(auths, classes) ==
    [i \in DOMAIN auths |->
        NewAuthenticator(auths[i], classes[auths[i].class])]

-----------------------------------------------------------------------------
(* Authentication.GetConfig: the LDAP block, then the OIDC block.          *)

LdapIndexes(as) == {i \in DOMAIN as : as[i].type = "ldap"}
OidcIndexes(as) == {i \in DOMAIN as : as[i].type = "oidc"}

\* ldapAuthenticator.GetConfig reads BindCredentials.SecretClass before it
\* tests BindCredentials for nil.
LdapPanics(as) == \E i \in LdapIndexes(as) : ~as[i].provider.bind

\* oidcAuthenticator.GetConfig reads config.ExtraScopes of an entry that may
\* have no oidc field.
OidcPanics(as) == \E i \in OidcIndexes(as) : ~as[i].config

\* The template ranges over a map of strings and selects .client_id of each,
\* which text/template refuses as soon as the map has an element.
OidcTemplateFails(as) == OidcIndexes(as) # {}

Rendered(as) == ~LdapPanics(as) /\ ~OidcPanics(as) /\ ~OidcTemplateFails(as)

\* Every LDAP authenticator overwrites the keys of the one before it.
LdapServer(as) ==
    IF LdapIndexes(as) = {} THEN None
    ELSE as[CHOOSE i \in LdapIndexes(as) :
              \A j \in LdapIndexes(as) : j <= i].provider.server

\* AUTH_TYPE is assigned by each block in turn; Python keeps the last one.
AuthTypes(as) ==
    IF as = <<>> THEN <<"AUTH_DB">> ELSE <<"AUTH_LDAP", "AUTH_OAUTH">>

\* The configuration GetConfig returns when Rendered(as).
GetConfig(as) == [types |-> AuthTypes(as), ldapServer |-> LdapServer(as)]

AuthConfig == [types : {<<"AUTH_DB">>, <<"AUTH_LDAP", "AUTH_OAUTH">>},
               ldapServer : Servers \cup {None}]
=============================================================================
