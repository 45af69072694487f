------------------------- MODULE AuthenticationLoop -------------------------
(***************************************************************************)
(* NewAuthentication and Authentication.GetConfig step by step: the loop   *)
(* reads the AuthenticationClass of one entry at a time while others edit  *)
(* the classes, fills the map of authenticators and compares the settings  *)
(* of the user; GetConfig then goes over each list of the map.  Module     *)
(* Authentication says in closed form what must come out.                  *)
(***************************************************************************)
EXTENDS Authentication

CONSTANTS
    AuthLists,    \* values of clusterConfig.authentication
    ClassStates,  \* the states an AuthenticationClass takes
    MaxEdits      \* bound on edits of classes

ASSUME LoopAssumption ==
    /\ AuthLists \subseteq Seq(Entry)
    /\ ClassStates \subseteq ClassState
    /\ MaxEdits \in Nat

VARIABLES
    auths,     \* the argument
    classes,   \* the AuthenticationClass objects
    edits,     \* edits so far
    phase,     \* where the computation is, or how it ended
    i,         \* the entry, or the authenticator of a list, that is next
    oidcs,     \* authenticators[oidc]
    ldaps,     \* authenticators[ldap]
    settings,  \* syncRolesAt, userRegistration, userRegistrationRole
    data,      \* the keys for the LDAP template
    result,    \* the configuration that GetConfig returns
    read       \* history variable: the provider read for each entry so far

vars == <<auths, classes, edits, phase, i, oidcs, ldaps, settings, data,
          result, read>>

Ended == {"done", "readerror", "unsupported", "disagree", "panic", "template"}

TypeOK ==
    /\ auths \in AuthLists
    /\ classes \in [Classes -> ClassState]
    /\ edits \in 0..MaxEdits
    /\ phase \in {"entries", "ldap", "oidc"} \cup Ended
    /\ i \in 1..Len(auths) + 1
    /\ oidcs \in Seq(OidcAuthenticator)
    /\ ldaps \in Seq(LdapAuthenticator)
    /\ settings \in Settings \cup {None}
    /\ data \in Servers \cup {None}
    /\ result \in AuthConfig \cup {None}
    /\ read \in Seq(ClassState)

Init ==
    /\ auths \in AuthLists
    /\ classes \in [Classes -> ClassStates]
    /\ edits = 0
    /\ phase = "entries"
    /\ i = 1
    /\ oidcs = <<>>
    /\ ldaps = <<>>
    /\ settings = None
    /\ data = None
    /\ result = None
    /\ read = <<>>

EditClass ==
    /\ edits < MaxEdits
    /\ edits' = edits + 1
    /\ \E c \in Classes, p \in ClassStates \cup {None} :
          classes' = [classes EXCEPT ![c] = p]
    /\ UNCHANGED <<auths, phase, i, oidcs, ldaps, settings, data, result, read>>

-----------------------------------------------------------------------------
(* NewAuthentication.                                                      *)

Reading == phase = "entries" /\ i <= Len(auths)

\* A return, or a panic, in the middle of the loop.
Fail(how) ==
    /\ phase' = how
    /\ UNCHANGED <<i, oidcs, ldaps, settings, data, result>>

\* Get of the class fails with another error than NotFound.
ReadFails ==
    /\ Reading
    /\ Fail("readerror")
    /\ UNCHANGED <<auths, classes, edits, read>>

\* Variant of Agrees for testing ResultAsSpecified: only against an empty value.
AgreesWithAny == TRUE

\* The first entry has nothing to agree with.
Agrees == settings = None \/ settings = auths[i].settings

\* The body of the loop for an entry whose provider is p.
AddEntry(p) ==
    CASE ProviderMissing(p) -> Fail("panic")
      [] ~ProviderMissing(p) /\ ~ProviderSupported(p) -> Fail("unsupported")
      [] OTHER ->
            IF ~Agrees THEN Fail("disagree")
            ELSE /\ LET a == NewAuthenticator(auths[i], p)
                    IN  IF p.oidc
                        THEN oidcs' = Append(oidcs, a) /\ UNCHANGED ldaps
                        ELSE ldaps' = Append(ldaps, a) /\ UNCHANGED oidcs
                 /\ settings' = auths[i].settings
                 /\ i' = i + 1
                 /\ UNCHANGED <<phase, data, result>>

ReadEntry ==
    /\ Reading
    /\ LET p == classes[auths[i].class]
       IN  AddEntry(p) /\ read' = Append(read, p)
    /\ UNCHANGED <<auths, classes, edits>>

-----------------------------------------------------------------------------
(* GetConfig.                                                              *)

\* An empty map means the database, otherwise the LDAP block comes first.
StartConfig ==
    /\ phase = "entries"
    /\ i > Len(auths)
    /\ i' = 1
    /\ IF oidcs = <<>> /\ ldaps = <<>>
       THEN /\ phase' = "done"
            /\ result' = [types |-> <<"AUTH_DB">>, ldapServer |-> None]
       ELSE /\ phase' = "ldap"
            /\ UNCHANGED result
    /\ UNCHANGED <<auths, classes, edits, oidcs, ldaps, settings, data, read>>

\* Variant of LdapBlock for testing TypeOK: one authenticator too many.
LdapBlockPastEnd ==
    /\ phase = "ldap"
    /\ IF i > Len(ldaps) + 1
       THEN phase' = "oidc" /\ i' = 1 /\ UNCHANGED data
       ELSE /\ UNCHANGED phase
            /\ i' = i + 1
            /\ data' = IF i <= Len(ldaps) THEN ldaps[i].provider.server ELSE data
    /\ UNCHANGED <<auths, classes, edits, oidcs, ldaps, settings, result, read>>

\* The range over the LDAP authenticators copies the keys of each into data.
LdapBlock ==
    /\ phase = "ldap"
    /\ IF i > Len(ldaps)
       THEN phase' = "oidc" /\ i' = 1 /\ UNCHANGED data
       ELSE IF ~ldaps[i].provider.bind
       THEN phase' = "panic" /\ UNCHANGED <<i, data>>
       ELSE /\ UNCHANGED phase
            /\ i' = i + 1
            /\ data' = ldaps[i].provider.server
    /\ UNCHANGED <<auths, classes, edits, oidcs, ldaps, settings, result, read>>

\* The range over the OIDC authenticators, then the template.
OidcBlock ==
    /\ phase = "oidc"
    /\ IF i > Len(oidcs)
       THEN /\ phase' = IF oidcs = <<>> THEN "done" ELSE "template"
            /\ result' = IF oidcs = <<>>
                         THEN [types |-> <<"AUTH_LDAP", "AUTH_OAUTH">>,
                               ldapServer |-> data]
                         ELSE None
            /\ UNCHANGED i
       ELSE /\ phase' = IF oidcs[i].config THEN phase ELSE "panic"
            /\ i' = IF oidcs[i].config THEN i + 1 ELSE i
            /\ UNCHANGED result
    /\ UNCHANGED <<auths, classes, edits, oidcs, ldaps, settings, data, read>>

Next ==
    \/ EditClass
    \/ ReadFails
    \/ ReadEntry
    \/ StartConfig
    \/ LdapBlock
    \/ OidcBlock

Spec == Init /\ [][Next]_vars

-----------------------------------------------------------------------------

\* The authenticators, in the order of the entries.
Made == [j \in DOMAIN read |-> NewAuthenticator(auths[j], read[j])]

\* Whatever happens to the classes meanwhile, the outcome is the one that
\* module Authentication gives in closed form for the providers that were
\* read: accepted or not, rendered or not, and the same configuration.
ResultAsSpecified ==
    /\ phase \in {"panic", "unsupported", "disagree", "template"} =>
          \/ \E j \in DOMAIN read : ~EntryAccepted(auths, j, read[j])
          \/ ~Rendered(Made)
    /\ phase = "done" =>
          /\ Len(read) = Len(auths)
          /\ \A j \in DOMAIN auths : EntryAccepted(auths, j, read[j])
          /\ Rendered(Made)
          /\ result = GetConfig(Made)
=============================================================================
