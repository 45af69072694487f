---------------------- MODULE AuthenticationLoopProofs ----------------------
(***************************************************************************)
(* Proofs about AuthenticationLoop: for lists of any length, any number of *)
(* classes and any edits of them, the step-by-step code computes what      *)
(* module Authentication says.                                             *)
(***************************************************************************)
EXTENDS AuthenticationLoop, TLAPS

\* The authenticator made of the entry that was read j-th.
MadeAt(j) == NewAuthenticator(auths[j], read[j])

\* Entries up to the last one read have been accepted.
AllAccepted == \A j \in DOMAIN read : EntryAccepted(auths, j, read[j])

\* Each list of the map holds what was made of that type, the last one last.
Split ==
    /\ Len(ldaps) + Len(oidcs) = Len(read)
    /\ \A k \in DOMAIN oidcs : \E j \in DOMAIN read : oidcs[k] = MadeAt(j)
    /\ \A k \in DOMAIN ldaps : \E j \in DOMAIN read : ldaps[k] = MadeAt(j)
    /\ \A j \in DOMAIN read :
          \/ \E k \in DOMAIN oidcs : oidcs[k] = MadeAt(j)
          \/ \E k \in DOMAIN ldaps : ldaps[k] = MadeAt(j)
    /\ ldaps # <<>> =>
          \E j \in DOMAIN read :
             /\ ldaps[Len(ldaps)] = MadeAt(j)
             /\ \A k \in DOMAIN read : MadeAt(k).type = "ldap" => k <= j

\* While the entries are read.
EntriesInv ==
    phase = "entries" =>
        /\ i = Len(read) + 1
        /\ AllAccepted
        /\ Split
        /\ settings = IF read = <<>> THEN None ELSE auths[1].settings
        /\ data = None

\* The server of the k-th LDAP authenticator; none before the first.
ServerAt(k) == IF k = 0 THEN None ELSE ldaps[k].provider.server

\* While the LDAP authenticators are gone through.
LdapInv ==
    phase = "ldap" =>
        /\ i <= Len(ldaps) + 1
        /\ \A k \in 1..i - 1 : ldaps[k].provider.bind
        /\ data = ServerAt(i - 1)

\* While the OIDC authenticators are gone through.
OidcInv ==
    phase = "oidc" =>
        /\ i <= Len(oidcs) + 1
        /\ \A k \in DOMAIN ldaps : ldaps[k].provider.bind
        /\ data = ServerAt(Len(ldaps))

\* After the entries: all of them have been read and accepted.
ConfigInv ==
    phase \in {"ldap", "oidc"} =>
        /\ Len(read) = Len(auths)
        /\ AllAccepted
        /\ Split
        /\ read # <<>>

IInv ==
    /\ TypeOK
    /\ Len(read) <= Len(auths)
    /\ EntriesInv
    /\ LdapInv
    /\ OidcInv
    /\ ConfigInv
    /\ ResultAsSpecified

-----------------------------------------------------------------------------

\* What an accepted entry is made to.
LEMMA AuthenticatorType ==
    ASSUME NEW e \in Entry, NEW p \in ClassState,
           ~ProviderMissing(p), ProviderSupported(p)
    PROVE  /\ p.oidc \in BOOLEAN
           /\ p.oidc => NewAuthenticator(e, p) \in OidcAuthenticator
           /\ ~p.oidc => NewAuthenticator(e, p) \in LdapAuthenticator
<1>1. p \in Provider
  BY DEF ClassState, ProviderMissing
<1>2. p.oidc \in BOOLEAN /\ p.ldap \in LdapProvider \cup {None}
  BY <1>1 DEF Provider
<1>3. e.oidc \in BOOLEAN
  BY DEF Entry
<1>4. CASE p.oidc
  BY <1>2, <1>3, <1>4 DEF NewAuthenticator, OidcAuthenticator
<1>5. CASE ~p.oidc
  <2>1. p.ldap \in LdapProvider
    BY <1>2, <1>5 DEF ProviderSupported
  <2> QED
    BY <1>2, <1>5, <2>1 DEF NewAuthenticator, LdapAuthenticator
<1> QED
  BY <1>2, <1>4, <1>5

\* A record is of one of the two kinds only.
LEMMA KindsDisjoint ==
    /\ \A a \in OidcAuthenticator : a.type = "oidc" /\ a.config \in BOOLEAN
    /\ \A a \in LdapAuthenticator : a.type = "ldap" /\ a.provider \in LdapProvider
BY DEF OidcAuthenticator, LdapAuthenticator

\* Made is the sequence of the authenticators MadeAt.
LEMMA MadeProperty ==
    /\ DOMAIN Made = DOMAIN read
    /\ \A j \in DOMAIN read : Made[j] = MadeAt(j)
BY DEF Made, MadeAt

\* The lists tell whether rendering works: OIDC authenticators are in oidcs
\* and LDAP authenticators in ldaps.
LEMMA RenderedFromLists ==
    ASSUME TypeOK, Split
    PROVE  /\ oidcs = <<>> <=> OidcIndexes(Made) = {}
           /\ ldaps = <<>> <=> LdapIndexes(Made) = {}
           /\ (\E k \in DOMAIN ldaps : ~ldaps[k].provider.bind) <=> LdapPanics(Made)
           /\ (\E k \in DOMAIN oidcs : ~oidcs[k].config) <=> OidcPanics(Made)
<1>1. /\ oidcs \in Seq(OidcAuthenticator)
      /\ ldaps \in Seq(LdapAuthenticator)
  BY DEF TypeOK
<1>2. /\ \A k \in DOMAIN oidcs : oidcs[k].type = "oidc"
      /\ \A k \in DOMAIN ldaps : ldaps[k].type = "ldap"
  BY <1>1, KindsDisjoint
<1>3. \A k \in DOMAIN oidcs : \E j \in OidcIndexes(Made) : oidcs[k] = Made[j]
  BY <1>2, MadeProperty DEF Split, OidcIndexes
<1>4. \A k \in DOMAIN ldaps : \E j \in LdapIndexes(Made) : ldaps[k] = Made[j]
  BY <1>2, MadeProperty DEF Split, LdapIndexes
<1>5. \A j \in OidcIndexes(Made) : \E k \in DOMAIN oidcs : oidcs[k] = Made[j]
  BY <1>2, MadeProperty DEF Split, OidcIndexes
<1>6. \A j \in LdapIndexes(Made) : \E k \in DOMAIN ldaps : ldaps[k] = Made[j]
  BY <1>2, MadeProperty DEF Split, LdapIndexes
<1>7. /\ oidcs = <<>> <=> DOMAIN oidcs = {}
      /\ ldaps = <<>> <=> DOMAIN ldaps = {}
  BY <1>1
<1>8. /\ oidcs = <<>> <=> OidcIndexes(Made) = {}
      /\ ldaps = <<>> <=> LdapIndexes(Made) = {}
  BY <1>3, <1>4, <1>5, <1>6, <1>7
<1>9. (\E k \in DOMAIN ldaps : ~ldaps[k].provider.bind) <=> LdapPanics(Made)
  BY <1>4, <1>6 DEF LdapPanics
<1>10. (\E k \in DOMAIN oidcs : ~oidcs[k].config) <=> OidcPanics(Made)
  BY <1>3, <1>5 DEF OidcPanics
<1> QED
  BY <1>8, <1>9, <1>10

\* The server of the last LDAP authenticator in the list is the one that the
\* closed form chooses.
LEMMA LastServer ==
    ASSUME TypeOK, Split
    PROVE  ServerAt(Len(ldaps)) = LdapServer(Made)
<1>1. CASE ldaps = <<>>
  BY <1>1, RenderedFromLists DEF ServerAt, LdapServer
<1>2. CASE ldaps # <<>>
  <2>1. PICK j \in DOMAIN read :
           /\ ldaps[Len(ldaps)] = MadeAt(j)
           /\ \A k \in DOMAIN read : MadeAt(k).type = "ldap" => k <= j
    BY <1>2 DEF Split
  <2>2. ldaps \in Seq(LdapAuthenticator) /\ read \in Seq(ClassState)
    BY DEF TypeOK
  <2>3. Len(ldaps) \in DOMAIN ldaps /\ Len(ldaps) # 0
    BY <1>2, <2>2
  <2>4. ldaps[Len(ldaps)].type = "ldap"
    BY <2>2, <2>3, KindsDisjoint
  <2>5. j \in LdapIndexes(Made) /\ \A k \in LdapIndexes(Made) : k <= j
    BY <2>1, <2>4, MadeProperty DEF LdapIndexes
  <2>6. \A m \in LdapIndexes(Made) :
           (\A k \in LdapIndexes(Made) : k <= m) => m = j
    <3>1. LdapIndexes(Made) \subseteq Nat
      BY <2>2, MadeProperty DEF LdapIndexes
    <3> QED
      BY <2>5, <3>1
  <2>7. (CHOOSE m \in LdapIndexes(Made) : \A k \in LdapIndexes(Made) : k <= m) = j
    BY <2>5, <2>6
  <2>8. LdapServer(Made) = Made[j].provider.server
    BY <2>5, <2>7 DEF LdapServer
  <2> QED
    BY <2>1, <2>3, <2>8, MadeProperty DEF ServerAt
<1> QED
  BY <1>1, <1>2

-----------------------------------------------------------------------------

\* Nothing has been read at first.
LEMMA InitIInv == Init => IInv
<1>1. SUFFICES ASSUME Init PROVE IInv
  OBVIOUS
<1>2. /\ read = <<>> /\ oidcs = <<>> /\ ldaps = <<>> /\ i = 1
      /\ phase = "entries" /\ settings = None /\ data = None /\ result = None
  BY <1>1 DEF Init
<1>3. auths \in Seq(Entry) /\ Len(auths) \in Nat
  BY <1>1, LoopAssumption DEF Init
<1>4. TypeOK
  <2>1. classes \in [Classes -> ClassState] /\ edits \in 0..MaxEdits /\ auths \in AuthLists
    BY <1>1, LoopAssumption DEF Init
  <2> QED
    BY <1>2, <1>3, <2>1 DEF TypeOK
<1>5. Len(read) <= Len(auths)
  BY <1>2, <1>3
<1>6. Split /\ AllAccepted
  BY <1>2 DEF Split, AllAccepted
<1>7. EntriesInv
  BY <1>2, <1>6 DEF EntriesInv
<1>8. LdapInv /\ OidcInv /\ ConfigInv /\ ResultAsSpecified
  BY <1>2 DEF LdapInv, OidcInv, ConfigInv, ResultAsSpecified
<1> QED
  BY <1>4, <1>5, <1>7, <1>8 DEF IInv

\* A step that leaves the computation alone, such as an edit of a class.
LEMMA FrameIInv ==
    ASSUME IInv, TypeOK',
           UNCHANGED <<auths, phase, i, oidcs, ldaps, settings, data, result, read>>
    PROVE  IInv'
BY DEF IInv, EntriesInv, LdapInv, OidcInv, ConfigInv, ResultAsSpecified, Split,
       AllAccepted, MadeAt, Made, ServerAt

\* An error or a panic in the loop: it is due to the entry just read.
LEMMA RefusalIInv ==
    ASSUME IInv, Reading, NEW p \in ClassState, p = classes[auths[i].class],
           NEW how \in {"panic", "unsupported", "disagree"}, Fail(how),
           read' = Append(read, p), UNCHANGED <<auths, classes, edits>>,
           ~EntryAccepted(auths, i, p)
    PROVE  IInv'
<1>1. /\ phase' = how
      /\ i' = i /\ oidcs' = oidcs /\ ldaps' = ldaps /\ settings' = settings
      /\ data' = data /\ result' = result
      /\ auths' = auths /\ classes' = classes /\ edits' = edits
  BY DEF Fail
<1>2. i = Len(read) + 1 /\ read \in Seq(ClassState) /\ i <= Len(auths)
  BY DEF IInv, EntriesInv, TypeOK, Reading
<1>3. /\ read' \in Seq(ClassState)
      /\ Len(read') = i
      /\ i \in DOMAIN read'
      /\ read'[i] = p
  BY <1>2
<1>4. TypeOK'
  BY <1>1, <1>3 DEF IInv, TypeOK, Ended
<1>5. (EntriesInv /\ LdapInv /\ OidcInv /\ ConfigInv)'
  BY <1>1 DEF EntriesInv, LdapInv, OidcInv, ConfigInv
<1>6. ~EntryAccepted(auths', i, read'[i])
  BY <1>1, <1>3
<1>7. ResultAsSpecified'
  BY <1>1, <1>3, <1>6 DEF ResultAsSpecified
<1> QED
  BY <1>1, <1>2, <1>3, <1>4, <1>5, <1>7 DEF IInv

\* An entry that is accepted joins the list of its type.
LEMMA AddIInv ==
    ASSUME IInv, Reading, NEW p \in ClassState, p = classes[auths[i].class],
           EntryAccepted(auths, i, p),
           IF p.oidc
           THEN oidcs' = Append(oidcs, NewAuthenticator(auths[i], p)) /\ ldaps' = ldaps
           ELSE ldaps' = Append(ldaps, NewAuthenticator(auths[i], p)) /\ oidcs' = oidcs,
           settings' = auths[i].settings, i' = i + 1,
           phase' = phase, data' = data, result' = result,
           read' = Append(read, p),
           auths' = auths, classes' = classes, edits' = edits
    PROVE  IInv'
<1> DEFINE a == NewAuthenticator(auths[i], p)
<1>1. /\ i = Len(read) + 1 /\ i <= Len(auths) /\ i \in Nat
      /\ read \in Seq(ClassState) /\ auths \in Seq(Entry)
      /\ oidcs \in Seq(OidcAuthenticator) /\ ldaps \in Seq(LdapAuthenticator)
      /\ AllAccepted /\ Split /\ phase = "entries" /\ data = None
  BY LoopAssumption DEF IInv, EntriesInv, TypeOK, Reading
<1>2. auths[i] \in Entry /\ auths[1] \in Entry
  BY <1>1
<1>3. /\ p.oidc \in BOOLEAN
      /\ p.oidc => a \in OidcAuthenticator
      /\ ~p.oidc => a \in LdapAuthenticator
  BY <1>2, AuthenticatorType DEF EntryAccepted
<1>4. /\ read' \in Seq(ClassState) /\ Len(read') = i /\ DOMAIN read' = 1..i
      /\ read'[i] = p /\ \A j \in DOMAIN read : read'[j] = read[j] /\ j \in DOMAIN read'
      /\ DOMAIN read = 1..i - 1
  BY <1>1
<1>n. PICK n \in Nat : n = i
  BY <1>1
<1>5. MadeAt(n)' = a /\ \A j \in DOMAIN read : MadeAt(j)' = MadeAt(j)
  BY <1>4, <1>n DEF MadeAt
<1>s. /\ Len(ldaps) + Len(oidcs) = Len(read)
      /\ Len(ldaps) \in Nat /\ Len(oidcs) \in Nat /\ Len(read) \in Nat
      /\ \A k \in DOMAIN oidcs : \E j \in DOMAIN read : oidcs[k] = MadeAt(j)
      /\ \A k \in DOMAIN ldaps : \E j \in DOMAIN read : ldaps[k] = MadeAt(j)
      /\ \A j \in DOMAIN read :
            \/ \E k \in DOMAIN oidcs : oidcs[k] = MadeAt(j)
            \/ \E k \in DOMAIN ldaps : ldaps[k] = MadeAt(j)
      /\ ldaps # <<>> =>
            \E j \in DOMAIN read :
               /\ ldaps[Len(ldaps)] = MadeAt(j)
               /\ \A k \in DOMAIN read : MadeAt(k).type = "ldap" => k <= j
  BY <1>1 DEF Split
<1>d. DOMAIN read' = DOMAIN read \cup {n} /\ n \notin DOMAIN read
      /\ \A j \in DOMAIN read : j \in Nat /\ j <= n
  BY <1>4, <1>n
<1>6. AllAccepted'
  <2>1. \A j \in DOMAIN read : EntryAccepted(auths, j, read'[j])
    BY <1>1, <1>4 DEF AllAccepted
  <2> QED
    BY <1>4, <2>1 DEF AllAccepted
<1>7. settings' = auths'[1].settings /\ read' # <<>>
  BY <1>4 DEF EntryAccepted, SettingsAgree
<1>8. /\ oidcs' \in Seq(OidcAuthenticator) /\ ldaps' \in Seq(LdapAuthenticator)
      /\ Split'
  <2>1. CASE p.oidc
    <3>1. /\ oidcs' = Append(oidcs, a) /\ ldaps' = ldaps /\ a \in OidcAuthenticator
          /\ a.type = "oidc"
      BY <1>3, <2>1, KindsDisjoint
    <3>2. /\ oidcs' \in Seq(OidcAuthenticator) /\ Len(oidcs') = Len(oidcs) + 1
          /\ DOMAIN oidcs' = DOMAIN oidcs \cup {Len(oidcs) + 1}
          /\ oidcs'[Len(oidcs) + 1] = a
          /\ \A k \in DOMAIN oidcs : oidcs'[k] = oidcs[k]
      BY <1>1, <3>1
    <3> HIDE DEF a
    <3>3. Len(ldaps') + Len(oidcs') = Len(read')
      <4>1. Len(ldaps') = Len(ldaps) /\ Len(oidcs') = Len(oidcs) + 1
        BY <3>1, <3>2
      <4>2. Len(read') = Len(read) + 1
        BY <1>1, <1>4
      <4> QED
        BY <1>s, <4>1, <4>2
    <3>4. \A k \in DOMAIN oidcs' : \E j \in DOMAIN read' : oidcs'[k] = MadeAt(j)'
      BY <1>5, <1>d, <1>s, <3>2
    <3>5. \A k \in DOMAIN ldaps' : \E j \in DOMAIN read' : ldaps'[k] = MadeAt(j)'
      BY <1>5, <1>d, <1>s, <3>1
    <3>6. \A j \in DOMAIN read' :
             \/ \E k \in DOMAIN oidcs' : oidcs'[k] = MadeAt(j)'
             \/ \E k \in DOMAIN ldaps' : ldaps'[k] = MadeAt(j)'
      BY <1>5, <1>d, <1>s, <3>1, <3>2
    <3>7. ldaps' # <<>> =>
             \E j \in DOMAIN read' :
                /\ ldaps'[Len(ldaps')] = MadeAt(j)'
                /\ \A k \in DOMAIN read' : MadeAt(k)'.type = "ldap" => k <= j
      BY <1>5, <1>d, <1>s, <3>1
    <3> QED
      BY <1>1, <3>1, <3>2, <3>3, <3>4, <3>5, <3>6, <3>7 DEF Split
  <2>2. CASE ~p.oidc
    <3>1. /\ ldaps' = Append(ldaps, a) /\ oidcs' = oidcs /\ a \in LdapAuthenticator
      BY <1>3, <2>2
    <3>2. /\ ldaps' \in Seq(LdapAuthenticator) /\ Len(ldaps') = Len(ldaps) + 1
          /\ DOMAIN ldaps' = DOMAIN ldaps \cup {Len(ldaps) + 1}
          /\ ldaps'[Len(ldaps')] = a
          /\ \A k \in DOMAIN ldaps : ldaps'[k] = ldaps[k]
      BY <1>1, <3>1
    <3> HIDE DEF a
    <3>3. Len(ldaps') + Len(oidcs') = Len(read')
      <4>1. Len(ldaps') = Len(ldaps) + 1 /\ Len(oidcs') = Len(oidcs)
        BY <3>1, <3>2
      <4>2. Len(read') = Len(read) + 1
        BY <1>1, <1>4
      <4> QED
        BY <1>s, <4>1, <4>2
    <3>4. \A k \in DOMAIN oidcs' : \E j \in DOMAIN read' : oidcs'[k] = MadeAt(j)'
      BY <1>5, <1>d, <1>s, <3>1
    <3>5. \A k \in DOMAIN ldaps' : \E j \in DOMAIN read' : ldaps'[k] = MadeAt(j)'
      BY <1>5, <1>d, <1>s, <3>2
    <3>6. \A j \in DOMAIN read' :
             \/ \E k \in DOMAIN oidcs' : oidcs'[k] = MadeAt(j)'
             \/ \E k \in DOMAIN ldaps' : ldaps'[k] = MadeAt(j)'
      BY <1>5, <1>d, <1>s, <3>1, <3>2
    <3>7. /\ n \in DOMAIN read' /\ ldaps'[Len(ldaps')] = MadeAt(n)'
          /\ \A k \in DOMAIN read' : k <= n
      BY <1>1, <1>4, <1>5, <1>n, <3>2
    <3> QED
      BY <1>1, <3>1, <3>2, <3>3, <3>4, <3>5, <3>6, <3>7 DEF Split
  <2> QED
    BY <1>3, <2>1, <2>2
<1>9. TypeOK'
  <2>1. settings' \in Settings
    BY <1>2 DEF Entry
  <2>2. i' \in 1..Len(auths') + 1
    BY <1>1
  <2> QED
    BY <1>4, <1>8, <2>1, <2>2 DEF IInv, TypeOK
<1>10. EntriesInv'
  BY <1>1, <1>4, <1>6, <1>7, <1>8 DEF EntriesInv
<1>11. (LdapInv /\ OidcInv /\ ConfigInv /\ ResultAsSpecified)'
  BY <1>1 DEF LdapInv, OidcInv, ConfigInv, ResultAsSpecified
<1> QED
  BY <1>1, <1>4, <1>9, <1>10, <1>11 DEF IInv

\* NewAuthentication reads one entry, which is refused or added.
LEMMA ReadEntryIInv == ASSUME IInv, ReadEntry PROVE IInv'
<1> DEFINE p == classes[auths[i].class]
<1>1. Reading /\ AddEntry(p) /\ read' = Append(read, p)
      /\ auths' = auths /\ classes' = classes /\ edits' = edits
  BY DEF ReadEntry
<1>2. /\ i = Len(read) + 1 /\ i <= Len(auths) /\ i \in Nat
      /\ auths \in Seq(Entry) /\ classes \in [Classes -> ClassState]
      /\ phase = "entries" /\ settings = IF read = <<>> THEN None ELSE auths[1].settings
      /\ read \in Seq(ClassState)
  BY <1>1, LoopAssumption DEF IInv, EntriesInv, TypeOK, Reading
<1>3. auths[i] \in Entry /\ auths[1] \in Entry
  BY <1>2
<1>4. p \in ClassState
  BY <1>2, <1>3 DEF Entry
<1>5. CASE ProviderMissing(p)
  <2>1. Fail("panic") /\ ~EntryAccepted(auths, i, p)
    BY <1>1, <1>5 DEF AddEntry, EntryAccepted
  <2> HIDE DEF p
  <2>2. p = classes[auths[i].class]
    BY DEF p
  <2> QED
    BY <1>1, <1>4, <2>1, <2>2, RefusalIInv
<1>6. CASE ~ProviderMissing(p) /\ ~ProviderSupported(p)
  <2>1. Fail("unsupported") /\ ~EntryAccepted(auths, i, p)
    BY <1>1, <1>6 DEF AddEntry, EntryAccepted
  <2>2. p = classes[auths[i].class]
    BY DEF p
  <2> HIDE DEF p
  <2> QED
    BY <1>1, <1>4, <2>1, <2>2, RefusalIInv
<1>7. CASE ~ProviderMissing(p) /\ ProviderSupported(p) /\ ~Agrees
  <2>1. Fail("disagree")
    BY <1>1, <1>7 DEF AddEntry
  <2>2. settings # None /\ settings # auths[i].settings
    BY <1>7 DEF Agrees
  <2>3. settings = auths[1].settings
    BY <1>2, <2>2
  <2>4. ~EntryAccepted(auths, i, p)
    BY <2>2, <2>3 DEF EntryAccepted, SettingsAgree
  <2>5. p = classes[auths[i].class]
    BY DEF p
  <2> HIDE DEF p
  <2> QED
    BY <1>1, <1>4, <2>1, <2>4, <2>5, RefusalIInv
<1>8. CASE ~ProviderMissing(p) /\ ProviderSupported(p) /\ Agrees
  <2>1. /\ IF p.oidc
           THEN oidcs' = Append(oidcs, NewAuthenticator(auths[i], p)) /\ ldaps' = ldaps
           ELSE ldaps' = Append(ldaps, NewAuthenticator(auths[i], p)) /\ oidcs' = oidcs
        /\ settings' = auths[i].settings /\ i' = i + 1
        /\ phase' = phase /\ data' = data /\ result' = result
    BY <1>1, <1>8 DEF AddEntry
  <2>2. auths[1].settings # None /\ auths[i].settings # None
    BY <1>3, AuthenticationAssumption DEF Entry
  <2>3. auths[i].settings = auths[1].settings
    <3>1. CASE read = <<>>
      BY <1>2, <3>1
    <3>2. CASE read # <<>>
      BY <1>2, <1>8, <2>2, <3>2 DEF Agrees
    <3> QED
      BY <3>1, <3>2
  <2>4. EntryAccepted(auths, i, p)
    BY <1>8, <2>3 DEF EntryAccepted, SettingsAgree
  <2>5. p = classes[auths[i].class]
    BY DEF p
  <2> HIDE DEF p
  <2> QED
    BY <1>1, <1>4, <2>1, <2>4, <2>5, AddIInv
<1> QED
  BY <1>5, <1>6, <1>7, <1>8

\* GetConfig begins: with nothing configured it is done.
LEMMA StartConfigIInv == ASSUME IInv, StartConfig PROVE IInv'
<1>1. /\ phase = "entries" /\ i = Len(read) + 1 /\ i > Len(auths)
      /\ i' = 1 /\ AllAccepted /\ Split /\ data = None
      /\ UNCHANGED <<auths, classes, edits, oidcs, ldaps, settings, data, read>>
  BY DEF StartConfig, IInv, EntriesInv
<1>2. /\ read \in Seq(ClassState) /\ auths \in Seq(Entry)
      /\ oidcs \in Seq(OidcAuthenticator) /\ ldaps \in Seq(LdapAuthenticator)
      /\ Len(read) <= Len(auths) /\ TypeOK
  BY LoopAssumption DEF IInv, TypeOK
<1>3. Len(read) = Len(auths) /\ Len(auths) \in Nat /\ 1 \in 1..Len(auths) + 1
  BY <1>1, <1>2
<1>4. CASE oidcs = <<>> /\ ldaps = <<>>
  <2>1. phase' = "done" /\ result' = [types |-> <<"AUTH_DB">>, ldapServer |-> None]
    BY <1>4 DEF StartConfig
  <2>2. read = <<>> /\ Made = <<>> /\ auths = <<>>
    <3>1. DOMAIN read = {}
      BY <1>1, <1>4 DEF Split
    <3>2. read = <<>>
      BY <1>2, <3>1
    <3> QED
      BY <1>2, <1>3, <3>2 DEF Made
  <2>3. LdapIndexes(Made) = {} /\ OidcIndexes(Made) = {}
    BY <2>2 DEF LdapIndexes, OidcIndexes
  <2>4. GetConfig(Made) = [types |-> <<"AUTH_DB">>, ldapServer |-> None]
    BY <2>2, <2>3 DEF GetConfig, AuthTypes, LdapServer
  <2>5. Rendered(Made)
    BY <2>3 DEF Rendered, LdapPanics, OidcPanics, OidcTemplateFails
  <2>6. Made' = Made
    BY <1>1 DEF Made
  <2>7. result' \in AuthConfig
    BY <2>1 DEF AuthConfig
  <2>8. TypeOK'
    BY <1>1, <1>2, <1>3, <2>1, <2>7 DEF TypeOK, Ended
  <2>9. ResultAsSpecified'
    BY <1>1, <1>3, <2>1, <2>2, <2>4, <2>5, <2>6 DEF ResultAsSpecified
  <2> QED
    BY <1>1, <1>2, <2>1, <2>8, <2>9 DEF IInv, EntriesInv, LdapInv, OidcInv, ConfigInv
<1>5. CASE ~(oidcs = <<>> /\ ldaps = <<>>)
  <2>1. phase' = "ldap" /\ result' = result
    BY <1>5 DEF StartConfig
  <2>2. TypeOK'
    BY <1>1, <1>2, <1>3, <2>1 DEF TypeOK
  <2>3. AllAccepted' /\ Split'
    BY <1>1 DEF AllAccepted, Split, MadeAt
  <2>4. read # <<>>
    BY <1>1, <1>2, <1>5 DEF Split
  <2>5. LdapInv'
    BY <1>1, <1>2, <2>1 DEF LdapInv, ServerAt
  <2>6. EntriesInv' /\ OidcInv' /\ ConfigInv' /\ ResultAsSpecified'
    BY <1>1, <1>3, <2>1, <2>3, <2>4
       DEF EntriesInv, OidcInv, ConfigInv, ResultAsSpecified
  <2> QED
    BY <1>1, <1>2, <2>2, <2>5, <2>6 DEF IInv
<1> QED
  BY <1>4, <1>5

\* The facts about the lists that hold in the phases of GetConfig.
LEMMA ConfigFacts ==
    ASSUME IInv, phase \in {"ldap", "oidc"}
    PROVE  /\ Len(read) = Len(auths) /\ AllAccepted /\ Split /\ TypeOK
           /\ read # <<>> /\ read \in Seq(ClassState) /\ auths \in Seq(Entry)
           /\ oidcs \in Seq(OidcAuthenticator) /\ ldaps \in Seq(LdapAuthenticator)
           /\ Len(ldaps) + Len(oidcs) = Len(auths)
           /\ Len(ldaps) \in Nat /\ Len(oidcs) \in Nat /\ Len(auths) \in Nat
           /\ i \in Nat \ {0}
<1>1. /\ Len(read) = Len(auths) /\ AllAccepted /\ Split /\ TypeOK /\ read # <<>>
  BY DEF IInv, ConfigInv
<1>2. read \in Seq(ClassState) /\ auths \in Seq(Entry)
      /\ oidcs \in Seq(OidcAuthenticator) /\ ldaps \in Seq(LdapAuthenticator)
      /\ i \in 1..Len(auths) + 1
  BY <1>1, LoopAssumption DEF TypeOK
<1>3. Len(ldaps) + Len(oidcs) = Len(read)
  BY <1>1 DEF Split
<1>4. Len(ldaps) \in Nat /\ Len(oidcs) \in Nat /\ Len(auths) \in Nat
  BY <1>2
<1>5. i \in Nat \ {0}
  BY <1>2, <1>4
<1> QED
  BY <1>1, <1>2, <1>3, <1>4, <1>5

\* One LDAP authenticator, or the end of them.
LEMMA LdapBlockIInv == ASSUME IInv, LdapBlock PROVE IInv'
<1>1. /\ phase = "ldap"
      /\ UNCHANGED <<auths, classes, edits, oidcs, ldaps, settings, result, read>>
  BY DEF LdapBlock
<1>2. /\ Len(read) = Len(auths) /\ AllAccepted /\ Split /\ TypeOK
      /\ read # <<>> /\ read \in Seq(ClassState) /\ auths \in Seq(Entry)
      /\ oidcs \in Seq(OidcAuthenticator) /\ ldaps \in Seq(LdapAuthenticator)
      /\ Len(ldaps) + Len(oidcs) = Len(auths)
      /\ Len(ldaps) \in Nat /\ Len(oidcs) \in Nat /\ Len(auths) \in Nat
      /\ i \in Nat \ {0}
  BY <1>1, ConfigFacts
<1>3. AllAccepted' /\ Split'
  BY <1>1, <1>2 DEF AllAccepted, Split, MadeAt
<1>4. /\ i <= Len(ldaps) + 1
      /\ \A k \in 1..i - 1 : ldaps[k].provider.bind
      /\ data = ServerAt(i - 1)
  BY <1>1 DEF IInv, LdapInv
<1>5. CASE i > Len(ldaps)
  <2>1. phase' = "oidc" /\ i' = 1 /\ data' = data
    BY <1>5 DEF LdapBlock
  <2>2. i - 1 = Len(ldaps) /\ \A k \in DOMAIN ldaps : ldaps[k].provider.bind
    BY <1>2, <1>4, <1>5
  <2>3. TypeOK'
    BY <1>1, <1>2, <2>1 DEF TypeOK
  <2>4. data' = ServerAt(Len(ldaps))'
    BY <1>1, <1>4, <2>1, <2>2 DEF ServerAt
  <2>5. OidcInv'
    BY <1>1, <1>2, <2>1, <2>2, <2>4 DEF OidcInv
  <2>6. EntriesInv' /\ LdapInv' /\ ConfigInv' /\ ResultAsSpecified'
    BY <1>1, <1>2, <1>3, <2>1 DEF EntriesInv, LdapInv, ConfigInv, ResultAsSpecified
  <2> QED
    BY <1>1, <1>2, <2>3, <2>5, <2>6 DEF IInv
<1>6. CASE i <= Len(ldaps) /\ ~ldaps[i].provider.bind
  <2>1. phase' = "panic" /\ i' = i /\ data' = data
    BY <1>2, <1>6 DEF LdapBlock
  <2>2. i \in DOMAIN ldaps
    BY <1>2, <1>6
  <2>3. ~Rendered(Made)
    BY <1>2, <1>6, <2>2, RenderedFromLists DEF Rendered
  <2>4. Made' = Made
    BY <1>1 DEF Made
  <2>5. ResultAsSpecified'
    BY <2>1, <2>3, <2>4 DEF ResultAsSpecified
  <2>6. TypeOK'
    BY <1>1, <1>2, <2>1 DEF TypeOK, Ended
  <2>7. EntriesInv' /\ LdapInv' /\ OidcInv' /\ ConfigInv'
    BY <2>1 DEF EntriesInv, LdapInv, OidcInv, ConfigInv
  <2> QED
    BY <1>1, <1>2, <2>5, <2>6, <2>7 DEF IInv
<1>7. CASE i <= Len(ldaps) /\ ldaps[i].provider.bind
  <2>1. phase' = phase /\ i' = i + 1 /\ data' = ldaps[i].provider.server
    BY <1>2, <1>7 DEF LdapBlock
  <2>2. i \in DOMAIN ldaps /\ i + 1 \in 1..Len(auths) + 1
    BY <1>2, <1>7
  <2>3. ldaps[i].provider.server \in Servers
    <3>1. ldaps[i] \in LdapAuthenticator
      BY <1>2, <2>2
    <3>2. ldaps[i].provider \in LdapProvider
      BY <3>1, KindsDisjoint
    <3> QED
      BY <3>2 DEF LdapProvider
  <2>4. TypeOK'
    BY <1>1, <1>2, <2>1, <2>2, <2>3 DEF TypeOK
  <2>5. LdapInv'
    <3>1. i' <= Len(ldaps) + 1 /\ i' - 1 = i /\ i # 0
      BY <1>2, <1>7, <2>1
    <3>2. \A k \in 1..i' - 1 : ldaps[k].provider.bind
      <4>1. \A k \in 1..i : k \in 1..i - 1 \/ k = i
        BY <1>2
      <4> QED
        BY <1>4, <1>7, <3>1, <4>1
    <3>3. data' = IF i' - 1 = 0 THEN None ELSE ldaps[i' - 1].provider.server
      BY <2>1, <3>1
    <3> QED
      BY <1>1, <3>1, <3>2, <3>3 DEF LdapInv, ServerAt
  <2>6. EntriesInv' /\ OidcInv' /\ ConfigInv' /\ ResultAsSpecified'
    BY <1>1, <1>2, <1>3, <2>1 DEF EntriesInv, OidcInv, ConfigInv, ResultAsSpecified
  <2> QED
    BY <1>1, <1>2, <2>4, <2>5, <2>6 DEF IInv
<1> QED
  BY <1>2, <1>5, <1>6, <1>7

\* One OIDC authenticator, or the template.
LEMMA OidcBlockIInv == ASSUME IInv, OidcBlock PROVE IInv'
<1>1. /\ phase = "oidc"
      /\ UNCHANGED <<auths, classes, edits, oidcs, ldaps, settings, data, read>>
  BY DEF OidcBlock
<1>2. /\ Len(read) = Len(auths) /\ AllAccepted /\ Split /\ TypeOK
      /\ read # <<>> /\ read \in Seq(ClassState) /\ auths \in Seq(Entry)
      /\ oidcs \in Seq(OidcAuthenticator) /\ ldaps \in Seq(LdapAuthenticator)
      /\ Len(ldaps) + Len(oidcs) = Len(auths)
      /\ Len(ldaps) \in Nat /\ Len(oidcs) \in Nat /\ Len(auths) \in Nat
      /\ i \in Nat \ {0}
  BY <1>1, ConfigFacts
<1>3. AllAccepted' /\ Split' /\ Made' = Made
  BY <1>1, <1>2 DEF AllAccepted, Split, MadeAt, Made
<1>4. /\ i <= Len(oidcs) + 1
      /\ \A k \in DOMAIN ldaps : ldaps[k].provider.bind
      /\ data = ServerAt(Len(ldaps))
  BY <1>1 DEF IInv, OidcInv
<1>5. CASE i > Len(oidcs) /\ oidcs = <<>>
  <2>1. /\ phase' = "done" /\ i' = i
        /\ result' = [types |-> <<"AUTH_LDAP", "AUTH_OAUTH">>, ldapServer |-> data]
    BY <1>5 DEF OidcBlock
  <2>2. Rendered(Made)
    <3>1. OidcIndexes(Made) = {} /\ ~LdapPanics(Made)
      BY <1>2, <1>4, <1>5, RenderedFromLists
    <3> QED
      BY <3>1 DEF Rendered, OidcPanics, OidcTemplateFails
  <2>3. Made # <<>>
    <3>1. DOMAIN Made = DOMAIN read /\ DOMAIN read # {}
      BY <1>2 DEF Made
    <3> QED
      BY <3>1
  <2>4. result' = GetConfig(Made)
    BY <1>2, <1>4, <2>1, <2>3, LastServer DEF GetConfig, AuthTypes
  <2>5. \A j \in DOMAIN auths : EntryAccepted(auths, j, read[j])
    BY <1>2 DEF AllAccepted
  <2>6. ResultAsSpecified'
    BY <1>1, <1>2, <1>3, <2>1, <2>2, <2>4, <2>5 DEF ResultAsSpecified
  <2>7. TypeOK'
    <3>1. data \in Servers \cup {None}
      BY <1>2 DEF TypeOK
    <3>2. result' \in AuthConfig
      BY <2>1, <3>1 DEF AuthConfig
    <3> QED
      BY <1>1, <1>2, <2>1, <3>2 DEF TypeOK, Ended
  <2>8. EntriesInv' /\ LdapInv' /\ OidcInv' /\ ConfigInv'
    BY <2>1 DEF EntriesInv, LdapInv, OidcInv, ConfigInv
  <2> QED
    BY <1>1, <1>2, <2>6, <2>7, <2>8 DEF IInv
<1>6. CASE i > Len(oidcs) /\ oidcs # <<>>
  <2>1. phase' = "template" /\ result' = None /\ i' = i
    BY <1>6 DEF OidcBlock
  <2>2. ~Rendered(Made)
    BY <1>2, <1>6, RenderedFromLists DEF Rendered, OidcTemplateFails
  <2>3. ResultAsSpecified'
    BY <1>3, <2>1, <2>2 DEF ResultAsSpecified
  <2>4. TypeOK'
    BY <1>1, <1>2, <2>1 DEF TypeOK, Ended
  <2>5. EntriesInv' /\ LdapInv' /\ OidcInv' /\ ConfigInv'
    BY <2>1 DEF EntriesInv, LdapInv, OidcInv, ConfigInv
  <2> QED
    BY <1>1, <1>2, <2>3, <2>4, <2>5 DEF IInv
<1>7. CASE i <= Len(oidcs) /\ ~oidcs[i].config
  <2>1. phase' = "panic" /\ result' = result /\ i' = i
    BY <1>2, <1>7 DEF OidcBlock
  <2>2. i \in DOMAIN oidcs
    BY <1>2, <1>7
  <2>3. ~Rendered(Made)
    BY <1>2, <1>7, <2>2, RenderedFromLists DEF Rendered
  <2>4. ResultAsSpecified'
    BY <1>3, <2>1, <2>3 DEF ResultAsSpecified
  <2>5. TypeOK'
    BY <1>1, <1>2, <2>1 DEF TypeOK, Ended
  <2>6. EntriesInv' /\ LdapInv' /\ OidcInv' /\ ConfigInv'
    BY <2>1 DEF EntriesInv, LdapInv, OidcInv, ConfigInv
  <2> QED
    BY <1>1, <1>2, <2>4, <2>5, <2>6 DEF IInv
<1>8. CASE i <= Len(oidcs) /\ oidcs[i].config
  <2>1. phase' = "oidc" /\ result' = result /\ i' = i + 1
    BY <1>1, <1>2, <1>8 DEF OidcBlock
  <2>2. i' <= Len(oidcs) + 1 /\ i' \in 1..Len(auths) + 1
    BY <1>2, <1>8, <2>1
  <2>3. TypeOK'
    BY <1>1, <1>2, <2>1, <2>2 DEF TypeOK
  <2>4. OidcInv'
    BY <1>1, <1>4, <2>2 DEF OidcInv, ServerAt
  <2>5. EntriesInv' /\ LdapInv' /\ ConfigInv' /\ ResultAsSpecified'
    BY <1>1, <1>2, <1>3, <2>1 DEF EntriesInv, LdapInv, ConfigInv, ResultAsSpecified
  <2> QED
    BY <1>1, <1>2, <2>3, <2>4, <2>5 DEF IInv
<1> QED
  BY <1>2, <1>5, <1>6, <1>7, <1>8

\* Every step keeps the invariant.
LEMMA NextIInv == IInv /\ [Next]_vars => IInv'
<1> SUFFICES ASSUME IInv, [Next]_vars PROVE IInv'
  OBVIOUS
<1>1. CASE EditClass
  <2>1. classes' \in [Classes -> ClassState] /\ edits' \in 0..MaxEdits
    <3>1. PICK c \in Classes, p \in ClassStates \cup {None} :
             classes' = [classes EXCEPT ![c] = p]
      BY <1>1 DEF EditClass
    <3>2. p \in ClassState
      BY LoopAssumption DEF ClassState
    <3>3. edits' = edits + 1 /\ edits < MaxEdits
      BY <1>1 DEF EditClass
    <3> QED
      BY <3>1, <3>2, <3>3, LoopAssumption DEF IInv, TypeOK
  <2>2. UNCHANGED <<auths, phase, i, oidcs, ldaps, settings, data, result, read>>
    BY <1>1 DEF EditClass
  <2>3. TypeOK'
    BY <2>1, <2>2 DEF IInv, TypeOK
  <2> QED
    BY <2>2, <2>3, FrameIInv
<1>2. CASE ReadFails
  <2>1. phase' = "readerror"
        /\ UNCHANGED <<auths, classes, edits, i, oidcs, ldaps, settings, data, result, read>>
    BY <1>2 DEF ReadFails, Fail
  <2> QED
    BY <2>1 DEF IInv, TypeOK, Ended, EntriesInv, LdapInv, OidcInv, ConfigInv,
               ResultAsSpecified
<1>3. CASE UNCHANGED vars
  <2>1. TypeOK'
    BY <1>3 DEF vars, IInv, TypeOK
  <2> QED
    BY <1>3, <2>1, FrameIInv DEF vars
<1> QED
  BY <1>1, <1>2, <1>3, ReadEntryIInv, StartConfigIInv, LdapBlockIInv,
     OidcBlockIInv DEF Next

\* The invariant holds in every reachable state.
LEMMA Invariance == Spec => []IInv
BY InitIInv, NextIInv, PTL DEF Spec

\* Every variable keeps its type; in particular the loops of GetConfig never
\* go past the end of a list.
THEOREM TypeCorrect == Spec => []TypeOK
<1>1. IInv => TypeOK
  BY DEF IInv
<1> QED
  BY <1>1, Invariance, PTL

\* Whatever edits of classes come between the reads, the outcome is the one
\* that module Authentication gives for what was read.
THEOREM ResultHolds == Spec => []ResultAsSpecified
<1>1. IInv => ResultAsSpecified
  BY DEF IInv
<1> QED
  BY <1>1, Invariance, PTL
=============================================================================
