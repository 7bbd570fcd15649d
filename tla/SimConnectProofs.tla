-------------------------- MODULE SimConnectProofs ---------------------------
(***************************************************************************)
(* Theorems about the two sides of SimConnect, which have no variable in   *)
(* common: the session that all documents share (SimConnectSession) and    *)
(* the protocol each of them speaks over it (SimConnectLink).              *)
(*                                                                         *)
(* The session, for any documents and any number of providers.  The        *)
(* inductive invariant says of the coordinator alone that its count, its   *)
(* client and its two collections fit together (GoodCoordinator), and of the hosts    *)
(* that no two hold one provider and that the collections hold only theirs.*)
(*                                                                         *)
(* The link, for every set of providers, variables and values and every    *)
(* length of the bus: that what is written arrives, and that the host      *)
(* holds what the bridge believes it sent.  First the types, then what a   *)
(* queue says last of a variable, then the outputs, then the inputs.       *)
(***************************************************************************)
EXTENDS SimConnectSession, SimConnectLink, Iteration, FiniteSetTheorems, SequenceTheorems

-----------------------------------------------------------------------------
(* The session.                                                            *)

ProviderId == 1 .. MaxBuilds

GoodCoordinator(c) ==
  /\ c \in Coordinator
  /\ c.connect_count = Cardinality(c.connected)
  /\ (c.client # "none") = (c.connected # {})
  /\ c.connected \subseteq c.providers

\* Each provider has one host, and was built.
Owned ==
  /\ \A d, e \in Document : provider[d] # 0 /\ provider[d] = provider[e] => d = e
  /\ \A d \in Document : provider[d] <= built

SessionInv == SessionTypeOK /\ GoodCoordinator(coordinator) /\ Owned /\ NoDangling

-----------------------------------------------------------------------------
(* The coordinator's operations keep it good.                              *)

\* Providers can be counted.
LEMMA Countable ==
  ASSUME NEW S \in SUBSET ProviderId
  PROVE  IsFiniteSet(S) /\ Cardinality(S) \in Nat /\ (Cardinality(S) = 0 <=> S = {})
<1>1. IsFiniteSet(ProviderId)
  BY FS_Interval, SimConnectSessionAssumption DEF ProviderId
<1>2. IsFiniteSet(S)
  BY <1>1, FS_Subset
<1> QED  BY <1>2, FS_CardinalityType, FS_EmptySet

\* disconnect followed by remove_provider forgets the provider everywhere.
LEMMA Disconnecting ==
  ASSUME NEW c, GoodCoordinator(c), NEW p \in ProviderId
  PROVE  /\ GoodCoordinator(ProviderDisconnect(c, p))
         /\ ProviderDisconnect(c, p).providers = c.providers \ {p}
         /\ ProviderDisconnect(c, p).connected = c.connected \ {p}
         /\ ProviderDisconnect(c, p).client # "lost" =>
              c.client # "lost" \/ ProviderDisconnect(c, p).connected = {}
<1> DEFINE k == Disconnect(c, p)
<1>0. /\ c \in Coordinator /\ c.connected \in SUBSET ProviderId
      /\ c.connect_count = Cardinality(c.connected)
      /\ (c.client # "none") = (c.connected # {})
      /\ c.connected \subseteq c.providers
  BY DEF GoodCoordinator, Coordinator, ProviderId
<1>1. /\ k \in Coordinator
      /\ k.connect_count = Cardinality(k.connected)
      /\ (k.client # "none") = (k.connected # {})
      /\ k.connected = c.connected \ {p} /\ k.providers = c.providers
      /\ k.client # "lost" => c.client # "lost" \/ k.connected = {}
  <2>1. CASE p \notin c.connected
    BY <1>0, <2>1 DEF Disconnect
  <2>2. CASE p \in c.connected
    <3>1. Cardinality(c.connected \ {p}) = Cardinality(c.connected) - 1
      BY <1>0, <2>2, Countable, FS_RemoveElement
    <3>2. c.connected \ {p} \in SUBSET ProviderId
      BY <1>0
    <3>3. Cardinality(c.connected \ {p}) \in Nat
          /\ (Cardinality(c.connected \ {p}) = 0 <=> c.connected \ {p} = {})
      BY <3>2, Countable
    <3>4. Cardinality(c.connected) \in Nat /\ Cardinality(c.connected) # 0
      BY <1>0, <2>2, Countable
    <3>5. k = [c EXCEPT !.connected = @ \ {p}, !.connect_count = @ - 1,
                        !.client = IF c.connect_count = 1 THEN "none" ELSE @]
      BY <1>0, <2>2, <3>4 DEF Disconnect
    <3> DEFINE left == c.connected \ {p}
               count == c.connect_count - 1
               client == IF c.connect_count = 1 THEN "none" ELSE c.client
    <3>a. /\ left \in SUBSET (1 .. MaxBuilds) /\ count \in Nat
          /\ client \in {"none", "open", "lost"}
      BY <1>0, <3>1, <3>2, <3>3 DEF Coordinator, ProviderId
    <3>b. k = [c EXCEPT !.connected = left, !.connect_count = count, !.client = client]
      BY <1>0, <3>5 DEF Coordinator
    <3>c. client = IF c.connect_count = 1 THEN "none" ELSE c.client
      OBVIOUS
    <3>d. left = c.connected \ {p} /\ count = c.connect_count - 1
      OBVIOUS
    <3> HIDE DEF left, count, client, k
    <3>e. /\ k.connected = left /\ k.connect_count = count /\ k.client = client
          /\ k.providers = c.providers /\ k.needs_reregister = c.needs_reregister
          /\ k \in Coordinator
      BY <1>0, <3>a, <3>b DEF Coordinator
    <3>6. /\ k.connected = c.connected \ {p} /\ k.connect_count = c.connect_count - 1
          /\ k.client = IF c.connect_count = 1 THEN "none" ELSE c.client
          /\ k.providers = c.providers /\ k \in Coordinator
      BY <3>c, <3>d, <3>e
    <3>7. c.client # "none" /\ (c.connect_count = 1 <=> c.connected \ {p} = {})
      BY <1>0, <2>2, <3>1, <3>3, <3>4
    <3>8. (k.client # "none") = (k.connected # {})
      BY <3>6, <3>7
    <3> QED  BY <1>0, <3>1, <3>6, <3>8
  <2> QED  BY <2>1, <2>2
<1>2. ProviderDisconnect(c, p) = RemoveProvider(k, p)
  BY DEF ProviderDisconnect
<1> HIDE DEF k
<1>3. CASE p \in k.providers
  <2>1. ProviderDisconnect(c, p)
          = [k EXCEPT !.providers = @ \ {p}, !.needs_reregister = TRUE]
    BY <1>2, <1>3 DEF RemoveProvider
  <2> DEFINE r == ProviderDisconnect(c, p)
  <2>2. /\ r \in Coordinator /\ r.providers = k.providers \ {p}
        /\ r.connected = k.connected /\ r.connect_count = k.connect_count
        /\ r.client = k.client
    BY <1>1, <2>1 DEF Coordinator
  <2> HIDE DEF r
  <2>3. GoodCoordinator(r)
    BY <1>0, <1>1, <2>2 DEF GoodCoordinator
  <2> QED  BY <1>0, <1>1, <2>2, <2>3 DEF r
<1>4. CASE p \notin k.providers
  BY <1>0, <1>1, <1>2, <1>4 DEF RemoveProvider, GoodCoordinator
<1> QED  BY <1>3, <1>4

\* add_provider followed by connect, whether or not the client comes up.
LEMMA Connecting ==
  ASSUME NEW c, GoodCoordinator(c), NEW p \in ProviderId, NEW up \in BOOLEAN
  PROVE  LET k == Connect(AddProvider(c, p), p, up)
         IN  /\ GoodCoordinator(k)
             /\ k.providers = c.providers \cup {p}
             /\ k.connected \subseteq c.connected \cup {p}
             /\ c.client = "lost" => k.client = "lost"
             /\ p \in k.connected \ c.connected /\ k.client = "open" =>
                  NamesSent(AddProvider(c, p), p, up) = k.providers
<1> DEFINE a == AddProvider(c, p)
           k == Connect(a, p, up)
<1>0. /\ c \in Coordinator /\ c.connected \in SUBSET ProviderId
      /\ c.connect_count = Cardinality(c.connected)
      /\ (c.client # "none") = (c.connected # {})
      /\ c.connected \subseteq c.providers
  BY DEF GoodCoordinator, Coordinator, ProviderId
<1>1. /\ a \in Coordinator /\ a.connected = c.connected
      /\ a.providers = c.providers \cup {p} /\ a.client = c.client
      /\ a.connect_count = c.connect_count /\ a.needs_reregister = TRUE
  BY <1>0 DEF AddProvider, Coordinator, ProviderId
<1>2. Cardinality(c.connected) \in Nat /\ (Cardinality(c.connected) = 0 <=> c.connected = {})
  BY <1>0, Countable
<1> HIDE DEF a
<1>3. CASE p \in a.connected
  <2>1. k = a
    BY <1>3 DEF Connect
  <2> QED  BY <1>0, <1>1, <1>3, <2>1 DEF GoodCoordinator, a
<1>4. CASE p \notin a.connected /\ a.connect_count = 0 /\ ~up
  <2>1. k = [a EXCEPT !.client = "none"]
    BY <1>4 DEF Connect
  <2>2. /\ k \in Coordinator /\ k.connected = a.connected /\ k.providers = a.providers
        /\ k.connect_count = a.connect_count /\ k.client = "none"
    BY <1>1, <2>1 DEF Coordinator
  <2> QED  BY <1>0, <1>1, <1>2, <1>4, <2>2 DEF GoodCoordinator, a
<1>5. CASE p \notin a.connected /\ ~(a.connect_count = 0 /\ ~up)
  <2>1. k = [a EXCEPT !.client = IF a.connect_count = 0 THEN "open" ELSE @,
                      !.needs_reregister = FALSE,
                      !.connected = @ \cup {p},
                      !.connect_count = @ + 1]
    BY <1>5 DEF Connect
  <2> DEFINE more == a.connected \cup {p}
             count == a.connect_count + 1
             client == IF a.connect_count = 0 THEN "open" ELSE a.client
  <2>a. /\ more \in SUBSET (1 .. MaxBuilds) /\ count \in Nat
        /\ client \in {"none", "open", "lost"}
    BY <1>0, <1>1, <1>2 DEF Coordinator, ProviderId
  <2>b. k = [a EXCEPT !.client = client, !.needs_reregister = FALSE,
                      !.connected = more, !.connect_count = count]
    BY <1>1, <2>1 DEF Coordinator
  <2>c. client = IF a.connect_count = 0 THEN "open" ELSE a.client
    OBVIOUS
  <2>d. more = a.connected \cup {p} /\ count = a.connect_count + 1
    OBVIOUS
  <2> HIDE DEF more, count, client, k
  <2>e. /\ k \in Coordinator /\ k.connected = more
        /\ k.providers = a.providers /\ k.connect_count = count /\ k.client = client
    BY <1>1, <2>a, <2>b DEF Coordinator
  <2>2. /\ k \in Coordinator /\ k.connected = a.connected \cup {p}
        /\ k.providers = a.providers /\ k.connect_count = a.connect_count + 1
        /\ k.client = IF a.connect_count = 0 THEN "open" ELSE a.client
    BY <2>c, <2>d, <2>e
  <2>3. Cardinality(a.connected \cup {p}) = Cardinality(a.connected) + 1
    BY <1>0, <1>1, <1>5, Countable, FS_AddElement
  <2>4. k.client # "none"
    BY <1>0, <1>1, <1>2, <2>2
  <2>5. k.client = "open" => NamesSent(a, p, up) = a.providers
    BY <1>1, <1>5 DEF NamesSent, IsConnected, k
  <2>6. a.client = "lost" => k.client = "lost"
    BY <1>0, <1>1, <1>2, <2>2
  <2>7. k.connected # {} /\ k.connected \subseteq k.providers
    BY <1>0, <1>1, <2>2
  <2>8. GoodCoordinator(k)
    BY <1>0, <1>1, <2>2, <2>3, <2>4, <2>7 DEF GoodCoordinator
  <2> QED  BY <1>1, <2>2, <2>5, <2>6, <2>8 DEF a, k
<1> QED  BY <1>3, <1>4, <1>5

-----------------------------------------------------------------------------
(* Every step keeps the inductive invariant.                               *)

\* Nobody is connected at first.
LEMMA SessionStart == SessionInit => SessionInv
<1> SUFFICES ASSUME SessionInit PROVE SessionInv
  OBVIOUS
<1>1. Cardinality({}) = 0
  BY FS_EmptySet
<1> QED  BY <1>1, SimConnectSessionAssumption
         DEF SessionInit, SessionInv, SessionTypeOK, GoodCoordinator, Coordinator, Owned, NoDangling

\* What a teardown leaves: a good coordinator without the host's provider.
LEMMA Tearing ==
  ASSUME SessionInv, NEW d \in Document
  PROVE  /\ GoodCoordinator(TornDown(d))
         /\ TornDown(d).providers \subseteq coordinator.providers \ {provider[d]}
         /\ TornDown(d).connected \subseteq coordinator.connected \ {provider[d]}
         /\ TornDown(d).client # "lost" =>
              coordinator.client # "lost" \/ TornDown(d).connected = {}
<1>1. GoodCoordinator(coordinator) /\ provider[d] \in 0 .. MaxBuilds
  BY DEF SessionInv, SessionTypeOK
<1>2. CASE provider[d] = 0
  BY <1>1, <1>2 DEF TornDown, GoodCoordinator, Coordinator
<1>3. CASE provider[d] # 0
  <2>1. provider[d] \in ProviderId
    BY <1>1, <1>3, SimConnectSessionAssumption DEF ProviderId
  <2> QED  BY <1>1, <1>3, <2>1, Disconnecting DEF TornDown
<1> QED  BY <1>2, <1>3

\* What is sent names providers; registered keeps its type.
LEMMA Joining ==
  ASSUME NEW c, GoodCoordinator(c), NEW p \in ProviderId, ProviderConnects(c, p),
         registered \subseteq ProviderId
  PROVE  /\ GoodCoordinator(coordinator')
         /\ coordinator'.providers = c.providers \cup {p}
         /\ coordinator'.connected \subseteq c.connected \cup {p}
         /\ c.client = "lost" => coordinator'.client = "lost"
         /\ registered \subseteq registered' /\ registered' \subseteq ProviderId
         /\ p \in coordinator'.connected \ c.connected /\ coordinator'.client = "open" =>
              p \in registered'
<1>1. PICK up \in BOOLEAN :
        /\ coordinator' = Connect(AddProvider(c, p), p, up)
        /\ registered' = registered \cup NamesSent(AddProvider(c, p), p, up)
  BY DEF ProviderConnects
<1>2. AddProvider(c, p).providers \subseteq ProviderId
  BY DEF AddProvider, GoodCoordinator, Coordinator, ProviderId
<1>3. NamesSent(AddProvider(c, p), p, up) \subseteq ProviderId
  BY <1>2 DEF NamesSent
<1> QED  BY <1>1, <1>3, Connecting

\* The invariant of the next state, from the lemmas above.
LEMMA SessionInvariance == SessionInv /\ [SessionNext]_sessionVars => SessionInv'
<1> SUFFICES ASSUME SessionInv, [SessionNext]_sessionVars PROVE SessionInv'
  OBVIOUS
<1>0. /\ SessionTypeOK /\ GoodCoordinator(coordinator) /\ Owned /\ NoDangling
      /\ provider \in [Document -> 0 .. MaxBuilds]
      /\ registered \subseteq ProviderId /\ MaxBuilds \in Nat
      /\ built \in 0 .. MaxBuilds
      /\ enabled \subseteq Document
  BY SimConnectSessionAssumption DEF SessionInv, SessionTypeOK, ProviderId
<1>1. ASSUME NEW d \in Document, Disable(d) PROVE SessionInv'
  <2>1. /\ GoodCoordinator(coordinator')
        /\ coordinator'.providers \subseteq coordinator.providers
        /\ coordinator'.connected \subseteq coordinator.connected
    <3>1. CASE provider[d] # 0 /\ IsConnected(coordinator)
      <4>1. provider[d] \in ProviderId
        BY <1>0, <3>1 DEF ProviderId
      <4> QED  BY <1>0, <1>1, <3>1, <4>1, Disconnecting DEF Disable, Stays
    <3>2. CASE ~(provider[d] # 0 /\ IsConnected(coordinator))
      BY <1>0, <1>1, <3>2 DEF Disable, Stays
    <3> QED  BY <3>1, <3>2
  <2>2. UNCHANGED <<provider, built, registered>> /\ enabled' \subseteq Document
    BY <1>0, <1>1 DEF Disable, Stays
  <2>3. SessionTypeOK'
    BY <1>0, <2>1, <2>2 DEF SessionTypeOK, GoodCoordinator
  <2> QED  BY <1>0, <2>1, <2>2, <2>3 DEF SessionInv, Owned, NoDangling, Live
<1>2. ASSUME NEW d \in Document, Enable(d) PROVE SessionInv'
  <2>1. /\ GoodCoordinator(coordinator') /\ registered' \subseteq ProviderId
        /\ coordinator'.providers \subseteq Live /\ coordinator'.connected \subseteq Live
    <3>1. CASE provider[d] # 0 /\ ~IsConnected(coordinator)
      <4>1. provider[d] \in ProviderId /\ provider[d] \in Live
        BY <1>0, <3>1 DEF ProviderId, Live
      <4>2. ProviderConnects(coordinator, provider[d])
        BY <1>2, <3>1 DEF Enable
      <4> QED  BY <1>0, <4>1, <4>2, Joining DEF NoDangling
    <3>2. CASE ~(provider[d] # 0 /\ ~IsConnected(coordinator))
      BY <1>0, <1>2, <3>2 DEF Enable, Stays, NoDangling
    <3> QED  BY <3>1, <3>2
  <2>2. UNCHANGED <<provider, built>> /\ enabled' \subseteq Document
    BY <1>0, <1>2 DEF Enable
  <2>3. SessionTypeOK'
    BY <1>0, <2>1, <2>2 DEF SessionTypeOK, GoodCoordinator, ProviderId
  <2> QED  BY <1>0, <2>1, <2>2, <2>3 DEF SessionInv, Owned, NoDangling, Live
<1>3. ASSUME NEW d \in Document, Build(d) PROVE SessionInv'
  <2>1. /\ built' = built + 1 /\ built' \in ProviderId
        /\ provider' = [provider EXCEPT ![d] = built'] /\ enabled' = enabled
    BY <1>0, <1>3 DEF Build, ProviderId
  <2>2. /\ GoodCoordinator(coordinator') /\ registered' \subseteq ProviderId
        /\ coordinator'.providers \subseteq (coordinator.providers \ {provider[d]}) \cup {built'}
        /\ coordinator'.connected \subseteq (coordinator.connected \ {provider[d]}) \cup {built'}
    <3>1. CASE d \in enabled
      <4>1. ProviderConnects(TornDown(d), built')
        BY <1>3, <3>1 DEF Build
      <4>2. /\ GoodCoordinator(TornDown(d))
            /\ TornDown(d).providers \subseteq coordinator.providers \ {provider[d]}
            /\ TornDown(d).connected \subseteq coordinator.connected \ {provider[d]}
        BY <1>3, Tearing
      <4> HIDE DEF TornDown
      <4> DEFINE c == TornDown(d)
      <4>3. /\ GoodCoordinator(coordinator') /\ registered' \subseteq ProviderId
            /\ coordinator'.providers = c.providers \cup {built'}
            /\ coordinator'.connected \subseteq c.connected \cup {built'}
        BY <1>0, <2>1, <4>1, <4>2, Joining
      <4> QED  BY <4>2, <4>3
    <3>2. CASE d \notin enabled
      BY <1>0, <1>3, <3>2, Tearing DEF Build, Stays
    <3> QED  BY <3>1, <3>2
  <2>3. Owned'
    BY <1>0, <2>1 DEF Owned, ProviderId
  <2>4. \A p \in Live \ {provider[d]} : p \in Live'
    BY <1>0, <2>1 DEF Live
  <2>5. built' \in Live'
    BY <1>0, <2>1 DEF Live, ProviderId
  <2>6. NoDangling'
    BY <1>0, <2>2, <2>4, <2>5 DEF NoDangling
  <2>7. SessionTypeOK'
    BY <1>0, <2>1, <2>2 DEF SessionTypeOK, GoodCoordinator, ProviderId
  <2> QED  BY <2>2, <2>3, <2>6, <2>7 DEF SessionInv
<1>4. ASSUME NEW d \in Document, Teardown(d) PROVE SessionInv'
  <2>1. /\ provider' = [provider EXCEPT ![d] = 0] /\ UNCHANGED <<enabled, built, registered>>
        /\ coordinator' = TornDown(d)
    BY <1>4 DEF Teardown, Stays
  <2>2. /\ GoodCoordinator(coordinator')
        /\ coordinator'.providers \subseteq coordinator.providers \ {provider[d]}
        /\ coordinator'.connected \subseteq coordinator.connected \ {provider[d]}
    BY <1>4, <2>1, Tearing
  <2>3. Owned'
    BY <1>0, <2>1 DEF Owned
  <2>4. \A p \in Live \ {provider[d]} : p \in Live'
    BY <1>0, <2>1 DEF Live
  <2>5. NoDangling'
    BY <1>0, <2>2, <2>4 DEF NoDangling
  <2>6. SessionTypeOK'
    BY <1>0, <2>1, <2>2 DEF SessionTypeOK, GoodCoordinator
  <2> QED  BY <2>2, <2>3, <2>5, <2>6 DEF SessionInv
<1>5. ASSUME ClientLost PROVE SessionInv'
  <2>1. /\ coordinator' = [coordinator EXCEPT !.client = "lost"]
        /\ coordinator.client = "open" /\ UNCHANGED <<enabled, provider, built, registered>>
    BY <1>5 DEF ClientLost, IsConnected
  <2>2. GoodCoordinator(coordinator') /\ coordinator'.providers = coordinator.providers
        /\ coordinator'.connected = coordinator.connected
    BY <1>0, <2>1 DEF GoodCoordinator, Coordinator
  <2>3. SessionTypeOK'
    BY <1>0, <2>1, <2>2 DEF SessionTypeOK, GoodCoordinator
  <2> QED  BY <1>0, <2>1, <2>2, <2>3 DEF SessionInv, Owned, NoDangling, Live
<1>6. ASSUME UNCHANGED sessionVars PROVE SessionInv'
  BY <1>0, <1>6 DEF sessionVars, SessionInv, SessionTypeOK, Owned, NoDangling, Live
<1> QED  BY <1>1, <1>2, <1>3, <1>4, <1>5, <1>6 DEF SessionNext

\* The inductive invariant holds in every state.
LEMMA SessionInvariant == SessionSpec => []SessionInv
  BY SessionStart, SessionInvariance, PTL DEF SessionSpec

-----------------------------------------------------------------------------
(* The theorems.                                                           *)

\* Every variable keeps its type, with any number of documents and providers.
THEOREM SessionTypes == SessionSpec => []SessionTypeOK
<1>1. SessionInv => SessionTypeOK
  BY DEF SessionInv
<1> QED  BY <1>1, SessionInvariant, PTL

\* The coordinator never calls a destroyed provider.
THEOREM SessionNeverDangles == SessionSpec => []NoDangling
<1>1. SessionInv => NoDangling
  BY DEF SessionInv
<1> QED  BY <1>1, SessionInvariant, PTL

\* The reference count is exact, and the client lives as long as it is not 0.
THEOREM SessionCount == SessionSpec => []CountIsExact
<1>1. SessionInv => CountIsExact
  BY DEF SessionInv, GoodCoordinator, CountIsExact
<1> QED  BY <1>1, SessionInvariant, PTL

\* Who is connected gets the responses.
THEOREM SessionListens == SessionSpec => []ConnectedListens
<1>1. SessionInv => ConnectedListens
  BY DEF SessionInv, GoodCoordinator, ConnectedListens
<1> QED  BY <1>1, SessionInvariant, PTL

\* Unless the client was lost, the bridge knows the variables of every connected
\* provider.
THEOREM SessionRegistered == SessionSpec => []ConnectedIsRegistered
<1> DEFINE Known(c) == c.client # "lost" => c.connected \subseteq registered
<1>1. SessionInit => ConnectedIsRegistered
  BY DEF SessionInit, ConnectedIsRegistered
<1>2. SessionInv /\ ConnectedIsRegistered /\ [SessionNext]_sessionVars => ConnectedIsRegistered'
  <2> SUFFICES ASSUME SessionInv, ConnectedIsRegistered, [SessionNext]_sessionVars
               PROVE  ConnectedIsRegistered'
    OBVIOUS
  <2>0. /\ GoodCoordinator(coordinator) /\ Known(coordinator) /\ registered \subseteq ProviderId
        /\ provider \in [Document -> 0 .. MaxBuilds] /\ MaxBuilds \in Nat
        /\ built \in 0 .. MaxBuilds
    BY SimConnectSessionAssumption DEF SessionInv, SessionTypeOK, ProviderId, ConnectedIsRegistered
  <2>1. ASSUME NEW c, GoodCoordinator(c), NEW p \in ProviderId, ProviderConnects(c, p), Known(c)
        PROVE  ConnectedIsRegistered'
    <3>1. /\ coordinator'.client \in {"none", "open", "lost"}
          /\ (coordinator'.client # "none") = (coordinator'.connected # {})
      BY <2>0, <2>1, Joining DEF GoodCoordinator, Coordinator
    <3>2. /\ coordinator'.connected \subseteq c.connected \cup {p}
          /\ c.client = "lost" => coordinator'.client = "lost"
          /\ registered \subseteq registered'
          /\ p \in coordinator'.connected \ c.connected /\ coordinator'.client = "open" =>
               p \in registered'
      BY <2>0, <2>1, Joining
    <3>3. ASSUME coordinator'.client # "lost", NEW q \in coordinator'.connected
          PROVE  q \in registered'
      <4>1. coordinator'.client = "open"
        BY <3>1, <3>3
      <4>2. c.connected \subseteq registered
        BY <2>1, <3>2, <3>3
      <4> QED  BY <3>2, <3>3, <4>1, <4>2
    <3> QED  BY <3>3 DEF ConnectedIsRegistered
  <2>2. ASSUME NEW d \in Document, Disable(d) PROVE ConnectedIsRegistered'
    <3>1. CASE provider[d] # 0 /\ IsConnected(coordinator)
      <4>1. provider[d] \in ProviderId
        BY <2>0, <3>1 DEF ProviderId
      <4> QED  BY <2>0, <2>2, <3>1, <4>1, Disconnecting
               DEF Disable, Stays, ConnectedIsRegistered
    <3>2. CASE ~(provider[d] # 0 /\ IsConnected(coordinator))
      BY <2>2, <3>2 DEF Disable, Stays, ConnectedIsRegistered
    <3> QED  BY <3>1, <3>2
  <2>3. ASSUME NEW d \in Document, Enable(d) PROVE ConnectedIsRegistered'
    <3>1. CASE provider[d] # 0 /\ ~IsConnected(coordinator)
      <4>1. provider[d] \in ProviderId /\ ProviderConnects(coordinator, provider[d])
        BY <2>0, <2>3, <3>1 DEF ProviderId, Enable
      <4> QED  BY <2>0, <2>1, <4>1
    <3>2. CASE ~(provider[d] # 0 /\ ~IsConnected(coordinator))
      BY <2>3, <3>2 DEF Enable, Stays, ConnectedIsRegistered
    <3> QED  BY <3>1, <3>2
  <2>4. ASSUME NEW d \in Document PROVE GoodCoordinator(TornDown(d)) /\ Known(TornDown(d))
    BY <2>0, Tearing
  <2>5. ASSUME NEW d \in Document, Build(d) PROVE ConnectedIsRegistered'
    <3>1. CASE d \in enabled
      <4>1. ProviderConnects(TornDown(d), built') /\ built' \in ProviderId
        BY <2>0, <2>5, <3>1 DEF Build, ProviderId
      <4> QED  BY <2>1, <2>4, <4>1
    <3>2. CASE d \notin enabled
      BY <2>4, <2>5, <3>2 DEF Build, Stays, ConnectedIsRegistered
    <3> QED  BY <3>1, <3>2
  <2>6. ASSUME NEW d \in Document, Teardown(d) PROVE ConnectedIsRegistered'
    BY <2>4, <2>6 DEF Teardown, Stays, ConnectedIsRegistered
  <2>7. ASSUME ClientLost PROVE ConnectedIsRegistered'
    BY <2>0, <2>7 DEF ClientLost, ConnectedIsRegistered, GoodCoordinator, Coordinator
  <2>8. ASSUME UNCHANGED sessionVars PROVE ConnectedIsRegistered'
    BY <2>8 DEF sessionVars, ConnectedIsRegistered
  <2> QED  BY <2>2, <2>3, <2>5, <2>6, <2>7, <2>8 DEF SessionNext
<1> QED  BY <1>1, <1>2, SessionInvariant, PTL DEF SessionSpec

-----------------------------------------------------------------------------
(* The link: types.                                                        *)

Epoch == 0 .. EpochLimit - 1

\* Lists of names are no longer than there are variables.
Names == {list \in Seq(Variable) : Len(list) <= Cardinality(Variable)}

Written == [var : Variable, category : {"HEvent"} \cup {Category[v] : v \in Variable},
            value : Nat]

Request ==
       [cmd : {"RegisterNames"}, names : Names]
  \cup [cmd : {"DeltaRead"}, tiers : SUBSET Nat, seq : Epoch]
  \cup [cmd : {"DeltaWrite"}, seq : Epoch, records : SUBSET Written]

Response ==
       [cmd : {"DeltaUpdate", "FullSync"}, seq : Epoch,
        records : SUBSET [var : Variable, value : Nat]]
  \cup [cmd : {"WriteAck"}, seq : Epoch]

TableEntry == [var : Variable, epsilon : {DefaultEpsilon}, last_sent : Nat, valid : BOOLEAN]

Wire == [value : Nat, val_type : {"Float32", "Int32", "Bool"}]

ShadowOf(p) == [SignalsOf(Outputs(p)) -> Wire]

HostOf(p) ==
  [epoch : Epoch, frame : Nat, input_buffer : [SignalsOf(Inputs(p)) -> Nat],
   output_shadow : ShadowOf(p)]

Types ==
  /\ sim \in [Variable -> Nat]
  /\ DOMAIN signals = Provider
  /\ \A p \in Provider : signals[p] \in [SignalsOf(Outputs(p)) -> Nat]
  /\ providers \in Seq(Provider) /\ Distinct(providers)
  /\ DOMAIN host = Provider
  /\ \A p \in Provider : host[p] \in HostOf(p)
  /\ bridge \in [table : Seq(TableEntry), since_sync : Nat, last_epoch : Epoch]
  /\ to_bridge \in Seq(Request) /\ to_host \in Seq(Response)
  /\ starts \in 0 .. MaxStarts

-----------------------------------------------------------------------------
(* The operators of the model.                                             *)

LEMMA MappingFacts ==
  ASSUME NEW p \in Provider
  PROVE  /\ Mappings[p] \in Seq(Mapping)
         /\ Inputs(p) \subseteq MappingsOf(p) /\ Outputs(p) \subseteq MappingsOf(p)
         /\ \A m \in MappingsOf(p) :
              /\ m.var \in Variable /\ m.signal \in Nat /\ m.default_value \in Nat
              /\ m.val_type \in {"Float32", "Int32", "Bool"} /\ m.event \in BOOLEAN
  <1>1. Mappings[p] \in Seq(Mapping) /\ Value \subseteq Nat
    BY SimConnectLinkAssumption
  <1>2. MappingsOf(p) \subseteq Mapping
    BY <1>1 DEF MappingsOf, ToSet
  <1> QED
    BY <1>1, <1>2 DEF Inputs, Outputs, Mapping

\* A set of variables as a list.
LEMMA ListFacts ==
  ASSUME NEW S, S \subseteq Variable
  PROVE  SetToSeq(S) \in Names /\ ToSet(SetToSeq(S)) = S
  <1> DEFINE n == Cardinality(S)
             f == SetToSeq(S)
  <1>1. IsFiniteSet(S) /\ n \in Nat /\ n <= Cardinality(Variable)
    BY SimConnectLinkAssumption, FS_Subset, FS_CardinalityType
  <1>2. IsFiniteSet(1 .. n) /\ Cardinality(1 .. n) = n
    BY <1>1, FS_Interval
  <1>3. PICK g \in Bijection(1 .. n, S) : TRUE
    BY <1>1, <1>2, FS_SameCardinalityBij DEF ExistsBijection
  <1>4. g \in [1 .. n -> S] /\ IsInjective(g)
    BY <1>3 DEF Bijection, Injection, IsInjective
  <1>5. f \in [1 .. n -> S] /\ IsInjective(f)
    BY <1>4 DEF SetToSeq
  <1> HIDE DEF f, n
  <1>6. f \in Injection(1 .. n, S)
    BY <1>5 DEF Injection, IsInjective
  <1>7. f \in Surjection(1 .. n, S)
    BY <1>1, <1>2, <1>6, FS_Injection DEF n
  <1>8. ToSet(f) = S
    BY <1>5, <1>7 DEF Surjection, ToSet
  <1>9. f \in Seq(S) /\ Len(f) = n
    BY <1>1, <1>5
  <1>10. f \in Seq(Variable)
    BY <1>1, <1>5
  <1> QED
    BY <1>1, <1>8, <1>9, <1>10 DEF Names, f

LEMMA NamesFacts ==
  ASSUME NEW ps \in Seq(Provider)
  PROVE  /\ RegisteredNames(ps) \in Names
         /\ ToSet(RegisteredNames(ps)) = {m.var : m \in UNION {MappingsOf(p) : p \in ToSet(ps)}}
  <1>1. ToSet(ps) \subseteq Provider
    BY DEF ToSet
  <1>2. {m.var : m \in UNION {MappingsOf(p) : p \in ToSet(ps)}} \subseteq Variable
    BY <1>1, MappingFacts
  <1> QED
    BY <1>2, ListFacts DEF RegisteredNames

LEMMA EncodedNat ==
  ASSUME NEW v \in Nat, NEW t \in {"Float32", "Int32", "Bool"}
  PROVE  Encoded(v, t) \in Nat
  <1>1. v \div One \in Nat
    BY SimConnectLinkAssumption
  <1>2. (v \div One) * One \in Nat
    BY <1>1, SimConnectLinkAssumption
  <1> QED
    BY <1>2, SimConnectLinkAssumption DEF Encoded

\* A value does not differ from itself.
LEMMA NoChange ==
  ASSUME NEW x \in Nat, NEW epsilon \in Nat
  PROVE  ~FloatChanged(x, x, epsilon)
  BY DEF FloatChanged

\* Who is left when p goes.
LEMMA OthersFacts ==
  ASSUME Types, NEW p \in Provider
  PROVE  /\ Others(p) \in Seq(Provider)
         /\ ToSet(Others(p)) = ToSet(providers) \ {p}
         /\ Distinct(Others(p)) /\ Distinct(Append(Others(p), p))
         /\ Append(Others(p), p) \in Seq(Provider)
         /\ ToSet(Append(Others(p), p)) = ToSet(providers) \cup {p}
  <1> DEFINE o == Others(p)
             a == Append(o, p)
  <1>1. o \in Seq(Provider) /\ Distinct(o) /\ Range(o) = Range(providers) \ {p}
    BY RemoveFirstFacts DEF Types, Others
  <1>2. ToSet(o) = Range(o) /\ ToSet(providers) = Range(providers)
    BY <1>1 DEF Types, ToSet, Range
  <1> HIDE DEF o
  <1>3. /\ a \in Seq(Provider) /\ Len(a) = Len(o) + 1
        /\ \A i \in 1 .. Len(o) : a[i] = o[i]
        /\ a[Len(o) + 1] = p
    BY <1>1
  <1>4. Len(o) \in Nat /\ DOMAIN o = 1 .. Len(o) /\ DOMAIN a = 1 .. Len(o) + 1
    BY <1>1, <1>3
  <1>5. \A i \in 1 .. Len(o) : o[i] # p
    BY <1>1, <1>4 DEF Range
  <1> HIDE DEF a
  <1>6. Distinct(a)
    BY <1>1, <1>3, <1>4, <1>5 DEF Distinct
  <1>7. ToSet(a) = ToSet(o) \cup {p}
    <2>1. \A x : x \in ToSet(a) <=> \E i \in 1 .. Len(o) + 1 : a[i] = x
      BY <1>4 DEF ToSet
    <2>2. \A x : x \in ToSet(o) <=> \E i \in 1 .. Len(o) : o[i] = x
      BY <1>4 DEF ToSet
    <2> QED
      BY <1>3, <1>4, <2>1, <2>2
  <1> QED
    BY <1>1, <1>2, <1>3, <1>6, <1>7 DEF o, a

LEMMA BuiltTyped ==
  ASSUME NEW p \in Provider
  PROVE  Built(p) \in HostOf(p)
  <1>1. \A s \in SignalsOf(Inputs(p)) :
          (CHOOSE m \in Inputs(p) : m.signal = s).default_value \in Nat
    <2> TAKE s \in SignalsOf(Inputs(p))
    <2>1. \E m \in Inputs(p) : m.signal = s
      BY DEF SignalsOf
    <2> QED
      BY <2>1, MappingFacts
  <1>2. 0 \in Epoch
    BY SimConnectLinkAssumption DEF Epoch
  <1>3. Zero \in Wire
    BY DEF Zero, Wire
  <1> QED
    BY <1>1, <1>2, <1>3 DEF Built, HostOf, ShadowOf

\* A frame of a running simulation, on the host.
LEMMA RequestedTyped ==
  ASSUME NEW p \in Provider, NEW h \in HostOf(p)
  PROVE  /\ Requested(h, p) \in HostOf(p)
         /\ Requested(h, p).input_buffer = h.input_buffer
         /\ Requested(h, p).output_shadow = h.output_shadow
         /\ Requested(h, p).epoch = IF Inputs(p) = {} THEN h.epoch ELSE (h.epoch + 1) % EpochLimit
  <1>1. (h.epoch + 1) % EpochLimit \in Epoch /\ (h.frame + 1) % SlowPeriod \in Nat
    BY SimConnectLinkAssumption DEF HostOf, Epoch
  <1> QED
    BY <1>1 DEF Requested, HostOf

\* The shadows of p and the outputs it has sent: those sent are outputs, and the
\* shadow of a signal is the value of an output that was sent, or what it was
\* when none was.
Kept(p, was) ==
  /\ was.shadow \in ShadowOf(p) /\ was.sent \subseteq Outputs(p)
  /\ \A s \in SignalsOf(Outputs(p)) :
       IF \E m \in was.sent : m.signal = s
         THEN \E m \in was.sent :
                m.signal = s /\ was.shadow[s] = WireValue(signals[p][s], m.val_type)
         ELSE was.shadow[s] = host[p].output_shadow[s]

\* One output after another.
LEMMA ExtractionKept ==
  ASSUME Types, NEW p \in Provider
  PROVE  Kept(p, Extraction(p))
  <1> DEFINE s == OutputList(p)
             n == Len(s)
             W == [shadow : ShadowOf(p), sent : SUBSET Outputs(p)]
             start == [shadow |-> host[p].output_shadow, sent |-> {}]
             current(m) == WireValue(signals[p][m.signal], m.val_type)
             next(i, x) == IF WireChanged(current(s[i]), x.shadow[s[i].signal], Epsilon[s[i].var])
                             THEN [shadow |-> [x.shadow EXCEPT ![s[i].signal] = current(s[i])],
                                   sent |-> x.sent \cup {s[i]}]
                             ELSE x
             P(f) == f = [i \in 0 .. n |-> IF i = 0 THEN start ELSE next(i, f[i - 1])]
             D == [i \in 1 .. n |-> [x \in W |-> next(i, x)]]
             F == CHOOSE f : P(f)
  <1>1. Extraction(p) = F[n]
    BY DEF Extraction
  <1>2. s \in Seq(Mapping) /\ ToSet(s) = ToSet(Mappings[p]) \cap Outputs(p)
    BY MappingFacts, AmongFacts DEF OutputList
  <1> HIDE DEF s
  <1>3. n \in Nat /\ \A i \in 1 .. n : s[i] \in Outputs(p)
    BY <1>2 DEF ToSet
  <1>4. start \in W
    BY DEF Types, HostOf
  <1>5. \A m \in Outputs(p) : m.signal \in SignalsOf(Outputs(p))
    BY DEF SignalsOf
  <1>6. \A m \in Outputs(p) : current(m) \in Wire
    <2> TAKE m \in Outputs(p)
    <2>1. signals[p][m.signal] \in Nat /\ m.val_type \in {"Float32", "Int32", "Bool"}
      BY <1>5, MappingFacts DEF Types
    <2>2. Encoded(signals[p][m.signal], m.val_type) \in Nat
      BY <2>1, EncodedNat
    <2> QED
      BY <2>1, <2>2 DEF WireValue, Wire
  <1> HIDE DEF current
  <1>7. ASSUME NEW i \in 1 .. n, NEW x \in W PROVE next(i, x) \in W
    <2>1. s[i] \in Outputs(p) /\ current(s[i]) \in Wire /\ s[i].signal \in SignalsOf(Outputs(p))
      BY <1>3, <1>5, <1>6
    <2>2. x.shadow \in [SignalsOf(Outputs(p)) -> Wire]
      BY DEF ShadowOf
    <2>3. [x.shadow EXCEPT ![s[i].signal] = current(s[i])] \in ShadowOf(p)
      BY <2>1, <2>2 DEF ShadowOf
    <2>4. x.sent \cup {s[i]} \subseteq Outputs(p)
      BY <2>1
    <2> QED
      BY <2>3, <2>4
  <1> HIDE DEF n, W, next, start
  <1>8. D \in [1 .. n -> [W -> W]]
    BY <1>7
  <1>9. PICK f \in [0 .. n -> W] : Iterates(f, n, start, D)
    <2> HIDE DEF D
    <2>1. \E f \in [0 .. n -> W] : Iterates(f, n, start, D)
      BY <1>3, <1>4, <1>8, IterateExists
    <2> QED  BY <2>1
  <1>10. P(f)
    <2>1. \A i \in 0 .. n : i # 0 => i \in 1 .. n /\ i - 1 \in 0 .. n
      BY <1>3
    <2>2. \A i \in 0 .. n : i # 0 => D[i][f[i - 1]] = next(i, f[i - 1])
      BY <1>9, <2>1
    <2> HIDE DEF D
    <2>3. f = [i \in 0 .. n |-> IF i = 0 THEN start ELSE D[i][f[i - 1]]]
      BY <1>9 DEF Iterates
    <2>4. \A i \in 0 .. n : f[i] = IF i = 0 THEN start ELSE next(i, f[i - 1])
      BY <2>2, <2>3
    <2> QED  BY <1>9, <2>4
  <1>11. P(F)
    BY <1>10
  <1> HIDE DEF F
  <1>12. F[0] = start /\ \A i \in 1 .. n : F[i] = next(i, F[i - 1])
    BY <1>3, <1>11
  <1> HIDE DEF P, D
  <1> DEFINE I == {i \in 0 .. n : Kept(p, F[i])}
  <1>13. 0 \in I
    BY <1>3, <1>4, <1>12 DEF Kept, start, W
  <1>14. ASSUME NEW i \in 0 .. n, i # 0, i - 1 \in I PROVE i \in I
    <2> DEFINE x == F[i - 1]
               m == s[i]
    <2>1. i \in 1 .. n /\ Kept(p, x) /\ F[i] = next(i, x)
      BY <1>12, <1>14
    <2>2. m \in Outputs(p) /\ current(m) \in Wire /\ m.signal \in SignalsOf(Outputs(p))
      BY <1>3, <1>5, <1>6, <2>1
    <2> HIDE DEF x
    <2>3. CASE F[i] = x
      BY <2>1, <2>3
    <2>4. CASE F[i] = [shadow |-> [x.shadow EXCEPT ![m.signal] = current(m)],
                       sent |-> x.sent \cup {m}]
      <3> DEFINE y == F[i]
      <3>1. y.shadow = [x.shadow EXCEPT ![m.signal] = current(m)] /\ y.sent = x.sent \cup {m}
        BY <2>4
      <3> HIDE DEF y, m
      <3>2. x.shadow \in [SignalsOf(Outputs(p)) -> Wire] /\ x.sent \subseteq Outputs(p)
        BY <2>1 DEF Kept, ShadowOf
      <3>3. y.shadow \in ShadowOf(p) /\ y.sent \subseteq Outputs(p)
        BY <2>2, <3>1, <3>2 DEF ShadowOf
      <3>4. ASSUME NEW t \in SignalsOf(Outputs(p))
            PROVE  IF \E o \in y.sent : o.signal = t
                     THEN \E o \in y.sent :
                            o.signal = t /\ y.shadow[t] = WireValue(signals[p][t], o.val_type)
                     ELSE y.shadow[t] = host[p].output_shadow[t]
        <4>1. CASE t = m.signal
          <5>1. y.shadow[t] = current(m) /\ m \in y.sent
            BY <2>2, <3>1, <3>2, <4>1
          <5> QED
            BY <4>1, <5>1 DEF current
        <4>2. CASE t # m.signal
          <5>1. y.shadow[t] = x.shadow[t]
            BY <3>1, <3>2, <4>2
          <5>2. \A o : o \in y.sent /\ o.signal = t <=> o \in x.sent /\ o.signal = t
            BY <3>1, <4>2
          <5> QED
            BY <2>1, <5>1, <5>2 DEF Kept
        <4> QED
          BY <4>1, <4>2
      <3>5. Kept(p, y)
        BY <3>3, <3>4 DEF Kept
      <3> QED
        BY <3>5 DEF y
    <2> QED
      BY <2>1, <2>3, <2>4 DEF next
  <1> HIDE DEF I
  <1>15. n \in I
    BY <1>3, <1>13, <1>14, Upward
  <1> QED
    BY <1>1, <1>15 DEF I

LEMMA MovedTyped ==
  ASSUME Types, NEW p \in Provider
  PROVE  /\ Moved(p) \subseteq Outputs(p)
         /\ \A m \in Outputs(p) : /\ signals[p][m.signal] \in Nat
                                  /\ Encoded(signals[p][m.signal], m.val_type) \in Nat
  <1>1. \A m \in Outputs(p) : m.signal \in SignalsOf(Outputs(p))
    BY DEF SignalsOf
  <1>2. \A m \in Outputs(p) : signals[p][m.signal] \in Nat
    BY <1>1 DEF Types
  <1>3. Moved(p) \subseteq Outputs(p)
    BY ExtractionKept DEF Moved, Kept
  <1> QED
    BY <1>2, <1>3, MappingFacts, EncodedNat

LEMMA ExtractedTyped ==
  ASSUME Types, NEW p \in Provider, NEW h \in HostOf(p)
  PROVE  /\ Extracted(h, p) \in HostOf(p)
         /\ Extracted(h, p).epoch = h.epoch
         /\ Extracted(h, p).input_buffer = h.input_buffer
         /\ Extracted(h, p).output_shadow = Extraction(p).shadow
  <1>1. Extraction(p).shadow \in ShadowOf(p)
    BY ExtractionKept DEF Kept
  <1> QED
    BY <1>1 DEF Extracted, HostOf

\* What a frame puts on the bus.
ReadPacket(p) == [cmd |-> "DeltaRead", tiers |-> TierMask(host[p].frame), seq |-> host[p].epoch]

WritePacket(p) ==
  [cmd |-> "DeltaWrite", seq |-> Requested(host[p], p).epoch,
   records |-> {[var |-> m.var, category |-> IF m.event THEN "HEvent" ELSE Category[m.var],
                 value |-> Encoded(signals[p][m.signal], m.val_type)] : m \in Moved(p)}]

LEMMA ReadRequestTyped ==
  ASSUME Types, NEW p \in Provider
  PROVE  /\ ReadPacket(p) \in Request
         /\ ReadRequest(p) = IF Inputs(p) = {} THEN <<>> ELSE <<ReadPacket(p)>>
  <1>1. TierMask(host[p].frame) \subseteq Nat
    BY DEF TierMask, TIER_FAST, TIER_MEDIUM, TIER_SLOW
  <1>2. host[p].epoch \in Epoch
    BY DEF Types, HostOf
  <1> QED
    BY <1>1, <1>2 DEF ReadRequest, ReadPacket, Request

LEMMA WriteRequestTyped ==
  ASSUME Types, NEW p \in Provider
  PROVE  /\ WritePacket(p) \in Request
         /\ WriteRequest(p) = IF Moved(p) = {} THEN <<>> ELSE <<WritePacket(p)>>
  <1> DEFINE rs == {[var |-> m.var,
                     category |-> IF m.event THEN "HEvent" ELSE Category[m.var],
                     value |-> Encoded(signals[p][m.signal], m.val_type)] : m \in Moved(p)}
  <1>1. rs \subseteq Written
    BY MovedTyped, MappingFacts DEF Written
  <1>2. Requested(host[p], p).epoch \in Epoch
    BY RequestedTyped DEF Types, HostOf
  <1> QED
    BY <1>1, <1>2 DEF WriteRequest, WritePacket, Request

LEMMA FramePackets ==
  ASSUME NEW p
  PROVE  /\ ReadPacket(p).cmd = "DeltaRead" /\ ReadPacket(p).seq = host[p].epoch
         /\ WritePacket(p).cmd = "DeltaWrite"
         /\ \A x \in WritePacket(p).records : \E m \in Moved(p) :
              /\ x.var = m.var /\ x.value = Encoded(signals[p][m.signal], m.val_type)
              /\ x.category = IF m.event THEN "HEvent" ELSE Category[m.var]
         /\ \A m \in Moved(p) : \E x \in WritePacket(p).records : x.var = m.var
  <1> DEFINE rec(m) == [var |-> m.var,
                        category |-> IF m.event THEN "HEvent" ELSE Category[m.var],
                        value |-> Encoded(signals[p][m.signal], m.val_type)]
  <1>1. \A m : /\ rec(m).var = m.var
               /\ rec(m).value = Encoded(signals[p][m.signal], m.val_type)
               /\ rec(m).category = IF m.event THEN "HEvent" ELSE Category[m.var]
    OBVIOUS
  <1>2. WritePacket(p).records = {rec(m) : m \in Moved(p)}
    BY DEF WritePacket
  <1>3. /\ ReadPacket(p).cmd = "DeltaRead" /\ ReadPacket(p).seq = host[p].epoch
        /\ WritePacket(p).cmd = "DeltaWrite"
    BY DEF ReadPacket, WritePacket
  <1> HIDE DEF rec
  <1> QED
    BY <1>1, <1>2, <1>3

\* Both, one after the other.
LEMMA FrameBus ==
  ASSUME Types, NEW p \in Provider, NEW q \in Seq(Request)
  PROVE  LET r == ReadPacket(p)
             w == WritePacket(p)
             read == IF Inputs(p) = {} THEN q ELSE Append(q, r)
         IN  /\ read \in Seq(Request)
             /\ q \o (ReadRequest(p) \o WriteRequest(p)) =
                  IF Moved(p) = {} THEN read ELSE Append(read, w)
  <1> DEFINE r == ReadPacket(p)
             w == WritePacket(p)
             read == IF Inputs(p) = {} THEN q ELSE Append(q, r)
             rr == ReadRequest(p)
             ww == WriteRequest(p)
  <1>1. r \in Request /\ rr = IF Inputs(p) = {} THEN <<>> ELSE <<r>>
    BY ReadRequestTyped
  <1>2. w \in Request /\ ww = IF Moved(p) = {} THEN <<>> ELSE <<w>>
    BY WriteRequestTyped
  <1> HIDE DEF r, w, rr, ww
  <1>3. rr \in Seq(Request) /\ ww \in Seq(Request)
    BY <1>1, <1>2
  <1>4. q \o (rr \o ww) = (q \o rr) \o ww
    BY <1>3, ConcatAssociative
  <1>5. q \o rr = read /\ read \in Seq(Request)
    BY <1>1
  <1>6. ASSUME NEW t \in Seq(Request)
        PROVE  t \o ww = IF Moved(p) = {} THEN t ELSE Append(t, w)
    BY <1>2
  <1> QED
    BY <1>4, <1>5, <1>6 DEF r, w, rr, ww

\* What a packet is, by its command.
LEMMA PacketFacts ==
  /\ \A r \in Request :
       /\ r.cmd \in {"RegisterNames", "DeltaRead", "DeltaWrite"}
       /\ r.cmd = "RegisterNames" => r.names \in Names
       /\ r.cmd = "DeltaRead" => r.tiers \subseteq Nat /\ r.seq \in Epoch
       /\ r.cmd = "DeltaWrite" => r.records \subseteq Written /\ r.seq \in Epoch
  /\ \A r \in Response :
       /\ r.cmd \in {"DeltaUpdate", "FullSync", "WriteAck"} /\ r.seq \in Epoch
       /\ r.cmd \in {"DeltaUpdate", "FullSync"} =>
            r.records \subseteq [var : Variable, value : Nat]
  BY DEF Request, Response

LEMMA BufferedTyped ==
  ASSUME Types, NEW p \in Provider, NEW records \in SUBSET [var : Variable, value : Nat]
  PROVE  [host[p] EXCEPT !.input_buffer = Buffered(p, records)] \in HostOf(p)
  <1>1. host[p] \in HostOf(p)
    BY DEF Types
  <1>2. DOMAIN host[p].input_buffer = SignalsOf(Inputs(p))
        /\ \A s \in SignalsOf(Inputs(p)) : host[p].input_buffer[s] \in Nat
    BY <1>1 DEF HostOf
  <1>3. ASSUME NEW s, \E r \in records : IsTarget(p, r.var, s)
        PROVE  (CHOOSE r \in records : IsTarget(p, r.var, s)).value \in Nat
    <2>1. (CHOOSE r \in records : IsTarget(p, r.var, s)) \in records
      BY <1>3
    <2> QED
      BY <2>1
  <1>4. Buffered(p, records) \in [SignalsOf(Inputs(p)) -> Nat]
    BY <1>2, <1>3 DEF Buffered
  <1> QED
    BY <1>1, <1>4 DEF HostOf

\* The table of the bridge.
LEMMA ReadNat ==
  ASSUME Types, NEW v \in Variable
  PROVE  Read(v) \in Nat
  BY DEF Types, Read

LEMMA SentFacts ==
  ASSUME Types, NEW e \in TableEntry
  PROVE  /\ Sent(e) \in TableEntry /\ Sent(e).var = e.var /\ Sent(e).valid
         /\ Sent(e).last_sent = Read(e.var) /\ Sent(e).epsilon = e.epsilon
  <1>1. Read(e.var) \in Nat
    BY ReadNat DEF TableEntry
  <1> QED
    BY <1>1 DEF Sent, TableEntry

\* Registration appends entries that were never sent; all of them, where they fit.
LEMMA AddedFacts ==
  ASSUME NEW table \in Seq(TableEntry), NEW names \in Names
  PROVE  LET t == Added(table, names)
         IN  /\ t \in Seq(TableEntry) /\ Len(t) <= Len(table) + Len(names)
             /\ \A i \in DOMAIN table : i \in DOMAIN t /\ t[i] = table[i]
             /\ Len(table) + Len(names) <= MaxDeltaVars =>
                  \A v \in ToSet(names) : \E i \in DOMAIN t : t[i].var = v /\ ~t[i].valid
  <1> DEFINE D == {k \in DOMAIN names : Len(table) + k <= MaxDeltaVars}
             new == [i \in D |-> Entry(names[i])]
             t == Added(table, names)
  <1>0. /\ names \in Seq(Variable) /\ Len(names) \in Nat /\ DOMAIN names = 1 .. Len(names)
        /\ Len(table) \in Nat /\ MaxDeltaVars \in Nat /\ DefaultEpsilon \in Nat
    BY SimConnectLinkAssumption DEF Names
  <1> DEFINE n == IF Len(table) + Len(names) <= MaxDeltaVars THEN Len(names)
                  ELSE IF MaxDeltaVars < Len(table) THEN 0 ELSE MaxDeltaVars - Len(table)
  <1>1. n \in Nat /\ n <= Len(names)
    BY <1>0
  <1>2. Len(table) + Len(names) <= MaxDeltaVars => n = Len(names)
    BY <1>0
  <1>3. \A k \in 1 .. Len(names) : Len(table) + k <= MaxDeltaVars <=> k <= n
    BY <1>0
  <1> HIDE DEF n
  <1>4. D = 1 .. n
    <2>1. \A k : k \in D <=> k \in 1 .. Len(names) /\ Len(table) + k <= MaxDeltaVars
      BY <1>0
    <2> HIDE DEF D
    <2>2. \A k : k \in D <=> k \in 1 .. n
      BY <1>0, <1>1, <1>3, <2>1
    <2> QED
      BY <2>2
  <1> HIDE DEF D
  <1>5. \A i \in 1 .. n : /\ names[i] \in Variable
                          /\ Entry(names[i]) \in TableEntry
                          /\ Entry(names[i]).var = names[i] /\ ~Entry(names[i]).valid
    <2>1. \A i \in 1 .. n : names[i] \in Variable
      BY <1>0, <1>1
    <2>2. \A v \in Variable : Entry(v) \in TableEntry /\ Entry(v).var = v /\ ~Entry(v).valid
      BY <1>0 DEF Entry, TableEntry
    <2> QED
      BY <2>1, <2>2
  <1>6. /\ new \in Seq(TableEntry) /\ Len(new) = n
        /\ \A i \in 1 .. n : new[i] = Entry(names[i])
    <2> DEFINE made == [i \in 1 .. n |-> Entry(names[i])]
    <2>1. \A i \in 1 .. n : i \in 1 .. Len(names)
      BY <1>0, <1>1
    <2>2. made \in Seq(TableEntry) /\ Len(made) = n
      BY <1>1, <1>5
    <2>3. new = made
      BY <1>4
    <2> QED
      BY <2>2, <2>3
  <1>7. t = table \o new
    BY DEF Added, D
  <1> HIDE DEF new, t
  <1>8. /\ t \in Seq(TableEntry) /\ Len(t) = Len(table) + n
        /\ \A i \in 1 .. Len(table) : t[i] = table[i]
        /\ \A i \in 1 .. n : t[Len(table) + i] = new[i]
    <2>0. table \in Seq(TableEntry) /\ new \in Seq(TableEntry)
      BY <1>6
    <2> HIDE DEF new
    <2>1. /\ table \o new \in Seq(TableEntry)
          /\ \A i \in 1 .. Len(table) : (table \o new)[i] = table[i]
          /\ \A i \in 1 .. Len(new) : (table \o new)[Len(table) + i] = new[i]
          /\ Len(table \o new) = Len(table) + Len(new)
      BY ONLY <2>0, ConcatFacts
    <2>2. t = table \o new /\ Len(new) = n
      BY <1>6, <1>7
    <2> HIDE DEF t
    <2> QED
      BY <2>1, <2>2
  <1>9. DOMAIN t = 1 .. Len(table) + n /\ DOMAIN table = 1 .. Len(table)
    BY <1>0, <1>8
  <1>10. ASSUME Len(table) + Len(names) <= MaxDeltaVars, NEW v \in ToSet(names)
        PROVE  \E i \in DOMAIN t : t[i].var = v /\ ~t[i].valid
    <2>1. n = Len(names)
      BY <1>10, <1>2
    <2>2. PICK k \in 1 .. n : names[k] = v
      BY <1>0, <2>1 DEF ToSet
    <2>3. Len(table) + k \in DOMAIN t
      BY <1>0, <1>1, <1>9
    <2> QED
      BY <1>5, <1>6, <1>8, <2>2, <2>3
  <1> QED
    BY <1>0, <1>1, <1>8, <1>9, <1>10 DEF t

\* The answer to a read: which entries are sent, and what is said of them.
LEMMA AnswerFacts ==
  ASSUME Types, NEW tiers, NEW seq \in Epoch
  PROVE  LET table == bridge.table
             news(S) == {[var |-> e.var, value |-> Read(e.var)] : e \in S}
             due     == {e \in ToSet(table) : Due(e, tiers)}
             full    == FullSync(bridge, seq)
             update  == DeltaUpdate(bridge, tiers, seq)
         IN  /\ full.table = [i \in DOMAIN table |-> Sent(table[i])]
             /\ update.table = [i \in DOMAIN table |->
                                  IF Due(table[i], tiers) THEN Sent(table[i]) ELSE table[i]]
             /\ full.table \in Seq(TableEntry) /\ Len(full.table) = Len(table)
             /\ update.table \in Seq(TableEntry) /\ Len(update.table) = Len(table)
             /\ news(ToSet(table)) \subseteq [var : Variable, value : Nat]
             /\ news(due) \subseteq [var : Variable, value : Nat]
             /\ full.replies = << [cmd |-> "FullSync", seq |-> seq,
                                   records |-> news(ToSet(table))] >>
             /\ update.replies = IF due = {} THEN <<>>
                                 ELSE << [cmd |-> "DeltaUpdate", seq |-> seq,
                                          records |-> news(due)] >>
  <1> DEFINE table == bridge.table
             due == {e \in ToSet(table) : Due(e, tiers)}
  <1>1. table \in Seq(TableEntry) /\ Len(table) \in Nat /\ DOMAIN table = 1 .. Len(table)
    BY DEF Types
  <1>2. \A i \in DOMAIN table : /\ table[i] \in TableEntry /\ Sent(table[i]) \in TableEntry
                                /\ table[i] \in due <=> Due(table[i], tiers)
    BY <1>1, SentFacts DEF ToSet
  <1>3. FullSync(bridge, seq).table = [i \in DOMAIN table |-> Sent(table[i])]
    BY DEF FullSync
  <1>4. DeltaUpdate(bridge, tiers, seq).table =
          [i \in DOMAIN table |-> IF Due(table[i], tiers) THEN Sent(table[i]) ELSE table[i]]
    BY <1>2 DEF DeltaUpdate
  <1>5. \A e \in ToSet(table) : e.var \in Variable /\ Read(e.var) \in Nat
    <2>1. \A e \in ToSet(table) : e \in TableEntry
      BY <1>1 DEF ToSet
    <2>2. \A e \in ToSet(table) : e.var \in Variable
      BY <2>1 DEF TableEntry
    <2> QED
      BY <2>2, ReadNat
  <1> HIDE DEF table
  <1>6. [i \in DOMAIN table |-> Sent(table[i])] \in Seq(TableEntry)
        /\ Len([i \in DOMAIN table |-> Sent(table[i])]) = Len(table)
    BY <1>1, <1>2
  <1>7. LET t == [i \in DOMAIN table |-> IF Due(table[i], tiers) THEN Sent(table[i]) ELSE table[i]]
        IN  t \in Seq(TableEntry) /\ Len(t) = Len(table)
    BY <1>1, <1>2
  <1>8. /\ FullSync(bridge, seq).replies =
             << [cmd |-> "FullSync", seq |-> seq,
                 records |-> {[var |-> e.var, value |-> Read(e.var)] : e \in ToSet(table)}] >>
        /\ DeltaUpdate(bridge, tiers, seq).replies =
             IF due = {} THEN <<>>
             ELSE << [cmd |-> "DeltaUpdate", seq |-> seq,
                      records |-> {[var |-> e.var, value |-> Read(e.var)] : e \in due}] >>
    BY DEF FullSync, DeltaUpdate, table
  <1> QED
    BY <1>3, <1>4, <1>5, <1>6, <1>7, <1>8 DEF table

LEMMA RepliesTyped ==
  ASSUME Types, NEW tiers, NEW seq \in Epoch
  PROVE  /\ FullSync(bridge, seq).replies \in Seq(Response)
         /\ DeltaUpdate(bridge, tiers, seq).replies \in Seq(Response)
  <1> DEFINE news(S) == {[var |-> e.var, value |-> Read(e.var)] : e \in S}
             all == ToSet(bridge.table)
             due == {e \in all : Due(e, tiers)}
             full == [cmd |-> "FullSync", seq |-> seq, records |-> news(all)]
             update == [cmd |-> "DeltaUpdate", seq |-> seq, records |-> news(due)]
  <1>1. /\ news(all) \subseteq [var : Variable, value : Nat]
        /\ news(due) \subseteq [var : Variable, value : Nat]
        /\ FullSync(bridge, seq).replies = << full >>
        /\ DeltaUpdate(bridge, tiers, seq).replies = IF due = {} THEN <<>> ELSE << update >>
    BY AnswerFacts
  <1>2. full \in Response /\ update \in Response
    BY <1>1 DEF Response
  <1> HIDE DEF full, update, due
  <1> QED
    BY <1>1, <1>2

-----------------------------------------------------------------------------
(* The types are kept.                                                     *)

LEMMA TypesInit == Init => Types
  <1> SUFFICES ASSUME Init PROVE Types
    OBVIOUS
  <1>1. sim \in [Variable -> Nat]
    BY SimConnectLinkAssumption DEF Init
  <1>2. /\ DOMAIN signals = Provider
        /\ \A p \in Provider : signals[p] \in [SignalsOf(Outputs(p)) -> Nat]
    BY DEF Init
  <1>3. providers \in Seq(Provider) /\ Distinct(providers)
    BY DEF Init, Distinct
  <1>4. DOMAIN host = Provider /\ \A p \in Provider : host[p] \in HostOf(p)
    BY BuiltTyped DEF Init
  <1>5. bridge \in [table : Seq(TableEntry), since_sync : Nat, last_epoch : Epoch]
    BY SimConnectLinkAssumption DEF Init, Epoch
  <1>6. to_bridge \in Seq(Request) /\ to_host \in Seq(Response) /\ starts \in 0 .. MaxStarts
    BY SimConnectLinkAssumption DEF Init
  <1> QED
    BY <1>1, <1>2, <1>3, <1>4, <1>5, <1>6 DEF Types

\* A request that is appended, a queue without its head.
LEMMA QueueFacts ==
  ASSUME NEW V, NEW q \in Seq(V)
  PROVE  /\ \A x \in V : Append(q, x) \in Seq(V)
         /\ q # <<>> => Head(q) \in V /\ Tail(q) \in Seq(V)
  OBVIOUS

LEMMA StartTypes ==
  ASSUME Types, NEW p \in Provider, Start(p)
  PROVE  Types'
  <1>1. /\ host' = [host EXCEPT ![p] = Built(p)] /\ starts' = starts + 1 /\ starts < MaxStarts
        /\ providers' = Append(Others(p), p)
        /\ to_bridge' = Append(to_bridge, [cmd |-> "RegisterNames",
                                           names |-> RegisteredNames(providers')])
        /\ to_host' = Polled(Others(p))
        /\ sim' = sim /\ signals' = signals /\ bridge' = bridge
    BY DEF Start
  <1>2. providers' \in Seq(Provider) /\ Distinct(providers')
    BY <1>1, OthersFacts
  <1>3. to_bridge' \in Seq(Request)
    <2>1. [cmd |-> "RegisterNames", names |-> RegisteredNames(providers')] \in Request
      BY <1>2, NamesFacts DEF Request
    <2> QED
      BY <1>1, <2>1, QueueFacts DEF Types
  <1>4. DOMAIN host' = Provider /\ \A q \in Provider : host'[q] \in HostOf(q)
    BY <1>1, BuiltTyped DEF Types
  <1>5. to_host' \in Seq(Response)
    BY <1>1 DEF Polled, Types
  <1>6. starts' \in 0 .. MaxStarts
    BY <1>1, SimConnectLinkAssumption DEF Types
  <1> QED
    BY <1>1, <1>2, <1>3, <1>4, <1>5, <1>6 DEF Types

LEMMA StopTypes ==
  ASSUME Types, NEW p \in Provider, Stop(p)
  PROVE  Types'
  <1>1. to_host' \in Seq(Response)
    BY DEF Stop, Polled, Types
  <1>2. providers' \in Seq(Provider) /\ Distinct(providers')
    BY OthersFacts DEF Stop
  <1> QED
    BY <1>1, <1>2 DEF Stop, Types

LEMMA FrameTypes ==
  ASSUME Types, NEW p \in Provider, Frame(p)
  PROVE  Types'
  <1>1. Extracted(Requested(host[p], p), p) \in HostOf(p)
    BY RequestedTyped, ExtractedTyped DEF Types
  <1>2. DOMAIN host' = Provider /\ \A q \in Provider : host'[q] \in HostOf(q)
    BY <1>1 DEF Frame, Types
  <1>3. to_bridge' \in Seq(Request)
    <2>1. to_bridge' = to_bridge \o (ReadRequest(p) \o WriteRequest(p))
      BY DEF Frame
    <2>2. ReadRequest(p) \in Seq(Request)
      <3> DEFINE r == ReadPacket(p)
      <3>1. r \in Request /\ ReadRequest(p) = IF Inputs(p) = {} THEN <<>> ELSE <<r>>
        BY ReadRequestTyped
      <3> QED
        BY <3>1
    <2>3. WriteRequest(p) \in Seq(Request)
      <3> DEFINE w == WritePacket(p)
      <3>1. w \in Request /\ WriteRequest(p) = IF Moved(p) = {} THEN <<>> ELSE <<w>>
        BY WriteRequestTyped
      <3> HIDE DEF w
      <3> QED
        BY <3>1
    <2> QED
      BY <2>1, <2>2, <2>3 DEF Types
  <1> QED
    BY <1>2, <1>3 DEF Frame, Types

LEMMA OutputVariesTypes ==
  ASSUME Types, NEW p \in Provider, OutputVaries(p)
  PROVE  Types'
  <1>1. PICK s \in DOMAIN signals[p], v \in Value :
          /\ signals' = [signals EXCEPT ![p][s] = v]
          /\ UNCHANGED <<sim, providers, host, bridge, to_bridge, to_host, starts, disturbed>>
    BY DEF OutputVaries
  <1>2. v \in Nat
    BY SimConnectLinkAssumption
  <1>3. /\ DOMAIN signals' = Provider
        /\ \A q \in Provider : signals'[q] \in [SignalsOf(Outputs(q)) -> Nat]
    BY <1>1, <1>2 DEF Types
  <1> QED
    BY <1>1, <1>3 DEF Types

LEMMA ReceiveTypes ==
  ASSUME Types, Receive
  PROVE  Types'
  <1> DEFINE packet == Head(to_host)
             believes(p) == /\ Contains(providers, p)
                            /\ packet.cmd \in {"DeltaUpdate", "FullSync"}
                            /\ ~IsStale(p, packet.seq)
  <1>1. /\ to_host # <<>> /\ to_host' = Tail(to_host)
        /\ host' = [p \in Provider |->
                      IF believes(p)
                        THEN [host[p] EXCEPT !.input_buffer = Buffered(p, packet.records)]
                        ELSE host[p]]
        /\ UNCHANGED <<sim, signals, providers, bridge, to_bridge, starts, disturbed>>
    BY DEF Receive
  <1>2. packet \in Response /\ to_host' \in Seq(Response)
    BY <1>1, QueueFacts DEF Types
  <1>3. ASSUME NEW p \in Provider
        PROVE  host'[p] \in HostOf(p)
    <2>1. CASE believes(p)
      <3>1. packet.records \in SUBSET [var : Variable, value : Nat]
        BY <1>2, <2>1, PacketFacts
      <3> HIDE DEF packet
      <3> QED
        BY <1>1, <2>1, <3>1, BufferedTyped
    <2>2. CASE ~believes(p)
      BY <1>1, <2>2 DEF Types
    <2> QED
      BY <2>1, <2>2
  <1>4. DOMAIN host' = Provider
    BY <1>1
  <1> QED
    BY <1>1, <1>2, <1>3, <1>4 DEF Types

LEMMA HandleRegisterTypes ==
  ASSUME Types, HandleRegister
  PROVE  Types'
  <1>1. Head(to_bridge).names \in Names /\ to_bridge' \in Seq(Request)
    BY QueueFacts, PacketFacts DEF HandleRegister, Types
  <1>2. Added(bridge.table, Head(to_bridge).names) \in Seq(TableEntry)
    BY <1>1, AddedFacts DEF Types
  <1>3. bridge' \in [table : Seq(TableEntry), since_sync : Nat, last_epoch : Epoch]
    BY <1>2 DEF HandleRegister, Types
  <1> QED
    BY <1>1, <1>3 DEF HandleRegister, Types

\* The answer to a read as the bridge's step makes it.
LEMMA HandleReadFacts ==
  ASSUME Types, HandleRead
  PROVE  LET packet == Head(to_bridge)
             full   == MustSync(bridge, packet.seq)
             answer == IF full THEN FullSync(bridge, packet.seq)
                               ELSE DeltaUpdate(bridge, packet.tiers, packet.seq)
         IN  /\ to_bridge # <<>> /\ packet \in Request /\ packet.cmd = "DeltaRead"
             /\ packet.seq \in Epoch /\ to_bridge' = Tail(to_bridge)
             /\ to_bridge' \in Seq(Request)
             /\ answer.replies \in Seq(Response) /\ to_host' = to_host \o answer.replies
             /\ answer.table \in Seq(TableEntry) /\ bridge'.table = answer.table
             /\ bridge' \in [table : Seq(TableEntry), since_sync : Nat, last_epoch : Epoch]
  <1> DEFINE packet == Head(to_bridge)
             full   == MustSync(bridge, packet.seq)
             answer == IF full THEN FullSync(bridge, packet.seq)
                               ELSE DeltaUpdate(bridge, packet.tiers, packet.seq)
             since  == IF full THEN 0 ELSE bridge.since_sync + 1
  <1>1. /\ to_bridge # <<>> /\ packet.cmd = "DeltaRead" /\ to_bridge' = Tail(to_bridge)
        /\ to_host' = to_host \o answer.replies
        /\ bridge' = [table |-> answer.table, last_epoch |-> packet.seq, since_sync |-> since]
    BY DEF HandleRead
  <1>2. packet \in Request /\ to_bridge' \in Seq(Request)
    BY <1>1, QueueFacts DEF Types
  <1>3. packet.seq \in Epoch
    BY <1>1, <1>2, PacketFacts
  <1> HIDE DEF packet
  <1>4. answer.table \in Seq(TableEntry)
    BY <1>3, AnswerFacts
  <1>5. answer.replies \in Seq(Response)
    BY <1>3, RepliesTyped
  <1>6. since \in Nat
    BY DEF Types
  <1> HIDE DEF answer, since
  <1>7. /\ bridge'.table = answer.table
        /\ bridge' \in [table : Seq(TableEntry), since_sync : Nat, last_epoch : Epoch]
    BY <1>1, <1>3, <1>4, <1>6
  <1> QED
    BY <1>1, <1>2, <1>3, <1>4, <1>5, <1>7 DEF packet, answer

LEMMA HandleReadTypes ==
  ASSUME Types, HandleRead
  PROVE  Types'
  <1>1. UNCHANGED <<sim, signals, providers, host, starts, disturbed>>
    BY DEF HandleRead
  <1>2. /\ to_bridge' \in Seq(Request)
        /\ bridge' \in [table : Seq(TableEntry), since_sync : Nat, last_epoch : Epoch]
    BY HandleReadFacts
  <1>3. to_host' \in Seq(Response)
    <2>1. \E replies \in Seq(Response) : to_host' = to_host \o replies
      BY HandleReadFacts
    <2> QED
      BY <2>1 DEF Types
  <1> QED
    BY <1>1, <1>2, <1>3 DEF Types

LEMMA HandleWriteTypes ==
  ASSUME Types, HandleWrite
  PROVE  Types'
  <1> DEFINE packet == Head(to_bridge)
             written == Writable(packet.records)
  <1>1. /\ to_bridge # <<>> /\ packet.cmd = "DeltaWrite" /\ to_bridge' = Tail(to_bridge)
        /\ sim' = [v \in Variable |->
                     IF \E r \in written : r.var = v
                       THEN (CHOOSE r \in written : r.var = v).value
                       ELSE sim[v]]
        /\ to_host' = Append(to_host, [cmd |-> "WriteAck", seq |-> packet.seq])
        /\ UNCHANGED <<signals, providers, host, bridge, starts, disturbed>>
    BY DEF HandleWrite
  <1>2. packet \in Request /\ to_bridge' \in Seq(Request)
    BY <1>1, QueueFacts DEF Types
  <1>3. packet.seq \in Epoch /\ packet.records \subseteq Written
    BY <1>1, <1>2, PacketFacts
  <1> HIDE DEF packet
  <1>4. written \subseteq Written
    BY <1>3 DEF Writable
  <1> HIDE DEF written
  <1>5. ASSUME NEW v, \E r \in written : r.var = v
        PROVE  (CHOOSE r \in written : r.var = v).value \in Nat
    <2>1. (CHOOSE r \in written : r.var = v) \in Written
      BY <1>4, <1>5
    <2> QED
      BY <2>1 DEF Written
  <1>6. sim' \in [Variable -> Nat]
    BY <1>1, <1>5 DEF Types
  <1>7. to_host' \in Seq(Response)
    <2>1. [cmd |-> "WriteAck", seq |-> packet.seq] \in Response
      BY <1>3 DEF Response
    <2> QED
      BY <1>1, <2>1, QueueFacts DEF Types
  <1> QED
    BY <1>1, <1>2, <1>6, <1>7 DEF Types

LEMMA SurroundingsTypes ==
  ASSUME Types, SimVaries \/ Lose \/ BridgeRestarts
  PROVE  Types'
  <1>1. CASE SimVaries
    <2>1. sim' \in [Variable -> Nat]
      BY <1>1, SimConnectLinkAssumption DEF SimVaries, Types
    <2> QED
      BY <1>1, <2>1 DEF SimVaries, Types
  <1>2. CASE Lose
    <2>1. \/ to_bridge # <<>> /\ to_bridge' = Tail(to_bridge) /\ to_host' = to_host
          \/ to_host # <<>> /\ to_host' = Tail(to_host) /\ to_bridge' = to_bridge
      BY <1>2 DEF Lose
    <2>2. /\ to_bridge \in Seq(Request) /\ to_host \in Seq(Response)
          /\ to_bridge # <<>> => Tail(to_bridge) \in Seq(Request)
          /\ to_host # <<>> => Tail(to_host) \in Seq(Response)
      BY QueueFacts DEF Types
    <2>3. to_bridge' \in Seq(Request)
      BY <2>1, <2>2, Zenon
    <2>4. to_host' \in Seq(Response)
      BY <2>1, <2>2, Zenon
    <2> QED
      BY <1>2, <2>3, <2>4 DEF Lose, Types
  <1>3. CASE BridgeRestarts
    <2>1. bridge' \in [table : Seq(TableEntry), since_sync : Nat, last_epoch : Epoch]
      BY <1>3, SimConnectLinkAssumption DEF BridgeRestarts, Epoch
    <2> QED
      BY <1>3, <2>1 DEF BridgeRestarts, Types
  <1> QED
    BY <1>1, <1>2, <1>3

LEMMA TypesStep ==
  ASSUME Types, [Next]_vars
  PROVE  Types'
  <1>1. CASE UNCHANGED vars
    BY <1>1 DEF vars, Types
  <1> QED
    BY <1>1, StartTypes, StopTypes, FrameTypes, OutputVariesTypes, ReceiveTypes,
       HandleRegisterTypes, HandleReadTypes, HandleWriteTypes, SurroundingsTypes
       DEF Next, HandleRequest

-----------------------------------------------------------------------------
(* What a queue says last of a variable.                                   *)

Carries(packet, cmds, v) == packet.cmd \in cmds /\ \E r \in packet.records : r.var = v

\* The last packet about v gives it a value of X; if there is none, base is one.
LastWord(q, cmds, v, base, X) ==
  /\ \A i \in DOMAIN q :
       Carries(q[i], cmds, v) /\ (\A j \in DOMAIN q : j > i => ~Carries(q[j], cmds, v))
       => \A r \in q[i].records : r.var = v => r.value \in X
  /\ (\A i \in DOMAIN q : ~Carries(q[i], cmds, v)) => base \in X

LEMMA AppendQuiet ==
  ASSUME NEW V, NEW q \in Seq(V), NEW x \in V, NEW cmds, NEW v, NEW base, NEW X,
         LastWord(q, cmds, v, base, X), ~Carries(x, cmds, v)
  PROVE  LastWord(Append(q, x), cmds, v, base, X)
  <1> DEFINE p == Append(q, x)
             n == Len(q)
  <1>1. /\ n \in Nat /\ DOMAIN q = 1 .. n /\ DOMAIN p = 1 .. n + 1 /\ p[n + 1] = x
        /\ \A i \in 1 .. n : p[i] = q[i]
    BY AppendIndex
  <1> HIDE DEF p, n
  <1>2. ASSUME NEW i \in DOMAIN p, Carries(p[i], cmds, v),
               \A j \in DOMAIN p : j > i => ~Carries(p[j], cmds, v)
        PROVE  \A r \in p[i].records : r.var = v => r.value \in X
    <2>1. i \in 1 .. n
      BY <1>1, <1>2
    <2>2. \A j \in DOMAIN q : j > i => ~Carries(q[j], cmds, v)
      BY <1>1, <1>2
    <2> QED
      BY <1>1, <1>2, <2>1, <2>2 DEF LastWord
  <1>3. ASSUME \A i \in DOMAIN p : ~Carries(p[i], cmds, v)
        PROVE  base \in X
    <2>1. \A i \in DOMAIN q : ~Carries(q[i], cmds, v)
      BY <1>1, <1>3
    <2> QED
      BY <2>1 DEF LastWord
  <1>4. LastWord(p, cmds, v, base, X)
    BY <1>2, <1>3 DEF LastWord
  <1> QED
    BY <1>4 DEF p

LEMMA AppendWord ==
  ASSUME NEW V, NEW q \in Seq(V), NEW x \in V, NEW cmds, NEW v, NEW base, NEW X,
         Carries(x, cmds, v), \A r \in x.records : r.var = v => r.value \in X
  PROVE  LastWord(Append(q, x), cmds, v, base, X)
  <1> DEFINE p == Append(q, x)
             n == Len(q)
  <1>1. /\ n \in Nat /\ DOMAIN p = 1 .. n + 1 /\ p[n + 1] = x
    BY AppendIndex
  <1> HIDE DEF p, n
  <1>2. ASSUME NEW i \in DOMAIN p, \A j \in DOMAIN p : j > i => ~Carries(p[j], cmds, v)
        PROVE  \A r \in p[i].records : r.var = v => r.value \in X
    <2>1. ~(n + 1 > i)
      BY <1>1, <1>2
    <2>2. i = n + 1
      BY <1>1, <2>1
    <2> QED
      BY <1>1, <2>2
  <1>3. LastWord(p, cmds, v, base, X)
    BY <1>1, <1>2 DEF LastWord
  <1> QED
    BY <1>3 DEF p

LEMMA TailQuiet ==
  ASSUME NEW V, NEW q \in Seq(V), q # <<>>, NEW cmds, NEW v, NEW base, NEW X,
         LastWord(q, cmds, v, base, X), ~Carries(Head(q), cmds, v)
  PROVE  LastWord(Tail(q), cmds, v, base, X)
  <1> DEFINE p == Tail(q)
             n == Len(q)
  <1>1. /\ n \in Nat /\ DOMAIN q = 1 .. n /\ DOMAIN p = 1 .. n - 1 /\ ~Carries(q[1], cmds, v)
        /\ \A i \in 1 .. n - 1 : p[i] = q[i + 1]
    BY TailIndex
  <1> HIDE DEF p, n
  <1>2. ASSUME NEW i \in DOMAIN p, Carries(p[i], cmds, v),
               \A j \in DOMAIN p : j > i => ~Carries(p[j], cmds, v)
        PROVE  \A r \in p[i].records : r.var = v => r.value \in X
    <2>1. i + 1 \in DOMAIN q /\ p[i] = q[i + 1]
      BY <1>1
    <2>2. ASSUME NEW j \in DOMAIN q, j > i + 1
          PROVE  ~Carries(q[j], cmds, v)
      <3>1. j - 1 \in DOMAIN p /\ j - 1 > i /\ p[j - 1] = q[j]
        BY <1>1, <2>2
      <3> QED
        BY <1>2, <3>1
    <2> QED
      BY <1>2, <2>1, <2>2 DEF LastWord
  <1>3. ASSUME \A i \in DOMAIN p : ~Carries(p[i], cmds, v)
        PROVE  base \in X
    <2>1. ASSUME NEW j \in DOMAIN q
          PROVE  ~Carries(q[j], cmds, v)
      <3>1. CASE j # 1
        <4>1. j - 1 \in DOMAIN p /\ p[j - 1] = q[j]
          BY <1>1, <3>1
        <4> QED
          BY <1>3, <4>1
      <3> QED
        BY <1>1, <3>1
    <2> QED
      BY <2>1 DEF LastWord
  <1>4. LastWord(p, cmds, v, base, X)
    BY <1>2, <1>3 DEF LastWord
  <1> QED
    BY <1>4 DEF p

\* The head is heard, and its value is the new base.
LEMMA TailWord ==
  ASSUME NEW V, NEW q \in Seq(V), q # <<>>, NEW cmds, NEW v, NEW base, NEW X, NEW new,
         LastWord(q, cmds, v, base, X), Carries(Head(q), cmds, v),
         \A r \in Head(q).records : r.var = v => r.value = new
  PROVE  LastWord(Tail(q), cmds, v, new, X)
  <1> DEFINE p == Tail(q)
             n == Len(q)
  <1>1. /\ n \in Nat /\ n >= 1 /\ DOMAIN q = 1 .. n /\ DOMAIN p = 1 .. n - 1
        /\ Carries(q[1], cmds, v) /\ \A r \in q[1].records : r.var = v => r.value = new
        /\ \A i \in 1 .. n - 1 : p[i] = q[i + 1]
    BY TailIndex
  <1> HIDE DEF p, n
  <1>2. ASSUME NEW i \in DOMAIN p, Carries(p[i], cmds, v),
               \A j \in DOMAIN p : j > i => ~Carries(p[j], cmds, v)
        PROVE  \A r \in p[i].records : r.var = v => r.value \in X
    <2>1. i + 1 \in DOMAIN q /\ p[i] = q[i + 1]
      BY <1>1
    <2>2. ASSUME NEW j \in DOMAIN q, j > i + 1
          PROVE  ~Carries(q[j], cmds, v)
      <3>1. j - 1 \in DOMAIN p /\ j - 1 > i /\ p[j - 1] = q[j]
        BY <1>1, <2>2
      <3> QED
        BY <1>2, <3>1
    <2> QED
      BY <1>2, <2>1, <2>2 DEF LastWord
  <1>3. ASSUME \A i \in DOMAIN p : ~Carries(p[i], cmds, v)
        PROVE  new \in X
    <2>1. ASSUME NEW j \in DOMAIN q, j > 1
          PROVE  ~Carries(q[j], cmds, v)
      <3>1. j - 1 \in DOMAIN p /\ p[j - 1] = q[j]
        BY <1>1, <2>1
      <3> QED
        BY <1>3, <3>1
    <2>2. 1 \in DOMAIN q
      BY <1>1
    <2>3. \A r \in q[1].records : r.var = v => r.value \in X
      BY <1>1, <2>1, <2>2 DEF LastWord
    <2>4. PICK r \in q[1].records : r.var = v
      BY <1>1 DEF Carries
    <2> QED
      BY <1>1, <2>3, <2>4
  <1>4. LastWord(p, cmds, v, new, X)
    BY <1>2, <1>3 DEF LastWord
  <1> QED
    BY <1>4 DEF p

-----------------------------------------------------------------------------
(* The table has room for what is registered.                              *)

Registrations(q) == {i \in DOMAIN q : q[i].cmd = "RegisterNames"}

\* Every start brings one list of names, that is on its way, lost or in the table.
Budget ==
  /\ Cardinality(Registrations(to_bridge)) <= starts
  /\ Len(bridge.table) <=
       (starts - Cardinality(Registrations(to_bridge))) * Cardinality(Variable)

\* The table is not filled up by starting again and again.
RoomForAll == MaxStarts * Cardinality(Variable) <= MaxDeltaVars

LEMMA RegistrationsFinite ==
  ASSUME NEW q \in Seq(Request)
  PROVE  IsFiniteSet(Registrations(q)) /\ Cardinality(Registrations(q)) \in Nat
  <1>1. Len(q) \in Nat /\ DOMAIN q = 1 .. Len(q)
    OBVIOUS
  <1>2. IsFiniteSet(1 .. Len(q))
    BY <1>1, FS_Interval
  <1>3. Registrations(q) \subseteq 1 .. Len(q)
    BY <1>1 DEF Registrations
  <1> QED
    BY <1>2, <1>3, FS_Subset, FS_CardinalityType

LEMMA RegistrationsAppend ==
  ASSUME NEW q \in Seq(Request), NEW x \in Request
  PROVE  Cardinality(Registrations(Append(q, x))) =
           Cardinality(Registrations(q)) + IF x.cmd = "RegisterNames" THEN 1 ELSE 0
  <1> DEFINE R == Registrations(q)
             n == Len(q) + 1
  <1>1. /\ n \in Nat /\ DOMAIN q = 1 .. n - 1 /\ DOMAIN Append(q, x) = 1 .. n
        /\ Append(q, x)[n] = x /\ \A i \in 1 .. n - 1 : Append(q, x)[i] = q[i]
    BY AppendIndex
  <1>2. IsFiniteSet(R) /\ Cardinality(R) \in Nat
    BY RegistrationsFinite
  <1>3. n \notin R
    BY <1>1 DEF Registrations
  <1>4. Registrations(Append(q, x)) = IF x.cmd = "RegisterNames" THEN R \cup {n} ELSE R
    <2> DEFINE p == Append(q, x)
    <2> HIDE DEF p, n
    <2>1. \A i : i \in 1 .. n <=> i \in 1 .. n - 1 \/ i = n
      BY <1>1
    <2> QED
      BY <1>1, <2>1 DEF Registrations, p
  <1>5. Cardinality(R \cup {n}) = Cardinality(R) + 1
    BY <1>2, <1>3, FS_AddElement
  <1> QED
    BY <1>2, <1>4, <1>5

LEMMA RegistrationsTail ==
  ASSUME NEW q \in Seq(Request), q # <<>>
  PROVE  Cardinality(Registrations(q)) =
           Cardinality(Registrations(Tail(q))) + IF Head(q).cmd = "RegisterNames" THEN 1 ELSE 0
  <1> DEFINE R == Registrations(Tail(q))
             S == Registrations(q) \ {1}
             n == Len(q)
             f == [i \in R |-> i + 1]
  <1>1. /\ n \in Nat /\ n >= 1 /\ DOMAIN q = 1 .. n /\ DOMAIN Tail(q) = 1 .. n - 1
        /\ Head(q) = q[1] /\ \A i \in 1 .. n - 1 : Tail(q)[i] = q[i + 1]
    BY TailIndex
  <1>2. IsFiniteSet(R) /\ Cardinality(R) \in Nat
    <2>1. Tail(q) \in Seq(Request)
      OBVIOUS
    <2> QED
      BY <2>1, RegistrationsFinite
  <1> DEFINE t == Tail(q)
  <1>3. \A i \in R : i \in 1 .. n - 1 /\ i + 1 \in S
    <2> HIDE DEF t, n
    <2> QED
      BY <1>1 DEF Registrations, t
  <1>4. \A j \in S : j - 1 \in R
    <2>1. ASSUME NEW j \in S
          PROVE  j - 1 \in 1 .. n - 1 /\ Tail(q)[j - 1] = q[j]
      <3>1. j \in 1 .. n /\ j # 1
        BY <1>1 DEF Registrations
      <3>2. j - 1 \in 1 .. n - 1 /\ (j - 1) + 1 = j
        BY <1>1, <3>1
      <3> QED
        BY <1>1, <3>2
    <2> QED
      BY <1>1, <2>1 DEF Registrations
  <1>5. \A j \in S : j \in Nat
    BY <1>1 DEF Registrations
  <1> HIDE DEF R, S
  <1>6. f \in Bijection(R, S)
    <2>1. f \in [R -> S] /\ \A i \in R : i \in Nat
      BY <1>1, <1>3
    <2>2. f \in Injection(R, S)
      BY <2>1 DEF Injection, IsInjective
    <2>3. \A j \in S : j - 1 \in R /\ f[j - 1] = j
      BY <1>4, <1>5
    <2>4. f \in Surjection(R, S)
      BY <2>1, <2>3 DEF Surjection
    <2> QED
      BY <2>2, <2>4 DEF Bijection
  <1>7. IsFiniteSet(S) /\ Cardinality(S) = Cardinality(R)
    BY <1>2, <1>6, FS_Bijection DEF ExistsBijection
  <1>8. CASE Head(q).cmd = "RegisterNames"
    <2>1. Registrations(q) = S \cup {1} /\ 1 \notin S
      BY <1>1, <1>8 DEF Registrations, S
    <2>2. Cardinality(S \cup {1}) = Cardinality(S) + 1
      BY <1>7, <2>1, FS_AddElement
    <2> QED
      BY <1>7, <1>8, <2>1, <2>2 DEF R
  <1>9. CASE Head(q).cmd # "RegisterNames"
    <2>1. Registrations(q) = S
      BY <1>1, <1>9 DEF Registrations, S
    <2> QED
      BY <1>2, <1>7, <1>9, <2>1 DEF R
  <1> QED
    BY <1>8, <1>9

\* Where the bridge handles a registration there is room for it.
LEMMA RegistrationFits ==
  ASSUME Types, Budget, RoomForAll, HandleRegister
  PROVE  Len(bridge.table) + Len(Head(to_bridge).names) <= MaxDeltaVars
  <1> DEFINE V == Cardinality(Variable)
             k == Cardinality(Registrations(to_bridge))
             b == Len(bridge.table)
             n == Len(Head(to_bridge).names)
  <1>1. V \in Nat /\ MaxStarts \in Nat /\ MaxDeltaVars \in Nat
    BY SimConnectLinkAssumption, FS_CardinalityType
  <1>2. to_bridge # <<>> /\ Head(to_bridge).cmd = "RegisterNames"
    BY DEF HandleRegister
  <1>3. n \in Nat /\ n <= V /\ b \in Nat
    <2>1. Head(to_bridge).names \in Names
      BY <1>2, QueueFacts, PacketFacts DEF Types
    <2> QED
      BY <2>1 DEF Names, Types
  <1>4. k \in Nat /\ k >= 1
    <2>1. Tail(to_bridge) \in Seq(Request)
      BY <1>2, QueueFacts DEF Types
    <2>2. Cardinality(Registrations(Tail(to_bridge))) \in Nat
      BY <2>1, RegistrationsFinite
    <2>3. k = Cardinality(Registrations(Tail(to_bridge))) + 1
      BY <1>2, RegistrationsTail DEF Types
    <2> QED
      BY <2>2, <2>3
  <1>5. starts \in Nat /\ starts <= MaxStarts /\ k <= starts /\ b <= (starts - k) * V
        /\ MaxStarts * V <= MaxDeltaVars
    BY <1>1 DEF Types, Budget, RoomForAll
  <1> HIDE DEF V, k, b, n
  <1>6. (starts - k) * V + V = (starts - k + 1) * V
    BY <1>1, <1>4, <1>5
  <1>7. (starts - k + 1) * V <= MaxStarts * V
    <2> DEFINE d == MaxStarts - (starts - k + 1)
    <2>1. d \in Nat /\ starts - k + 1 \in Nat
      BY <1>1, <1>4, <1>5
    <2>2. d * V \in Nat
      BY <1>1, <2>1
    <2>3. MaxStarts * V = (starts - k + 1) * V + d * V
      BY <1>1, <1>4, <1>5, <2>1
    <2>4. (starts - k + 1) * V \in Nat
      BY <1>1, <2>1
    <2> HIDE DEF d
    <2> QED
      BY <2>2, <2>3, <2>4
  <1>8. (starts - k) * V \in Nat /\ (starts - k + 1) * V \in Nat /\ MaxStarts * V \in Nat
    BY <1>1, <1>4, <1>5
  <1>9. b + n <= MaxDeltaVars
    BY <1>1, <1>3, <1>5, <1>6, <1>7, <1>8
  <1> QED
    BY <1>9 DEF b, n

LEMMA BudgetInit == Init => Budget
  <1> SUFFICES ASSUME Init PROVE Budget
    OBVIOUS
  <1>1. Registrations(to_bridge) = {}
    BY DEF Init, Registrations
  <1>2. Cardinality({}) = 0 /\ Cardinality(Variable) \in Nat
    BY SimConnectLinkAssumption, FS_EmptySet, FS_CardinalityType
  <1>3. (0 - 0) * Cardinality(Variable) = 0
    BY <1>2
  <1>4. starts = 0 /\ Len(bridge.table) = 0
    BY DEF Init
  <1> QED
    BY <1>1, <1>2, <1>3, <1>4 DEF Budget

\* With n names on their way, k lists that wait and s starts.
LEMMA BudgetFacts ==
  ASSUME Types, Budget
  PROVE  LET k == Cardinality(Registrations(to_bridge))
             V == Cardinality(Variable)
         IN  /\ k \in Nat /\ V \in Nat /\ starts \in Nat /\ k <= starts
             /\ Len(bridge.table) \in Nat /\ Len(bridge.table) <= (starts - k) * V
             /\ (starts - k) * V \in Nat
             /\ (starts - (k - 1)) * V = (starts - k) * V + V
             /\ (starts + 1) - (k + 1) = starts - k
  <1> DEFINE k == Cardinality(Registrations(to_bridge))
             V == Cardinality(Variable)
  <1>1. k \in Nat /\ V \in Nat
    BY SimConnectLinkAssumption, FS_CardinalityType, RegistrationsFinite DEF Types
  <1>2. starts \in Nat /\ Len(bridge.table) \in Nat
    BY DEF Types
  <1>3. k <= starts /\ Len(bridge.table) <= (starts - k) * V
    BY DEF Budget
  <1> HIDE DEF k, V
  <1>4. starts - k \in Nat /\ starts - (k - 1) = (starts - k) + 1
    BY <1>1, <1>2, <1>3
  <1>5. \A a \in Nat : a * V \in Nat /\ (a + 1) * V = a * V + V
    BY <1>1
  <1>6. (starts + 1) - (k + 1) = starts - k
    BY <1>1, <1>2
  <1> QED
    BY <1>1, <1>2, <1>3, <1>4, <1>5, <1>6 DEF k, V

\* Packets that are no registrations, before and after.
LEMMA BudgetStep ==
  ASSUME Types, Budget, [Next]_vars
  PROVE  Budget'
  <1> DEFINE k == Cardinality(Registrations(to_bridge))
             V == Cardinality(Variable)
             b == Len(bridge.table)
  <1>1. /\ k \in Nat /\ V \in Nat /\ starts \in Nat /\ k <= starts /\ b \in Nat
        /\ b <= (starts - k) * V /\ (starts - k) * V \in Nat
        /\ (starts - (k - 1)) * V = (starts - k) * V + V
        /\ (starts + 1) - (k + 1) = starts - k
    BY BudgetFacts
  <1>2. ASSUME k' = k, starts' = starts, b' = b
        PROVE  Budget'
    BY <1>1, <1>2 DEF Budget
  <1>3. ASSUME to_bridge # <<>>, to_bridge' = Tail(to_bridge), starts' = starts,
               b' = b \/ (Head(to_bridge).cmd = "RegisterNames" /\ b' \in Nat /\ b' <= b + V)
        PROVE  Budget'
    <2>1. k = k' + IF Head(to_bridge).cmd = "RegisterNames" THEN 1 ELSE 0
      BY <1>3, RegistrationsTail DEF Types
    <2>2. Tail(to_bridge) \in Seq(Request)
      BY <1>3, QueueFacts DEF Types
    <2>3. k' \in Nat
      BY <1>3, <2>2, RegistrationsFinite
    <2>4. CASE Head(to_bridge).cmd = "RegisterNames"
      <3>1. k' = k - 1
        BY <1>1, <2>1, <2>3, <2>4
      <3>2. b' <= b + V
        BY <1>1, <1>3
      <3>3. b' \in Nat
        BY <1>1, <1>3
      <3>4. k' <= starts /\ b' <= (starts - k') * V
        <4> HIDE DEF k, V, b
        <4> QED
          BY <1>1, <2>3, <3>1, <3>2, <3>3
      <3> QED
        BY <1>3, <3>4 DEF Budget
    <2>5. CASE Head(to_bridge).cmd # "RegisterNames"
      <3>1. k' = k /\ b' = b
        BY <1>3, <2>1, <2>3, <2>5
      <3> QED
        BY <1>2, <1>3, <3>1
    <2> QED
      BY <2>4, <2>5
  <1>4. CASE UNCHANGED vars
    BY <1>2, <1>4 DEF vars
  <1>5. ASSUME NEW p \in Provider, Start(p) PROVE Budget'
    <2> DEFINE r == [cmd |-> "RegisterNames", names |-> RegisteredNames(providers')]
    <2>1. r \in Request
      BY <1>5, OthersFacts, NamesFacts DEF Start, Request
    <2>2. to_bridge' = Append(to_bridge, r) /\ starts' = starts + 1 /\ bridge' = bridge
      BY <1>5 DEF Start
    <2>3. k' = k + 1
      BY <2>1, <2>2, RegistrationsAppend DEF Types
    <2>4. b' = b
      BY <2>2
    <2>5. k' <= starts' /\ b' <= (starts' - k') * V
      <3> HIDE DEF k, V, b
      <3> QED
        BY <1>1, <2>2, <2>3, <2>4
    <2> QED
      BY <2>5 DEF Budget
  <1>6. ASSUME NEW p \in Provider, Stop(p) \/ OutputVaries(p) PROVE Budget'
    BY <1>2, <1>6 DEF Stop, OutputVaries
  <1>7. ASSUME NEW p \in Provider, Frame(p) PROVE Budget'
    <2> DEFINE r == ReadPacket(p)
               w == WritePacket(p)
               read == IF Inputs(p) = {} THEN to_bridge ELSE Append(to_bridge, r)
    <2>1. to_bridge \in Seq(Request)
      BY DEF Types
    <2>2. /\ read \in Seq(Request)
          /\ to_bridge' = IF Moved(p) = {} THEN read ELSE Append(read, w)
      BY <1>7, <2>1, FrameBus DEF Frame
    <2>3. r \in Request /\ w \in Request
      BY ReadRequestTyped, WriteRequestTyped
    <2>4. r.cmd # "RegisterNames" /\ w.cmd # "RegisterNames"
      BY FramePackets
    <2> HIDE DEF r, w
    <2>5. Cardinality(Registrations(read)) = k
      BY <1>1, <2>1, <2>3, <2>4, RegistrationsAppend
    <2> HIDE DEF read
    <2>6. Cardinality(Registrations(Append(read, w))) = k
      BY <1>1, <2>2, <2>3, <2>4, <2>5, RegistrationsAppend
    <2>7. k' = k
      BY <2>2, <2>5, <2>6
    <2> QED
      BY <1>2, <1>7, <2>7 DEF Frame
  <1>8. CASE Receive
    BY <1>2, <1>8 DEF Receive
  <1>9. CASE HandleRegister
    <2>1. Head(to_bridge).names \in Names
      BY <1>9, QueueFacts, PacketFacts DEF HandleRegister, Types
    <2>2. bridge'.table = Added(bridge.table, Head(to_bridge).names)
      BY <1>9 DEF HandleRegister, Types
    <2>3. bridge'.table \in Seq(TableEntry) /\ b' <= b + Len(Head(to_bridge).names)
      BY <2>1, <2>2, AddedFacts DEF Types
    <2>4. Len(Head(to_bridge).names) \in Nat /\ Len(Head(to_bridge).names) <= V
      BY <2>1 DEF Names
    <2>5. b' \in Nat /\ b' <= b + V
      <3> DEFINE n == Len(Head(to_bridge).names)
                 c == Len(bridge'.table)
      <3>0. c \in Nat
        BY <2>3
      <3>1. c <= b + n /\ n \in Nat /\ n <= V
        BY <2>3, <2>4
      <3> HIDE DEF n, b, V, c
      <3>2. c <= b + V
        BY <1>1, <3>0, <3>1
      <3> QED
        BY <3>0, <3>2 DEF b, c
    <2> QED
      BY <1>3, <1>9, <2>5 DEF HandleRegister
  <1>10. CASE HandleRead
    <2> DEFINE packet == Head(to_bridge)
    <2>1. /\ to_bridge # <<>> /\ to_bridge' = Tail(to_bridge) /\ packet.seq \in Epoch
          /\ bridge'.table = (IF MustSync(bridge, packet.seq) THEN FullSync(bridge, packet.seq)
                              ELSE DeltaUpdate(bridge, packet.tiers, packet.seq)).table
      BY <1>10, HandleReadFacts
    <2> HIDE DEF packet
    <2>2. /\ Len(FullSync(bridge, packet.seq).table) = b
          /\ Len(DeltaUpdate(bridge, packet.tiers, packet.seq).table) = b
      BY <2>1, AnswerFacts
    <2>3. b' = b
      BY <2>1, <2>2
    <2> QED
      BY <1>3, <1>10, <2>1, <2>3 DEF HandleRead
  <1>11. CASE HandleWrite
    BY <1>3, <1>11 DEF HandleWrite
  <1>12. CASE SimVaries
    BY <1>2, <1>12 DEF SimVaries
  <1>13. CASE Lose
    <2>1. CASE to_bridge # <<>> /\ to_bridge' = Tail(to_bridge)
      BY <1>3, <1>13, <2>1 DEF Lose
    <2>2. CASE to_bridge' = to_bridge
      BY <1>2, <1>13, <2>2 DEF Lose
    <2> QED
      BY <1>13, <2>1, <2>2 DEF Lose
  <1>14. CASE BridgeRestarts
    <2>1. k' = k /\ starts' = starts /\ b' = 0
      BY <1>14 DEF BridgeRestarts
    <2>2. k' <= starts' /\ b' <= (starts' - k') * V
      <3> HIDE DEF k, V, b
      <3> QED
        BY <1>1, <2>1
    <2> QED
      BY <2>2 DEF Budget
  <1> QED
    BY <1>4, <1>5, <1>6, <1>7, <1>8, <1>9, <1>10, <1>11, <1>12, <1>13, <1>14
       DEF Next, HandleRequest

-----------------------------------------------------------------------------
(* What the bridge can know of a variable.                                 *)

InTable(table, v) == \E i \in DOMAIN table : table[i].var = v

\* v is in the table, or a registration before the n-th request will put it there.
Known(table, q, v, n) ==
  \/ InTable(table, v)
  \/ \E j \in DOMAIN q : j < n /\ q[j].cmd = "RegisterNames" /\ v \in ToSet(q[j].names)

LEMMA KnownAppend ==
  ASSUME NEW table, NEW q \in Seq(Request), NEW x \in Request, NEW v, NEW n
  PROVE  /\ Known(table, q, v, n) => Known(table, Append(q, x), v, n)
         /\ x.cmd = "RegisterNames" /\ v \in ToSet(x.names) =>
              Known(table, Append(q, x), v, Len(q) + 2)
  <1> DEFINE p == Append(q, x)
  <1>1. /\ Len(q) \in Nat /\ DOMAIN q = 1 .. Len(q) /\ DOMAIN p = 1 .. Len(q) + 1
        /\ p[Len(q) + 1] = x /\ \A i \in 1 .. Len(q) : p[i] = q[i]
    BY AppendIndex
  <1> HIDE DEF p
  <1>2. \A j \in DOMAIN q : j \in DOMAIN p /\ p[j] = q[j]
    BY <1>1
  <1>3. Len(q) + 1 \in DOMAIN p /\ Len(q) + 1 < Len(q) + 2
    BY <1>1
  <1>4. Known(table, q, v, n) => Known(table, p, v, n)
    BY <1>2 DEF Known
  <1>5. x.cmd = "RegisterNames" /\ v \in ToSet(x.names) => Known(table, p, v, Len(q) + 2)
    BY <1>1, <1>3 DEF Known
  <1> QED
    BY <1>4, <1>5 DEF p

\* new is the table after the oldest request.
LEMMA KnownTail ==
  ASSUME NEW table, NEW new, NEW q \in Seq(Request), q # <<>>, NEW v, NEW n \in Nat,
         \A u : InTable(table, u) => InTable(new, u),
         Head(q).cmd = "RegisterNames" => \A u \in ToSet(Head(q).names) : InTable(new, u),
         Known(table, q, v, n)
  PROVE  Known(new, Tail(q), v, n - 1)
  <1> DEFINE p == Tail(q)
  <1>1. /\ Len(q) \in Nat /\ Len(q) >= 1 /\ DOMAIN q = 1 .. Len(q) /\ DOMAIN p = 1 .. Len(q) - 1
        /\ Head(q) = q[1] /\ \A i \in 1 .. Len(q) - 1 : p[i] = q[i + 1]
    BY TailIndex
  <1> HIDE DEF p
  <1>2. CASE InTable(table, v)
    BY <1>2 DEF Known
  <1>3. ASSUME NEW j \in DOMAIN q, j < n, q[j].cmd = "RegisterNames", v \in ToSet(q[j].names)
        PROVE  Known(new, p, v, n - 1)
    <2>1. CASE j = 1
      BY <1>1, <1>3, <2>1 DEF Known
    <2>2. CASE j # 1
      <3>1. j - 1 \in DOMAIN p /\ j - 1 < n - 1 /\ p[j - 1] = q[j]
        BY <1>1, <1>3, <2>2
      <3> QED
        BY <1>3, <3>1 DEF Known
    <2> QED
      BY <2>1, <2>2
  <1> QED
    BY <1>2, <1>3 DEF Known, p

LEMMA KnownLater ==
  ASSUME NEW table, NEW q \in Seq(Request), NEW v, NEW n \in Nat, NEW k \in Nat, n <= k,
         Known(table, q, v, n)
  PROVE  Known(table, q, v, k)
  <1>1. \A j \in DOMAIN q : j < n => j < k
    OBVIOUS
  <1> QED
    BY <1>1 DEF Known

\* What a step of the bridge or a loss takes from the requests: never a name.
LEMMA Served ==
  ASSUME Types, Budget, RoomForAll, "RegisterNames" \notin Lossy, HandleRequest \/ Lose
  PROVE  /\ \A u : InTable(bridge.table, u) => InTable(bridge'.table, u)
         /\ providers' = providers
         /\ \/ to_bridge' = to_bridge
            \/ /\ to_bridge # <<>> /\ to_bridge' = Tail(to_bridge)
               /\ Head(to_bridge).cmd = "RegisterNames" =>
                    \A u \in ToSet(Head(to_bridge).names) : InTable(bridge'.table, u)
  <1>1. CASE HandleRegister
    <2> DEFINE names == Head(to_bridge).names
               new == Added(bridge.table, names)
    <2>1. names \in Names
      BY <1>1, QueueFacts, PacketFacts DEF HandleRegister, Types
    <2>2. bridge'.table = new /\ to_bridge # <<>> /\ to_bridge' = Tail(to_bridge)
          /\ providers' = providers
      BY <1>1 DEF HandleRegister, Types
    <2>3. Len(bridge.table) + Len(names) <= MaxDeltaVars
      BY <1>1, RegistrationFits
    <2> HIDE DEF names, new
    <2>4. /\ \A i \in DOMAIN bridge.table : i \in DOMAIN new /\ new[i] = bridge.table[i]
          /\ \A u \in ToSet(names) : \E i \in DOMAIN new : new[i].var = u
      BY <2>1, <2>3, AddedFacts DEF Types, new
    <2> QED
      BY <2>2, <2>4 DEF InTable, names
  <1>2. CASE HandleRead
    <2> DEFINE packet == Head(to_bridge)
               full == FullSync(bridge, packet.seq)
               update == DeltaUpdate(bridge, packet.tiers, packet.seq)
    <2>1. /\ to_bridge # <<>> /\ packet.cmd = "DeltaRead" /\ packet.seq \in Epoch
          /\ to_bridge' = Tail(to_bridge)
          /\ bridge'.table = full.table \/ bridge'.table = update.table
      BY <1>2, HandleReadFacts
    <2>2. providers' = providers
      BY <1>2 DEF HandleRead
    <2> HIDE DEF packet
    <2>3. /\ full.table = [i \in DOMAIN bridge.table |-> Sent(bridge.table[i])]
          /\ update.table = [i \in DOMAIN bridge.table |->
                               IF Due(bridge.table[i], packet.tiers) THEN Sent(bridge.table[i])
                                                                     ELSE bridge.table[i]]
      BY <2>1, AnswerFacts
    <2> HIDE DEF full, update
    <2>4. \A i \in DOMAIN bridge.table : Sent(bridge.table[i]).var = bridge.table[i].var
      <3>1. \A i \in DOMAIN bridge.table : bridge.table[i] \in TableEntry
        BY DEF Types
      <3> QED
        BY <3>1, SentFacts
    <2>5. \A i \in DOMAIN bridge.table :
            i \in DOMAIN bridge'.table /\ bridge'.table[i].var = bridge.table[i].var
      BY <2>1, <2>3, <2>4
    <2> QED
      BY <2>1, <2>2, <2>5 DEF InTable, packet
  <1>3. CASE HandleWrite
    BY <1>3 DEF HandleWrite
  <1>4. CASE Lose
    BY <1>4 DEF Lose
  <1> QED
    BY <1>1, <1>2, <1>3, <1>4 DEF HandleRequest

-----------------------------------------------------------------------------
(* Outputs.                                                                *)

\* No two outputs share a variable.  They may share a signal.
OutputsApart ==
  \A p, q \in Provider : \A m \in Outputs(p), n \in Outputs(q) :
    m.var = n.var => p = q /\ m = n

\* The registration files outputs under the category the records name.
OutputsWritable ==
  \A p \in Provider : \A m \in Outputs(p) : ~m.event /\ ParsedCategory(m.var) = Category[m.var]

\* What is registered and what is written arrives.
RequestsArrive == "RegisterNames" \notin Lossy /\ "DeltaWrite" \notin Lossy

\* The bridge knows the variables of the providers, or will once it has read
\* what is on its way.
Registered ==
  \A p \in ToSet(providers) : \A m \in MappingsOf(p) :
    Known(bridge.table, to_bridge, m.var, Len(to_bridge) + 1)

\* It knows those of a write before it reads it.
AnnouncedIn(table, q) ==
  \A i \in DOMAIN q : q[i].cmd = "DeltaWrite" =>
    \A r \in q[i].records : Known(table, q, r.var, i)

Announced == AnnouncedIn(bridge.table, to_bridge)

\* A write names each variable once, and by the category it is filed under.
Plain(packet) ==
  packet.cmd = "DeltaWrite" =>
    \A r \in packet.records : /\ r.category = ParsedCategory(r.var)
                              /\ \A s \in packet.records : s.var = r.var => s = r

AllPlain == \A i \in DOMAIN to_bridge : Plain(to_bridge[i])

\* The variable of m has the value x, or will have it once the writes on their
\* way have arrived.
Latest(m, x) == LastWord(to_bridge, {"DeltaWrite"}, m.var, sim[m.var], {x})

\* That is so of the shadow of a signal and of one of the outputs at the signal.
OutputsLatest ==
  \A p \in Provider : \A s \in SignalsOf(Outputs(p)) :
    LET shadow == host[p].output_shadow[s].value
    IN  shadow # 0 => \E m \in Outputs(p) : m.signal = s /\ Latest(m, shadow)

OutputsInv == Types /\ Budget /\ Registered /\ Announced /\ AllPlain /\ OutputsLatest

LEMMA RegisteredStep ==
  ASSUME Types, Budget, RoomForAll, "RegisterNames" \notin Lossy, Registered, [Next]_vars
  PROVE  Registered'
  <1> DEFINE T == bridge.table
             q == to_bridge
  <1>0. q \in Seq(Request) /\ Len(q) \in Nat
    BY DEF Types
  <1>1. ASSUME providers' = providers \/ \E p \in Provider : providers' = Others(p),
               bridge' = bridge, to_bridge' = to_bridge
        PROVE  Registered'
    <2>1. ToSet(providers') \subseteq ToSet(providers)
      BY <1>1, OthersFacts
    <2> QED
      BY <1>1, <2>1 DEF Registered
  <1>2. ASSUME NEW p \in Provider, Start(p) PROVE Registered'
    <2> DEFINE r == [cmd |-> "RegisterNames", names |-> RegisteredNames(providers')]
               new == Append(q, r)
    <2>1. /\ providers' = Append(Others(p), p) /\ to_bridge' = new /\ bridge' = bridge
      BY <1>2 DEF Start
    <2>2. providers' \in Seq(Provider)
      BY <2>1, OthersFacts
    <2>3. r.names \in Names
          /\ ToSet(r.names) = {m.var : m \in UNION {MappingsOf(o) : o \in ToSet(providers')}}
      BY <2>2, NamesFacts
    <2>4. r \in Request /\ r.cmd = "RegisterNames"
      BY <2>3 DEF Request
    <2>5. ASSUME NEW o \in ToSet(providers'), NEW m \in MappingsOf(o)
          PROVE  m.var \in ToSet(r.names)
      BY <2>3, <2>5
    <2> HIDE DEF r
    <2>6. Len(new) = Len(q) + 1
      BY <1>0, <2>4
    <2>7. ASSUME NEW o \in ToSet(providers'), NEW m \in MappingsOf(o)
          PROVE  Known(T, new, m.var, Len(q) + 2)
      BY <1>0, <2>4, <2>5, <2>7, KnownAppend
    <2>8. (Len(q) + 1) + 1 = Len(q) + 2
      BY <1>0
    <2> HIDE DEF new
    <2> QED
      BY <2>1, <2>6, <2>7, <2>8 DEF Registered
  <1>3. ASSUME NEW p \in Provider, Frame(p) PROVE Registered'
    <2> DEFINE r == ReadPacket(p)
               w == WritePacket(p)
               read == IF Inputs(p) = {} THEN q ELSE Append(q, r)
    <2>1. /\ read \in Seq(Request)
          /\ to_bridge' = IF Moved(p) = {} THEN read ELSE Append(read, w)
      BY <1>0, <1>3, FrameBus DEF Frame
    <2>2. r \in Request /\ w \in Request
      BY ReadRequestTyped, WriteRequestTyped
    <2> HIDE DEF r, w
    <2>3. providers' = providers /\ bridge' = bridge
      BY <1>3 DEF Frame
    <2>4. ASSUME NEW v, Known(T, q, v, Len(q) + 1)
          PROVE  Known(T, to_bridge', v, Len(to_bridge') + 1)
      <3>1. Known(T, read, v, Len(q) + 1) /\ Len(read) \in Nat /\ Len(read) >= Len(q)
        BY <1>0, <2>2, <2>4, KnownAppend
      <3> HIDE DEF read
      <3>2. Known(T, to_bridge', v, Len(q) + 1)
        BY <2>1, <2>2, <3>1, KnownAppend
      <3>3. to_bridge' \in Seq(Request) /\ Len(to_bridge') \in Nat /\ Len(to_bridge') >= Len(q)
        BY <1>0, <2>1, <2>2, <3>1
      <3>4. Len(q) + 1 \in Nat /\ Len(to_bridge') + 1 \in Nat /\ Len(q) + 1 <= Len(to_bridge') + 1
        BY <1>0, <3>3
      <3> QED
        BY <3>2, <3>3, <3>4, KnownLater
    <2> QED
      BY <2>3, <2>4 DEF Registered
  <1>4. ASSUME HandleRequest \/ Lose PROVE Registered'
    <2>1. /\ \A u : InTable(T, u) => InTable(bridge'.table, u)
          /\ providers' = providers
          /\ \/ to_bridge' = q
             \/ /\ q # <<>> /\ to_bridge' = Tail(q)
                /\ Head(q).cmd = "RegisterNames" =>
                     \A u \in ToSet(Head(q).names) : InTable(bridge'.table, u)
      BY <1>4, Served
    <2>2. CASE to_bridge' = q
      BY <2>1, <2>2 DEF Registered, Known
    <2>3. CASE q # <<>> /\ to_bridge' = Tail(q)
               /\ (Head(q).cmd = "RegisterNames" =>
                     \A u \in ToSet(Head(q).names) : InTable(bridge'.table, u))
      <3>1. Len(Tail(q)) + 1 = (Len(q) + 1) - 1 /\ Len(q) + 1 \in Nat
        BY <1>0, <2>3
      <3>2. ASSUME NEW v, Known(T, q, v, Len(q) + 1)
            PROVE  Known(bridge'.table, to_bridge', v, Len(to_bridge') + 1)
        <4> DEFINE U == bridge'.table
        <4>1. /\ \A u : InTable(T, u) => InTable(U, u)
              /\ Head(q).cmd = "RegisterNames" => \A u \in ToSet(Head(q).names) : InTable(U, u)
          BY <2>1, <2>3
        <4> HIDE DEF T, U
        <4>2. Known(U, Tail(q), v, (Len(q) + 1) - 1)
          BY <1>0, <2>3, <3>1, <3>2, <4>1, KnownTail
        <4> QED
          BY <2>3, <3>1, <4>2 DEF U
      <3> QED
        BY <2>1, <3>2 DEF Registered
    <2> QED
      BY <2>1, <2>2, <2>3
  <1>5. ~BridgeRestarts
    BY DEF BridgeRestarts
  <1>6. CASE UNCHANGED vars
    BY <1>1, <1>6 DEF vars
  <1>7. ASSUME NEW p \in Provider, Stop(p) \/ OutputVaries(p) PROVE Registered'
    BY <1>1, <1>7 DEF Stop, OutputVaries
  <1>8. CASE Receive \/ SimVaries
    BY <1>1, <1>8 DEF Receive, SimVaries
  <1> QED
    BY <1>2, <1>3, <1>4, <1>5, <1>6, <1>7, <1>8 DEF Next

LEMMA AnnouncedAppend ==
  ASSUME NEW table, NEW q \in Seq(Request), NEW x \in Request, AnnouncedIn(table, q),
         x.cmd = "DeltaWrite" => \A r \in x.records : Known(table, q, r.var, Len(q) + 1)
  PROVE  AnnouncedIn(table, Append(q, x))
  <1> DEFINE p == Append(q, x)
  <1>1. /\ Len(q) \in Nat /\ DOMAIN q = 1 .. Len(q) /\ DOMAIN p = 1 .. Len(q) + 1
        /\ p[Len(q) + 1] = x /\ \A i \in 1 .. Len(q) : p[i] = q[i]
    BY AppendIndex
  <1>2. \A v, n : Known(table, q, v, n) => Known(table, p, v, n)
    BY KnownAppend
  <1> HIDE DEF p
  <1>3. ASSUME NEW i \in DOMAIN p, p[i].cmd = "DeltaWrite", NEW r \in p[i].records
        PROVE  Known(table, p, r.var, i)
    <2>1. CASE i \in 1 .. Len(q)
      BY <1>1, <1>2, <1>3, <2>1 DEF AnnouncedIn
    <2>2. CASE i = Len(q) + 1
      BY <1>1, <1>2, <1>3, <2>2
    <2> QED
      BY <1>1, <2>1, <2>2
  <1>4. AnnouncedIn(table, p)
    BY <1>3 DEF AnnouncedIn
  <1> QED
    BY <1>4 DEF p

LEMMA AnnouncedTail ==
  ASSUME NEW table, NEW new, NEW q \in Seq(Request), q # <<>>, AnnouncedIn(table, q),
         \A u : InTable(table, u) => InTable(new, u),
         Head(q).cmd = "RegisterNames" => \A u \in ToSet(Head(q).names) : InTable(new, u)
  PROVE  AnnouncedIn(new, Tail(q))
  <1> DEFINE p == Tail(q)
  <1>1. /\ Len(q) \in Nat /\ Len(q) >= 1 /\ DOMAIN q = 1 .. Len(q) /\ DOMAIN p = 1 .. Len(q) - 1
        /\ \A i \in 1 .. Len(q) - 1 : p[i] = q[i + 1]
    BY TailIndex
  <1>2. \A v, n : n \in Nat /\ Known(table, q, v, n) => Known(new, p, v, n - 1)
    BY KnownTail
  <1> HIDE DEF p
  <1>3. ASSUME NEW i \in DOMAIN p, p[i].cmd = "DeltaWrite", NEW r \in p[i].records
        PROVE  Known(new, p, r.var, i)
    <2>1. i + 1 \in DOMAIN q /\ p[i] = q[i + 1] /\ i + 1 \in Nat /\ (i + 1) - 1 = i
      BY <1>1
    <2>2. Known(table, q, r.var, i + 1)
      BY <1>3, <2>1 DEF AnnouncedIn
    <2> QED
      BY <1>2, <2>1, <2>2
  <1>4. AnnouncedIn(new, p)
    BY <1>3 DEF AnnouncedIn
  <1> QED
    BY <1>4 DEF p

\* A frame of p names only variables of p.
LEMMA AnnouncedStep ==
  ASSUME Types, Budget, RoomForAll, "RegisterNames" \notin Lossy, Registered, Announced,
         [Next]_vars
  PROVE  Announced'
  <1> DEFINE T == bridge.table
             q == to_bridge
  <1>0. q \in Seq(Request) /\ Len(q) \in Nat
    BY DEF Types
  <1>1. ASSUME bridge' = bridge, to_bridge' = to_bridge
        PROVE  Announced'
    BY <1>1 DEF Announced
  <1>2. ASSUME NEW p \in Provider, Start(p) PROVE Announced'
    <2> DEFINE r == [cmd |-> "RegisterNames", names |-> RegisteredNames(providers')]
    <2>1. /\ providers' = Append(Others(p), p) /\ to_bridge' = Append(q, r) /\ bridge' = bridge
      BY <1>2 DEF Start
    <2>2. r \in Request /\ r.cmd = "RegisterNames"
      BY <2>1, OthersFacts, NamesFacts DEF Request
    <2> HIDE DEF r
    <2>3. AnnouncedIn(T, Append(q, r))
      BY <1>0, <2>2, AnnouncedAppend DEF Announced
    <2> QED
      BY <2>1, <2>3 DEF Announced
  <1>3. ASSUME NEW p \in Provider, Frame(p) PROVE Announced'
    <2> DEFINE r == ReadPacket(p)
               w == WritePacket(p)
               read == IF Inputs(p) = {} THEN q ELSE Append(q, r)
    <2>1. /\ read \in Seq(Request)
          /\ to_bridge' = IF Moved(p) = {} THEN read ELSE Append(read, w)
      BY <1>0, <1>3, FrameBus DEF Frame
    <2>2. r \in Request /\ r.cmd = "DeltaRead" /\ w \in Request
      BY ReadRequestTyped, WriteRequestTyped, FramePackets
    <2>3. \A x \in w.records : \E m \in Moved(p) : x.var = m.var
      BY FramePackets
    <2> HIDE DEF r, w
    <2>4. bridge' = bridge
      BY <1>3 DEF Frame
    <2>5. AnnouncedIn(T, read) /\ Len(read) \in Nat /\ Len(read) >= Len(q)
      BY <1>0, <2>2, AnnouncedAppend DEF Announced
    <2>6. \A v, n : Known(T, q, v, n) => Known(T, read, v, n)
      BY <1>0, <2>2, KnownAppend
    <2> HIDE DEF read
    <2>7. ASSUME NEW x \in w.records
          PROVE  Known(T, read, x.var, Len(read) + 1)
      <3>1. PICK m \in Moved(p) : x.var = m.var
        BY <2>3
      <3>2. p \in ToSet(providers) /\ m \in MappingsOf(p)
        BY <1>3, MovedTyped, MappingFacts DEF Frame, Contains, ToSet
      <3>3. Known(T, q, x.var, Len(q) + 1)
        BY <3>1, <3>2 DEF Registered
      <3>4. Known(T, read, x.var, Len(q) + 1)
        BY <2>6, <3>3
      <3>5. Len(q) + 1 \in Nat /\ Len(read) + 1 \in Nat /\ Len(q) + 1 <= Len(read) + 1
        BY <1>0, <2>5
      <3> HIDE DEF q
      <3> QED
        BY <2>1, <3>4, <3>5, KnownLater
    <2>8. AnnouncedIn(T, Append(read, w))
      BY <2>1, <2>2, <2>5, <2>7, AnnouncedAppend
    <2> QED
      BY <2>1, <2>4, <2>5, <2>8 DEF Announced
  <1>4. ASSUME HandleRequest \/ Lose PROVE Announced'
    <2> DEFINE U == bridge'.table
    <2>1. /\ \A u : InTable(T, u) => InTable(U, u)
          /\ \/ to_bridge' = q
             \/ /\ q # <<>> /\ to_bridge' = Tail(q)
                /\ Head(q).cmd = "RegisterNames" =>
                     \A u \in ToSet(Head(q).names) : InTable(U, u)
      BY <1>4, Served
    <2>2. CASE to_bridge' = q
      <3>1. \A v, n : Known(T, q, v, n) => Known(U, q, v, n)
        BY <2>1 DEF Known
      <3> QED
        BY <2>2, <3>1 DEF Announced, AnnouncedIn
    <2>3. CASE to_bridge' # q
      <3>1. /\ q # <<>> /\ to_bridge' = Tail(q)
            /\ Head(q).cmd = "RegisterNames" => \A u \in ToSet(Head(q).names) : InTable(U, u)
        BY <2>1, <2>3
      <3>2. AnnouncedIn(T, q)
        BY DEF Announced
      <3> HIDE DEF T, U
      <3>3. AnnouncedIn(U, Tail(q))
        BY <1>0, <2>1, <3>1, <3>2, AnnouncedTail
      <3> QED
        BY <3>1, <3>3 DEF Announced, U
    <2> QED
      BY <2>2, <2>3
  <1>5. ~BridgeRestarts
    BY DEF BridgeRestarts
  <1>6. CASE UNCHANGED vars
    BY <1>1, <1>6 DEF vars
  <1>7. ASSUME NEW p \in Provider, Stop(p) \/ OutputVaries(p) PROVE Announced'
    BY <1>1, <1>7 DEF Stop, OutputVaries
  <1>8. CASE Receive \/ SimVaries
    BY <1>1, <1>8 DEF Receive, SimVaries
  <1> QED
    BY <1>2, <1>3, <1>4, <1>5, <1>6, <1>7, <1>8 DEF Next

LEMMA PlainStep ==
  ASSUME Types, OutputsApart, OutputsWritable, AllPlain, [Next]_vars
  PROVE  AllPlain'
  <1> DEFINE q == to_bridge
  <1>0. q \in Seq(Request)
    BY DEF Types
  <1>1. ASSUME to_bridge' = to_bridge \/ (q # <<>> /\ to_bridge' = Tail(q))
        PROVE  AllPlain'
    <2>1. CASE to_bridge' = to_bridge
      BY <2>1 DEF AllPlain, Plain
    <2>2. CASE q # <<>> /\ to_bridge' = Tail(q)
      <3>1. /\ Len(q) \in Nat /\ DOMAIN q = 1 .. Len(q) /\ DOMAIN Tail(q) = 1 .. Len(q) - 1
            /\ \A i \in 1 .. Len(q) - 1 : Tail(q)[i] = q[i + 1]
        BY <1>0, <2>2, TailIndex
      <3>2. \A i \in 1 .. Len(q) - 1 : i + 1 \in DOMAIN q
        BY <3>1
      <3>3. \A i \in 1 .. Len(q) - 1 : Plain(Tail(q)[i])
        BY <3>1, <3>2 DEF AllPlain
      <3> QED
        BY <2>2, <3>1, <3>3 DEF AllPlain, Plain
    <2> QED
      BY <1>1, <2>1, <2>2
  <1>2. ASSUME NEW s \in Seq(Request), NEW x \in Request, \A i \in DOMAIN s : Plain(s[i]), Plain(x)
        PROVE  \A i \in DOMAIN Append(s, x) : Plain(Append(s, x)[i])
    <2>1. /\ Len(s) \in Nat /\ DOMAIN s = 1 .. Len(s) /\ DOMAIN Append(s, x) = 1 .. Len(s) + 1
          /\ Append(s, x)[Len(s) + 1] = x /\ \A i \in 1 .. Len(s) : Append(s, x)[i] = s[i]
      BY <1>2, AppendIndex
    <2>2. \A i \in 1 .. Len(s) + 1 : i \in 1 .. Len(s) \/ i = Len(s) + 1
      BY <2>1
    <2> QED
      BY <1>2, <2>1, <2>2
  <1>3. ASSUME NEW p \in Provider, Start(p) PROVE AllPlain'
    <2> DEFINE r == [cmd |-> "RegisterNames", names |-> RegisteredNames(providers')]
    <2>1. /\ providers' = Append(Others(p), p) /\ to_bridge' = Append(q, r)
      BY <1>3 DEF Start
    <2>2. r \in Request /\ Plain(r)
      BY <2>1, OthersFacts, NamesFacts DEF Request, Plain
    <2> HIDE DEF r
    <2>3. \A i \in DOMAIN Append(q, r) : Plain(Append(q, r)[i])
      BY <1>0, <1>2, <2>2 DEF AllPlain
    <2> QED
      BY <2>1, <2>3 DEF AllPlain, Plain
  <1>4. ASSUME NEW p \in Provider, Frame(p) PROVE AllPlain'
    <2> DEFINE r == ReadPacket(p)
               w == WritePacket(p)
               read == IF Inputs(p) = {} THEN q ELSE Append(q, r)
    <2>1. /\ read \in Seq(Request)
          /\ to_bridge' = IF Moved(p) = {} THEN read ELSE Append(read, w)
      BY <1>0, <1>4, FrameBus DEF Frame
    <2>2. r \in Request /\ r.cmd = "DeltaRead" /\ w \in Request
      BY ReadRequestTyped, WriteRequestTyped, FramePackets
    <2>3. ASSUME NEW m \in Moved(p)
          PROVE  ~m.event /\ Category[m.var] = ParsedCategory(m.var)
      BY MovedTyped DEF OutputsWritable
    <2>4. ASSUME NEW m \in Moved(p), NEW n \in Moved(p), m.var = n.var
          PROVE  m = n
      BY <2>4, MovedTyped DEF OutputsApart
    <2>5. Plain(w)
      <3>1. \A x \in w.records : x.category = ParsedCategory(x.var)
        BY <2>3, FramePackets
      <3>2. \A x, y \in w.records : x.var = y.var => x = y
        BY <2>4 DEF WritePacket
      <3> QED
        BY <3>1, <3>2 DEF Plain
    <2> HIDE DEF r, w
    <2>6. \A i \in DOMAIN read : Plain(read[i])
      BY <1>0, <1>2, <2>2 DEF AllPlain, Plain
    <2> HIDE DEF read
    <2>7. \A i \in DOMAIN Append(read, w) : Plain(Append(read, w)[i])
      BY <1>2, <2>1, <2>2, <2>5, <2>6
    <2> QED
      BY <2>1, <2>6, <2>7 DEF AllPlain, Plain
  <1>5. CASE UNCHANGED vars
    BY <1>1, <1>5 DEF vars
  <1>6. ASSUME NEW p \in Provider, Stop(p) \/ OutputVaries(p) PROVE AllPlain'
    BY <1>1, <1>6 DEF Stop, OutputVaries
  <1>7. CASE Receive \/ SimVaries \/ BridgeRestarts
    BY <1>1, <1>7 DEF Receive, SimVaries, BridgeRestarts
  <1>8. CASE HandleRequest \/ Lose
    BY <1>1, <1>8 DEF HandleRequest, HandleRegister, HandleRead, HandleWrite, Lose
  <1> QED
    BY <1>3, <1>4, <1>5, <1>6, <1>7, <1>8 DEF Next

\* What the bridge does with a write that it knows: it takes every record.
LEMMA WriteArrives ==
  ASSUME Types, Announced, AllPlain, HandleWrite, NEW v \in Variable
  PROVE  /\ to_bridge # <<>> /\ to_bridge' = Tail(to_bridge)
         /\ ~Carries(Head(to_bridge), {"DeltaWrite"}, v) => sim'[v] = sim[v]
         /\ \A r \in Head(to_bridge).records : r.var = v => r.value = sim'[v]
  <1> DEFINE packet == Head(to_bridge)
             written == Writable(packet.records)
  <1>1. /\ to_bridge # <<>> /\ packet.cmd = "DeltaWrite" /\ to_bridge' = Tail(to_bridge)
        /\ sim'[v] = IF \E r \in written : r.var = v
                       THEN (CHOOSE r \in written : r.var = v).value
                       ELSE sim[v]
    BY DEF HandleWrite
  <1>2. packet = to_bridge[1] /\ 1 \in DOMAIN to_bridge /\ \A j \in DOMAIN to_bridge : ~(j < 1)
    BY <1>1, TailIndex DEF Types
  <1>3. \A r \in packet.records :
          /\ InTable(bridge.table, r.var) /\ r.category = ParsedCategory(r.var)
          /\ \A s \in packet.records : s.var = r.var => s = r
    BY <1>1, <1>2 DEF Announced, AnnouncedIn, Known, AllPlain, Plain
  <1> HIDE DEF packet
  <1>4. written = packet.records
    <2>1. \A i \in DOMAIN bridge.table : bridge.table[i] \in ToSet(bridge.table)
      BY DEF ToSet
    <2>2. \A r \in packet.records : \E e \in ToSet(bridge.table) :
            e.var = r.var /\ ParsedCategory(e.var) = r.category
      BY <1>3, <2>1 DEF InTable
    <2> QED
      BY <2>2 DEF Writable
  <1> HIDE DEF written
  <1>5. ASSUME NEW r \in packet.records, r.var = v
        PROVE  r.value = sim'[v]
    <2>1. (CHOOSE s \in written : s.var = v) = r
      BY <1>3, <1>4, <1>5
    <2> QED
      BY <1>1, <1>4, <1>5, <2>1
  <1>6. ASSUME ~Carries(packet, {"DeltaWrite"}, v)
        PROVE  sim'[v] = sim[v]
    BY <1>1, <1>4, <1>6 DEF Carries
  <1> QED
    BY <1>1, <1>5, <1>6 DEF packet

\* What a frame of p puts on the bus, seen from an output of p or of another.
LEMMA LatestFrame ==
  ASSUME Types, OutputsApart, NEW p \in Provider, Frame(p),
         NEW o \in Provider, NEW m \in Outputs(o)
  PROVE  /\ \A x : m \notin Moved(p) /\ Latest(m, x) => Latest(m, x)'
         /\ m \in Moved(p) => Latest(m, Encoded(signals[p][m.signal], m.val_type))'
  <1> DEFINE q == to_bridge
             r == ReadPacket(p)
             w == WritePacket(p)
             read == IF Inputs(p) = {} THEN q ELSE Append(q, r)
             Holds(s, x) == LastWord(s, {"DeltaWrite"}, m.var, sim[m.var], {x})
  <1>1. /\ q \in Seq(Request) /\ read \in Seq(Request)
        /\ to_bridge' = IF Moved(p) = {} THEN read ELSE Append(read, w)
    BY FrameBus DEF Frame, Types
  <1>2. r \in Request /\ r.cmd = "DeltaRead" /\ w \in Request /\ w.cmd = "DeltaWrite"
    BY ReadRequestTyped, WriteRequestTyped, FramePackets
  <1>3. /\ \A x \in w.records : \E n \in Moved(p) :
             x.var = n.var /\ x.value = Encoded(signals[p][n.signal], n.val_type)
        /\ \A n \in Moved(p) : \E x \in w.records : x.var = n.var
    BY FramePackets
  <1>4. sim' = sim
    BY DEF Frame
  <1>5. \A n \in Moved(p) : n.var = m.var => n = m
    BY MovedTyped DEF OutputsApart
  <1> HIDE DEF r, w
  <1>6. ASSUME NEW x, Holds(q, x)
        PROVE  Holds(read, x)
    <2>1. ~Carries(r, {"DeltaWrite"}, m.var)
      BY <1>2 DEF Carries
    <2>2. Holds(Append(q, r), x)
      BY <1>1, <1>2, <1>6, <2>1, AppendQuiet
    <2> QED
      BY <1>6, <2>2
  <1> HIDE DEF read
  <1>7. ASSUME NEW x, m \notin Moved(p), Holds(q, x)
        PROVE  Holds(to_bridge', x)
    <2>1. Holds(read, x)
      BY <1>6, <1>7
    <2>2. ~Carries(w, {"DeltaWrite"}, m.var)
      BY <1>3, <1>5, <1>7 DEF Carries
    <2>3. Holds(Append(read, w), x)
      BY <1>1, <1>2, <2>1, <2>2, AppendQuiet
    <2> QED
      BY <1>1, <2>1, <2>3
  <1>8. ASSUME m \in Moved(p)
        PROVE  Holds(to_bridge', Encoded(signals[p][m.signal], m.val_type))
    <2> DEFINE new == Encoded(signals[p][m.signal], m.val_type)
    <2>1. Carries(w, {"DeltaWrite"}, m.var)
      BY <1>2, <1>3, <1>8 DEF Carries
    <2>2. \A x \in w.records : x.var = m.var => x.value \in {new}
      BY <1>3, <1>5
    <2> HIDE DEF new
    <2>3. Holds(Append(read, w), new)
      BY <1>1, <1>2, <2>1, <2>2, AppendWord
    <2> QED
      BY <1>1, <1>8, <2>3 DEF new
  <1>9. signals' = signals
    BY DEF Frame
  <1> QED
    BY <1>4, <1>7, <1>8, <1>9 DEF Latest

\* A frame of p, seen from a signal of p or of another.
LEMMA LatestOfFrame ==
  ASSUME Types, OutputsApart, OutputsLatest, NEW p \in Provider, Frame(p),
         NEW o \in Provider, NEW s \in SignalsOf(Outputs(o)),
         host'[o].output_shadow[s].value # 0
  PROVE  \E m \in Outputs(o) : m.signal = s /\ Latest(m, host[o].output_shadow[s].value)'
  <1>1. host' = [host EXCEPT ![p] = Extracted(Requested(host[p], p), p)]
    BY DEF Frame
  <1>2. ASSUME host'[o].output_shadow[s] = host[o].output_shadow[s],
               o = p => \A m \in Moved(p) : m.signal # s
        PROVE  \E m \in Outputs(o) : m.signal = s /\ Latest(m, host[o].output_shadow[s].value)'
    <2> DEFINE x == host[o].output_shadow[s].value
    <2>1. PICK m \in Outputs(o) : m.signal = s /\ Latest(m, x)
      BY <1>2 DEF OutputsLatest
    <2>2. m \notin Moved(p)
      <3>1. ASSUME m \in Moved(p) PROVE o = p
        BY <3>1, MovedTyped DEF OutputsApart
      <3> QED
        BY <1>2, <2>1, <3>1
    <2>3. x' = x
      BY <1>2
    <2> HIDE DEF x
    <2>4. Latest(m, x)'
      BY <2>1, <2>2, <2>3, LatestFrame DEF Latest
    <2> QED
      BY <2>1, <2>4 DEF x
  <1>3. CASE o # p
    <2>1. host'[o] = host[o]
      BY <1>1, <1>3 DEF Types
    <2> QED
      BY <1>2, <1>3, <2>1
  <1>4. CASE o = p
    <2>1. Requested(host[p], p) \in HostOf(p)
      BY RequestedTyped DEF Types
    <2>2. host'[p].output_shadow = Extraction(p).shadow
      <3>1. host'[p] = Extracted(Requested(host[p], p), p)
        BY <1>1 DEF Types
      <3> QED
        BY <2>1, <3>1, ExtractedTyped
    <2>3. Kept(p, Extraction(p)) /\ Moved(p) = Extraction(p).sent
      BY ExtractionKept DEF Moved
    <2>4. CASE \E m \in Moved(p) : m.signal = s
      <3>1. PICK m \in Moved(p) :
              m.signal = s /\ host'[p].output_shadow[s] = WireValue(signals[p][s], m.val_type)
        BY <1>4, <2>2, <2>3, <2>4 DEF Kept
      <3> DEFINE x == Encoded(signals[p][m.signal], m.val_type)
      <3>2. host'[o].output_shadow[s].value = x
        BY <1>4, <3>1 DEF WireValue
      <3>3. m \in Outputs(o)
        BY <1>4, MovedTyped
      <3>4. Latest(m, x)'
        BY <3>1, <3>3, LatestFrame
      <3>5. x' = x
        BY DEF Frame
      <3> HIDE DEF x
      <3> QED
        BY <3>1, <3>2, <3>3, <3>4, <3>5 DEF Latest
    <2>5. CASE \A m \in Moved(p) : m.signal # s
      <3>1. host'[o].output_shadow[s] = host[o].output_shadow[s]
        BY <1>4, <2>2, <2>3, <2>5 DEF Kept
      <3> QED
        BY <1>2, <2>5, <3>1
    <2> QED
      BY <2>4, <2>5
  <1> QED
    BY <1>3, <1>4

\* Any other step leaves what is last said of an output as it is.
LEMMA LatestStays ==
  ASSUME Types, RequestsArrive, Announced, AllPlain, [Next]_vars,
         \A p \in Provider : ~Frame(p),
         NEW o \in Provider, NEW m \in Outputs(o), NEW x, Latest(m, x)
  PROVE  Latest(m, x)'
  <1> DEFINE q == to_bridge
             W == {"DeltaWrite"}
             Holds(t, y) == LastWord(t, W, m.var, y, {x})
  <1> SUFFICES Holds(to_bridge', sim'[m.var])
    BY DEF Latest
  <1>0. q \in Seq(Request) /\ m.var \in Variable /\ Holds(q, sim[m.var])
    BY MappingFacts DEF Types, Latest
  <1>1. ASSUME to_bridge' = q, sim'[m.var] = sim[m.var]
        PROVE  Holds(to_bridge', sim'[m.var])
    BY <1>0, <1>1
  <1>2. ASSUME q # <<>>, Head(q).cmd # "DeltaWrite", to_bridge' = Tail(q), sim' = sim
        PROVE  Holds(to_bridge', sim'[m.var])
    <2>1. ~Carries(Head(q), W, m.var)
      BY <1>2 DEF Carries
    <2>2. Holds(Tail(q), sim[m.var])
      BY <1>0, <1>2, <2>1, TailQuiet
    <2> QED
      BY <1>2, <2>2
  <1>3. ASSUME NEW p \in Provider, Start(p)
        PROVE  Holds(to_bridge', sim'[m.var])
    <2> DEFINE r == [cmd |-> "RegisterNames", names |-> RegisteredNames(providers')]
    <2>1. providers' = Append(Others(p), p) /\ to_bridge' = Append(q, r) /\ sim' = sim
      BY <1>3 DEF Start
    <2>2. r \in Request /\ ~Carries(r, W, m.var)
      BY <2>1, OthersFacts, NamesFacts DEF Request, Carries
    <2> HIDE DEF r
    <2>3. Holds(Append(q, r), sim[m.var])
      BY <1>0, <2>2, AppendQuiet
    <2> QED
      BY <2>1, <2>3
  <1>4. ASSUME NEW p \in Provider, Stop(p) \/ OutputVaries(p)
        PROVE  Holds(to_bridge', sim'[m.var])
    BY <1>1, <1>4 DEF Stop, OutputVaries
  <1>5. CASE Receive
    BY <1>1, <1>5 DEF Receive
  <1>6. CASE HandleRegister \/ HandleRead
    BY <1>2, <1>6 DEF HandleRegister, HandleRead
  <1>7. CASE HandleWrite
    <2>1. /\ q # <<>> /\ to_bridge' = Tail(q)
          /\ ~Carries(Head(q), W, m.var) => sim'[m.var] = sim[m.var]
          /\ \A r \in Head(q).records : r.var = m.var => r.value = sim'[m.var]
      BY <1>0, <1>7, WriteArrives
    <2>2. CASE Carries(Head(q), W, m.var)
      <3> DEFINE y == sim'[m.var]
      <3> HIDE DEF y
      <3>1. \A r \in Head(q).records : r.var = m.var => r.value = y
        BY <2>1 DEF y
      <3>2. Holds(Tail(q), y)
        BY <1>0, <2>1, <2>2, <3>1, TailWord
      <3> QED
        BY <2>1, <3>2 DEF y
    <2>3. CASE ~Carries(Head(q), W, m.var)
      <3>1. Holds(Tail(q), sim[m.var])
        BY <1>0, <2>1, <2>3, TailQuiet
      <3> QED
        BY <2>1, <2>3, <3>1
    <2> QED
      BY <2>2, <2>3
  <1>8. CASE SimVaries
    <2>1. m.var \in WrittenByHost
      BY DEF WrittenByHost
    <2>2. sim'[m.var] = sim[m.var]
      BY <1>8, <2>1 DEF SimVaries, Types
    <2> QED
      BY <1>1, <1>8, <2>2 DEF SimVaries
  <1>9. CASE Lose
    BY <1>1, <1>2, <1>9 DEF Lose, RequestsArrive
  <1>10. ~BridgeRestarts
    BY DEF BridgeRestarts, RequestsArrive
  <1>11. CASE UNCHANGED vars
    BY <1>1, <1>11 DEF vars
  <1> QED
    BY <1>3, <1>4, <1>5, <1>6, <1>7, <1>8, <1>9, <1>10, <1>11 DEF Next, HandleRequest

LEMMA LatestStep ==
  ASSUME Types, OutputsApart, RequestsArrive, Announced, AllPlain, OutputsLatest, [Next]_vars
  PROVE  OutputsLatest'
  <1> SUFFICES ASSUME NEW o \in Provider, NEW s \in SignalsOf(Outputs(o)),
                      host'[o].output_shadow[s].value # 0
               PROVE  \E m \in Outputs(o) :
                        m.signal = s /\ Latest(m, host[o].output_shadow[s].value)'
    BY DEF OutputsLatest
  <1>1. CASE \E p \in Provider : Frame(p)
    BY <1>1, LatestOfFrame
  <1>2. CASE \A p \in Provider : ~Frame(p)
    <2> DEFINE x == host[o].output_shadow[s].value
    <2>1. host'[o].output_shadow = host[o].output_shadow
      <3>1. ASSUME NEW p \in Provider, Start(p)
            PROVE  host'[o] = host[o]
        <4>1. host' = [host EXCEPT ![p] = Built(p)]
          BY <3>1 DEF Start
        <4>2. Built(o).output_shadow[s].value = 0
          BY DEF Built, Zero
        <4> QED
          BY <4>1, <4>2 DEF Types
      <3>2. CASE Receive
        <4> DEFINE packet == Head(to_host)
                   believes(p) == /\ Contains(providers, p)
                                  /\ packet.cmd \in {"DeltaUpdate", "FullSync"}
                                  /\ ~IsStale(p, packet.seq)
        <4>1. host' = [p \in Provider |->
                         IF believes(p)
                           THEN [host[p] EXCEPT !.input_buffer = Buffered(p, packet.records)]
                           ELSE host[p]]
          BY <3>2 DEF Receive
        <4> HIDE DEF believes
        <4>2. host[o] \in HostOf(o)
          BY DEF Types
        <4> QED
          BY <4>1, <4>2 DEF HostOf
      <3>3. ASSUME NEW p \in Provider, Stop(p) \/ OutputVaries(p)
            PROVE  host' = host
        BY <3>3 DEF Stop, OutputVaries
      <3>4. CASE HandleRequest \/ SimVaries \/ Lose \/ BridgeRestarts \/ UNCHANGED vars
        BY <3>4 DEF HandleRequest, HandleRegister, HandleRead, HandleWrite, SimVaries, Lose,
                    BridgeRestarts, vars
      <3> QED
        BY <1>2, <3>1, <3>2, <3>3, <3>4 DEF Next
    <2>2. x' = x /\ x # 0
      BY <2>1
    <2>3. PICK m \in Outputs(o) : m.signal = s /\ Latest(m, x)
      BY <2>2 DEF OutputsLatest
    <2> HIDE DEF x
    <2>4. LastWord(to_bridge', {"DeltaWrite"}, m.var, sim'[m.var], {x})
      BY <1>2, <2>3, LatestStays DEF Latest
    <2>5. Latest(m, x)'
      BY <2>2, <2>4 DEF Latest
    <2> QED
      BY <2>3, <2>5 DEF x
  <1> QED
    BY <1>1, <1>2

LEMMA OutputsInit == Init => OutputsInv
  <1> SUFFICES ASSUME Init PROVE OutputsInv
    OBVIOUS
  <1>1. Types /\ Budget
    BY TypesInit, BudgetInit
  <1>2. Registered
    BY DEF Init, Registered, ToSet
  <1>3. Announced /\ AllPlain
    BY DEF Init, Announced, AnnouncedIn, AllPlain
  <1>4. OutputsLatest
    <2>1. ASSUME NEW p \in Provider, NEW s \in SignalsOf(Outputs(p))
          PROVE  host[p].output_shadow[s].value = 0
      BY DEF Init, Built, Zero
    <2> QED
      BY <2>1 DEF OutputsLatest
  <1> QED
    BY <1>1, <1>2, <1>3, <1>4 DEF OutputsInv

\* With no write on its way, a variable itself has the value of the shadow.
LEMMA OutputsSettle ==
  ASSUME OutputsInv
  PROVE  OutputShadowsAgree
  <1> SUFFICES ASSUME NEW p \in ToSet(providers), NEW s \in SignalsOf(Outputs(p)),
                      ~OnItsWay(to_bridge, {"DeltaWrite"}), host[p].output_shadow[s].value # 0
               PROVE  \E m \in Outputs(p) :
                        m.signal = s /\ sim[m.var] = host[p].output_shadow[s].value
    BY DEF OutputShadowsAgree
  <1>1. p \in Provider
    BY DEF OutputsInv, Types, ToSet
  <1>2. PICK m \in Outputs(p) : m.signal = s /\ Latest(m, host[p].output_shadow[s].value)
    BY <1>1 DEF OutputsInv, OutputsLatest
  <1>3. \A i \in DOMAIN to_bridge : ~Carries(to_bridge[i], {"DeltaWrite"}, m.var)
    BY DEF OnItsWay, Carries
  <1> QED
    BY <1>2, <1>3 DEF LastWord, Latest

\* The state of the link has the types its handlers rely on: epochs below their
\* limit, lists of names no longer than there are variables, a provider at most
\* once in the coordinator's list.
THEOREM LinkTyped == Spec => []Types
  <1>1. Init => Types
    BY TypesInit
  <1>2. Types /\ [Next]_vars => Types'
    BY TypesStep
  <1> QED
    BY <1>1, <1>2, PTL DEF Spec

\* The bounded, append-only table never drops a name while all that can be
\* registered fits, and a document's variables are then known to the bridge
\* before the document's writes arrive.
THEOREM NamesAreKnown ==
  ASSUME RoomForAll, "RegisterNames" \notin Lossy
  PROVE  Spec => [](Registered /\ Announced)
  <1> DEFINE Inv == Types /\ Budget /\ Registered /\ Announced
  <1>1. Init => Inv
    BY OutputsInit DEF OutputsInv
  <1>2. Inv /\ [Next]_vars => Inv'
    BY TypesStep, BudgetStep, RegisteredStep, AnnouncedStep
  <1>3. Inv => Registered /\ Announced
    OBVIOUS
  <1> QED
    BY <1>1, <1>2, <1>3, PTL DEF Spec

\* What the shadow of a signal says was written is what the simulator has, in the
\* variable of an output at that signal, once the writes on their way have
\* arrived: whatever documents start, stop and are rebuilt, with updates and reads
\* lost or late, for any number of documents, and any number of outputs that share
\* a signal and its shadow.
THEOREM WritesArrive ==
  ASSUME RoomForAll, OutputsApart, OutputsWritable, RequestsArrive
  PROVE  Spec => []OutputShadowsAgree
  <1>1. Init => OutputsInv
    BY OutputsInit
  <1>2. OutputsInv /\ [Next]_vars => OutputsInv'
    BY TypesStep, BudgetStep, RegisteredStep, AnnouncedStep, PlainStep, LatestStep
       DEF OutputsInv, RequestsArrive
  <1>3. OutputsInv => OutputShadowsAgree
    BY OutputsSettle
  <1> QED
    BY <1>1, <1>2, <1>3, PTL DEF Spec

-----------------------------------------------------------------------------
(* Epochs: how far the epoch e is past the request s, on a circle of L.      *)

LEMMA ModSmall ==
  ASSUME NEW L \in Nat \ {0}, NEW x \in Int, 0 <= x, x < L
  PROVE  x % L = x
  OBVIOUS

LEMMA ModBelow ==
  ASSUME NEW L \in Nat \ {0}, NEW x \in Int, -L <= x, x < 0
  PROVE  x % L = x + L
  OBVIOUS

LEMMA GapGrows ==
  ASSUME NEW e \in Epoch, NEW s \in Epoch, NEW g \in Nat, g < EpochLimit
  PROVE  LET next == (e + 1) % EpochLimit
         IN  /\ (e - s) % EpochLimit < g => (next - s) % EpochLimit <= g
             /\ g >= 1 => (next - e) % EpochLimit <= g
  <1> DEFINE L == EpochLimit
             next == (e + 1) % L
  <1>1. L \in Nat \ {0} /\ e \in Nat /\ s \in Nat /\ e < L /\ s < L
    BY SimConnectLinkAssumption DEF Epoch
  <1> HIDE DEF L
  <1>2. L % L = 0
    BY <1>1
  <1>3. next = IF e + 1 < L THEN e + 1 ELSE 0
    <2>1. CASE e + 1 < L
      BY <1>1, <2>1, ModSmall
    <2>2. CASE e + 1 = L
      BY <1>1, <1>2, <2>2
    <2> QED
      BY <1>1, <2>1, <2>2
  <1> HIDE DEF next
  <1>4. (e - s) % L = IF e >= s THEN e - s ELSE e - s + L
    <2>1. CASE e >= s
      BY <1>1, <2>1, ModSmall
    <2>2. CASE e < s
      BY <1>1, <2>2, ModBelow
    <2> QED
      BY <1>1, <2>1, <2>2
  <1>5. \A t \in Nat : t < L => (next - t) % L = IF next >= t THEN next - t ELSE next - t + L
    <2> TAKE t \in Nat
    <2> HAVE t < L
    <2>0. next \in Nat /\ next < L
      BY <1>1, <1>3
    <2>1. CASE next >= t
      BY <1>1, <2>0, <2>1, ModSmall
    <2>2. CASE next < t
      BY <1>1, <2>0, <2>2, ModBelow
    <2> QED
      BY <1>1, <2>0, <2>1, <2>2
  <1>6. (e - s) % L < g => (next - s) % L <= g
    <2>1. (next - s) % L = IF next >= s THEN next - s ELSE next - s + L
      BY <1>1, <1>5
    <2>2. g < L
      BY DEF L
    <2> DEFINE a == (e - s) % L
               b == (next - s) % L
    <2>3. a = IF e >= s THEN e - s ELSE e - s + L
      BY <1>4
    <2>4. b = IF next >= s THEN next - s ELSE next - s + L
      BY <2>1
    <2> HIDE DEF a, b
    <2>5. a < g => b <= g
      BY <1>1, <1>3, <2>2, <2>3, <2>4
    <2> QED
      BY <2>5 DEF a, b
  <1>7. g >= 1 => (next - e) % L <= g
    BY <1>1, <1>3, <1>5
  <1> QED
    BY <1>6, <1>7 DEF next, L

-----------------------------------------------------------------------------
(* Inputs, of the one document that is connected.                          *)

News == {"DeltaUpdate", "FullSync"}

\* Inputs that share a signal share the variable.
SignalsApart ==
  \A p \in Provider : \A m, n \in MappingsOf(p) : m.signal = n.signal => m.var = n.var

\* What is registered and what the bridge reports arrives.
UpdatesArrive == "RegisterNames" \notin Lossy /\ News \cap Lossy = {}

\* Every registration names all that the document needs.
NamesAll ==
  \A i \in DOMAIN to_bridge : to_bridge[i].cmd = "RegisterNames" =>
    \A p \in Provider : \A m \in MappingsOf(p) : m.var \in ToSet(to_bridge[i].names)

\* A response has one value for a variable.
OneValue(packet) ==
  packet.cmd \in News => \A r, s \in packet.records : r.var = s.var => r.value = s.value

AllOneValue == \A i \in DOMAIN to_host : OneValue(to_host[i])

\* Neither a read nor a response on its way is or will be stale.
Fresh(p) ==
  /\ \A i \in DOMAIN to_bridge : to_bridge[i].cmd = "DeltaRead" => ~IsStale(p, to_bridge[i].seq)
  /\ \A i \in DOMAIN to_host : to_host[i].cmd \in News => ~IsStale(p, to_host[i].seq)

\* v is registered, and the bridge never reported that entry.
NeverSent(table, v) == \E i \in DOMAIN table : table[i].var = v /\ ~table[i].valid

\* The names are registered, or will be, and the first read after that has not
\* been made: what is on its way belongs to an earlier simulation.
Waiting(p) ==
  \/ \E i \in DOMAIN to_bridge :
       /\ to_bridge[i].cmd = "RegisterNames"
       /\ \A j \in DOMAIN to_bridge : j > i => to_bridge[j].cmd # "DeltaRead"
  \/ /\ \A i \in DOMAIN to_bridge : to_bridge[i].cmd # "DeltaRead"
     /\ \A m \in Inputs(p) : NeverSent(bridge.table, m.var)

\* Values that no DeltaUpdate would correct.
Close(e) == {x \in Nat : ~FloatChanged(x, e.last_sent, e.epsilon)}

\* Once all entries of a variable were reported, the buffer is close to what was
\* reported, or will be when the responses on their way have been polled.
Agreed(p) ==
  \A m \in Inputs(p) :
    /\ IsTarget(p, m.var, m.signal)
    /\ ~OnItsWay(to_bridge, {"RegisterNames"})
    /\ ~NeverSent(bridge.table, m.var)
    => \A i \in DOMAIN bridge.table :
         bridge.table[i].var = m.var =>
           LastWord(to_host, News, m.var, host[p].input_buffer[m.signal], Close(bridge.table[i]))

InputsInv(p) ==
  /\ Types /\ Budget /\ NamesAll /\ AllOneValue
  /\ p \in ToSet(providers) => (Fresh(p) \/ Waiting(p)) /\ Agreed(p)

\* The entries S that an answer reports: the others of their variables were
\* reported before and hardly changed.
LEMMA ReadAnswered ==
  ASSUME Types, HandleRead
  PROVE  \E S \in SUBSET DOMAIN bridge.table :
           LET table == bridge.table
           IN  /\ DOMAIN bridge'.table = DOMAIN table
               /\ \A i \in DOMAIN table :
                    bridge'.table[i] = IF i \in S THEN Sent(table[i]) ELSE table[i]
               /\ \A i \in S : \A j \in DOMAIN table \ S :
                    table[j].var = table[i].var =>
                      ~FloatChanged(Read(table[j].var), table[j].last_sent, table[j].epsilon)
               /\ \/ to_host' = to_host /\ S = {}
                  \/ \E u \in Response :
                       /\ to_host' = Append(to_host, u) /\ u.cmd \in News
                       /\ u.seq = Head(to_bridge).seq
                       /\ u.records = {[var |-> table[i].var, value |-> Read(table[i].var)] :
                                         i \in S}
  <1> DEFINE packet == Head(to_bridge)
             table == bridge.table
             full == FullSync(bridge, packet.seq)
             update == DeltaUpdate(bridge, packet.tiers, packet.seq)
             news(X) == {[var |-> e.var, value |-> Read(e.var)] : e \in X}
             due == {e \in ToSet(table) : Due(e, packet.tiers)}
             D == {i \in DOMAIN table : Due(table[i], packet.tiers)}
             said(S) == {[var |-> table[i].var, value |-> Read(table[i].var)] : i \in S}
             all == [cmd |-> "FullSync", seq |-> packet.seq, records |-> said(DOMAIN table)]
             some == [cmd |-> "DeltaUpdate", seq |-> packet.seq, records |-> said(D)]
             Reports(S) ==
               /\ DOMAIN bridge'.table = DOMAIN table
               /\ \A i \in DOMAIN table :
                    bridge'.table[i] = IF i \in S THEN Sent(table[i]) ELSE table[i]
               /\ \A i \in S : \A j \in DOMAIN table \ S :
                    table[j].var = table[i].var =>
                      ~FloatChanged(Read(table[j].var), table[j].last_sent, table[j].epsilon)
               /\ \/ to_host' = to_host /\ S = {}
                  \/ \E u \in Response :
                       /\ to_host' = Append(to_host, u) /\ u.cmd \in News
                       /\ u.seq = packet.seq /\ u.records = said(S)
  <1>0. SUFFICES \E S \in SUBSET DOMAIN table : Reports(S)
    OBVIOUS
  <1>1. /\ packet.seq \in Epoch
        /\ \/ bridge'.table = full.table /\ to_host' = to_host \o full.replies
           \/ bridge'.table = update.table /\ to_host' = to_host \o update.replies
    BY HandleReadFacts
  <1>2. table \in Seq(TableEntry) /\ to_host \in Seq(Response)
    BY DEF Types
  <1> HIDE DEF packet
  <1>3. /\ full.table = [i \in DOMAIN table |-> Sent(table[i])]
        /\ update.table = [i \in DOMAIN table |->
                             IF Due(table[i], packet.tiers) THEN Sent(table[i]) ELSE table[i]]
        /\ news(ToSet(table)) \subseteq [var : Variable, value : Nat]
        /\ news(due) \subseteq [var : Variable, value : Nat]
        /\ full.replies = << [cmd |-> "FullSync", seq |-> packet.seq,
                              records |-> news(ToSet(table))] >>
        /\ update.replies = IF due = {} THEN <<>>
                            ELSE << [cmd |-> "DeltaUpdate", seq |-> packet.seq,
                                     records |-> news(due)] >>
    BY <1>1, AnswerFacts
  <1>4. news(ToSet(table)) = said(DOMAIN table)
    BY DEF ToSet
  <1>5. news(due) = said(D) /\ (due = {} <=> D = {})
    BY DEF ToSet
  <1> HIDE DEF full, update, news, due, said
  <1>6. all \in Response /\ some \in Response
    BY <1>1, <1>3, <1>4, <1>5 DEF Response
  <1>7. full.replies = <<all>> /\ update.replies = IF D = {} THEN <<>> ELSE <<some>>
    BY <1>3, <1>4, <1>5
  <1>8. \A x \in Response : to_host \o <<x>> = Append(to_host, x)
    BY <1>2
  <1>9. to_host \o <<>> = to_host
    BY <1>2
  <1>10. CASE bridge'.table = full.table /\ to_host' = to_host \o full.replies
    <2>1. /\ DOMAIN bridge'.table = DOMAIN table
          /\ \A i \in DOMAIN table : bridge'.table[i] = Sent(table[i])
      BY <1>3, <1>10
    <2>2. to_host' = Append(to_host, all)
      BY <1>6, <1>7, <1>8, <1>10
    <2>3. all.cmd \in News /\ all.seq = packet.seq /\ all.records = said(DOMAIN table)
      BY DEF News
    <2> HIDE DEF all, table
    <2>4. Reports(DOMAIN table)
      BY <1>6, <2>1, <2>2, <2>3
    <2> QED
      BY <2>4
  <1>11. CASE bridge'.table = update.table /\ to_host' = to_host \o update.replies
    <2>1. /\ DOMAIN bridge'.table = DOMAIN table
          /\ \A i \in DOMAIN table :
               bridge'.table[i] = IF i \in D THEN Sent(table[i]) ELSE table[i]
      BY <1>3, <1>11
    <2>2. \/ to_host' = to_host /\ D = {}
          \/ to_host' = Append(to_host, some)
      BY <1>6, <1>7, <1>8, <1>9, <1>11
    <2>3. some.cmd \in News /\ some.seq = packet.seq /\ some.records = said(D)
      BY DEF News
    <2>4. ASSUME NEW i \in D, NEW j \in DOMAIN table \ D, table[j].var = table[i].var
          PROVE  ~FloatChanged(Read(table[j].var), table[j].last_sent, table[j].epsilon)
      <3>0. j \in DOMAIN table
        BY <2>4
      <3>1. table[j].last_sent \in Nat /\ table[j].epsilon \in Nat
        <4> HIDE DEF table
        <4>1. table[j] \in TableEntry
          BY <1>2, <3>0
        <4> QED
          BY <4>1, SimConnectLinkAssumption DEF TableEntry
      <3>2. ~ValueChanged(Read(table[j].var), table[j].last_sent, table[j].epsilon,
                          IF Category[table[j].var] = "BVar" THEN "Bool" ELSE "Float32")
        BY <2>4 DEF Due
      <3>3. CASE Category[table[j].var] = "BVar"
        <4>1. Read(table[j].var) = table[j].last_sent
          BY <3>2, <3>3 DEF ValueChanged
        <4> QED
          BY <3>1, <4>1, NoChange
      <3>4. CASE Category[table[j].var] # "BVar"
        BY <3>2, <3>4 DEF ValueChanged
      <3> QED
        BY <3>3, <3>4
    <2>5. D \in SUBSET DOMAIN table
      OBVIOUS
    <2> HIDE DEF some, table, D
    <2>6. Reports(D)
      BY <1>6, <2>1, <2>2, <2>3, <2>4
    <2> QED
      BY <2>5, <2>6
  <1> QED
    BY <1>1, <1>10, <1>11

LEMMA NamesAllStep ==
  ASSUME Types, NEW P, Provider = {P}, NamesAll, [Next]_vars
  PROVE  NamesAll'
  <1> DEFINE q == to_bridge
             Lists(x) == x.cmd = "RegisterNames" =>
                           \A p \in Provider : \A m \in MappingsOf(p) : m.var \in ToSet(x.names)
  <1>0. q \in Seq(Request) /\ \A i \in DOMAIN q : Lists(q[i])
    BY DEF Types, NamesAll
  <1>1. ASSUME \A i \in DOMAIN to_bridge' : Lists(to_bridge'[i])
        PROVE  NamesAll'
    BY <1>1 DEF NamesAll
  <1> HIDE DEF Lists
  <1>2. ASSUME to_bridge' = to_bridge \/ (q # <<>> /\ to_bridge' = Tail(q))
        PROVE  NamesAll'
    <2>1. CASE to_bridge' = to_bridge
      BY <1>0, <1>1, <2>1
    <2>2. CASE q # <<>> /\ to_bridge' = Tail(q)
      <3>1. /\ Len(q) \in Nat /\ DOMAIN q = 1 .. Len(q) /\ DOMAIN Tail(q) = 1 .. Len(q) - 1
            /\ \A i \in 1 .. Len(q) - 1 : Tail(q)[i] = q[i + 1]
        BY <1>0, <2>2, TailIndex
      <3>2. \A i \in 1 .. Len(q) - 1 : i + 1 \in DOMAIN q
        BY <3>1
      <3> QED
        BY <1>0, <1>1, <2>2, <3>1, <3>2
    <2> QED
      BY <1>2, <2>1, <2>2
  <1>3. ASSUME NEW s \in Seq(Request), NEW x \in Request, \A i \in DOMAIN s : Lists(s[i]), Lists(x)
        PROVE  \A i \in DOMAIN Append(s, x) : Lists(Append(s, x)[i])
    <2>1. /\ Len(s) \in Nat /\ DOMAIN s = 1 .. Len(s) /\ DOMAIN Append(s, x) = 1 .. Len(s) + 1
          /\ Append(s, x)[Len(s) + 1] = x /\ \A i \in 1 .. Len(s) : Append(s, x)[i] = s[i]
      BY <1>3, AppendIndex
    <2>2. \A i \in 1 .. Len(s) + 1 : i \in 1 .. Len(s) \/ i = Len(s) + 1
      BY <2>1
    <2> QED
      BY <1>3, <2>1, <2>2
  <1>4. ASSUME NEW p \in Provider, Start(p) PROVE NamesAll'
    <2> DEFINE r == [cmd |-> "RegisterNames", names |-> RegisteredNames(providers')]
    <2>1. /\ providers' = Append(Others(p), p) /\ to_bridge' = Append(q, r)
      BY <1>4 DEF Start
    <2>2. providers' \in Seq(Provider) /\ p \in ToSet(providers')
      BY <2>1, OthersFacts
    <2>3. /\ r.names \in Names
          /\ ToSet(r.names) = {m.var : m \in UNION {MappingsOf(o) : o \in ToSet(providers')}}
      BY <2>2, NamesFacts
    <2>4. r \in Request
      BY <2>3 DEF Request
    <2>5. Lists(r)
      BY <2>2, <2>3 DEF Lists
    <2> HIDE DEF r
    <2>6. \A i \in DOMAIN Append(q, r) : Lists(Append(q, r)[i])
      BY <1>0, <1>3, <2>4, <2>5
    <2> QED
      BY <1>1, <2>1, <2>6
  <1>5. ASSUME NEW p \in Provider, Frame(p) PROVE NamesAll'
    <2> DEFINE r == ReadPacket(p)
               w == WritePacket(p)
               read == IF Inputs(p) = {} THEN q ELSE Append(q, r)
    <2>1. /\ read \in Seq(Request)
          /\ to_bridge' = IF Moved(p) = {} THEN read ELSE Append(read, w)
      BY <1>0, <1>5, FrameBus DEF Frame
    <2>2. r \in Request /\ w \in Request
      BY ReadRequestTyped, WriteRequestTyped
    <2>3. Lists(r) /\ Lists(w)
      BY FramePackets DEF Lists
    <2> HIDE DEF r, w
    <2>4. \A i \in DOMAIN read : Lists(read[i])
      BY <1>0, <1>3, <2>2, <2>3
    <2> HIDE DEF read
    <2>5. \A i \in DOMAIN Append(read, w) : Lists(Append(read, w)[i])
      BY <1>3, <2>1, <2>2, <2>3, <2>4
    <2> QED
      BY <1>1, <2>1, <2>4, <2>5
  <1>6. CASE UNCHANGED vars
    BY <1>2, <1>6 DEF vars
  <1>7. ASSUME NEW p \in Provider, Stop(p) \/ OutputVaries(p) PROVE NamesAll'
    BY <1>2, <1>7 DEF Stop, OutputVaries
  <1>8. CASE Receive \/ SimVaries \/ BridgeRestarts
    BY <1>2, <1>8 DEF Receive, SimVaries, BridgeRestarts
  <1>9. CASE HandleRequest \/ Lose
    BY <1>2, <1>9 DEF HandleRequest, HandleRegister, HandleRead, HandleWrite, Lose
  <1> QED
    BY <1>4, <1>5, <1>6, <1>7, <1>8, <1>9 DEF Next

\* What a step does to the responses.
LEMMA ResponsesStep ==
  ASSUME Types, [Next]_vars
  PROVE  \/ to_host' = to_host
         \/ to_host' = <<>>
         \/ to_host # <<>> /\ to_host' = Tail(to_host)
         \/ \E u \in Response : to_host' = Append(to_host, u) /\ OneValue(u)
  <1>1. ASSUME NEW p \in Provider, Start(p) \/ Stop(p) \/ Frame(p) \/ OutputVaries(p)
        PROVE  to_host' = to_host \/ to_host' = <<>>
    BY <1>1 DEF Start, Stop, Frame, OutputVaries, Polled
  <1>2. CASE HandleRead
    <2>1. PICK S \in SUBSET DOMAIN bridge.table :
            \/ to_host' = to_host /\ S = {}
            \/ \E u \in Response :
                 /\ to_host' = Append(to_host, u)
                 /\ u.records = {[var |-> bridge.table[i].var, value |-> Read(bridge.table[i].var)] :
                                   i \in S}
      BY <1>2, ReadAnswered
    <2>2. CASE to_host' = to_host
      BY <2>2
    <2>3. ASSUME NEW u \in Response, to_host' = Append(to_host, u),
                 u.records = {[var |-> bridge.table[i].var, value |-> Read(bridge.table[i].var)] :
                                i \in S}
          PROVE  OneValue(u)
      <3>1. \A r \in u.records : r.value = Read(r.var)
        BY <2>3
      <3> QED
        BY <3>1 DEF OneValue
    <2> QED
      BY <2>1, <2>2, <2>3
  <1>3. CASE HandleWrite
    <2> DEFINE u == [cmd |-> "WriteAck", seq |-> Head(to_bridge).seq]
    <2>1. to_host' = Append(to_host, u)
      BY <1>3 DEF HandleWrite
    <2>2. u \in Response
      BY <1>3, QueueFacts, PacketFacts DEF HandleWrite, Types, Response
    <2>3. OneValue(u)
      BY DEF OneValue, News
    <2> QED
      BY <2>1, <2>2, <2>3
  <1>4. CASE Receive \/ Lose
    BY <1>4 DEF Receive, Lose
  <1>5. CASE HandleRegister \/ SimVaries \/ BridgeRestarts \/ UNCHANGED vars
    BY <1>5 DEF HandleRegister, SimVaries, BridgeRestarts, vars
  <1> QED
    BY <1>1, <1>2, <1>3, <1>4, <1>5 DEF Next, HandleRequest

LEMMA OneValueStep ==
  ASSUME Types, AllOneValue, [Next]_vars
  PROVE  AllOneValue'
  <1>0. to_host \in Seq(Response) /\ \A i \in DOMAIN to_host : OneValue(to_host[i])
    BY DEF Types, AllOneValue
  <1>1. ASSUME \A i \in DOMAIN to_host' : OneValue(to_host'[i])
        PROVE  AllOneValue'
    BY <1>1 DEF AllOneValue, OneValue
  <1>2. CASE to_host' = to_host \/ to_host' = <<>>
    BY <1>0, <1>1, <1>2
  <1>3. CASE to_host # <<>> /\ to_host' = Tail(to_host)
    <2>1. /\ Len(to_host) \in Nat /\ DOMAIN to_host = 1 .. Len(to_host)
          /\ DOMAIN Tail(to_host) = 1 .. Len(to_host) - 1
          /\ \A i \in 1 .. Len(to_host) - 1 : Tail(to_host)[i] = to_host[i + 1]
      BY <1>0, <1>3, TailIndex
    <2>2. \A i \in 1 .. Len(to_host) - 1 : i + 1 \in DOMAIN to_host
      BY <2>1
    <2> QED
      BY <1>0, <1>1, <1>3, <2>1, <2>2
  <1>4. ASSUME NEW u \in Response, to_host' = Append(to_host, u), OneValue(u)
        PROVE  AllOneValue'
    <2>1. /\ Len(to_host) \in Nat /\ DOMAIN to_host = 1 .. Len(to_host)
          /\ DOMAIN Append(to_host, u) = 1 .. Len(to_host) + 1
          /\ Append(to_host, u)[Len(to_host) + 1] = u
          /\ \A i \in 1 .. Len(to_host) : Append(to_host, u)[i] = to_host[i]
      BY <1>0, AppendIndex
    <2>2. \A i \in 1 .. Len(to_host) + 1 : i \in 1 .. Len(to_host) \/ i = Len(to_host) + 1
      BY <2>1
    <2> QED
      BY <1>0, <1>1, <1>4, <2>1, <2>2
  <1> QED
    BY <1>2, <1>3, <1>4, ResponsesStep

\* With one document nobody is left when it goes.
LEMMA Alone ==
  ASSUME Types, NEW P, Provider = {P}
  PROVE  Others(P) = <<>>
  <1>1. Others(P) \in Seq(Provider) /\ ToSet(Others(P)) = ToSet(providers) \ {P}
    BY OthersFacts
  <1>2. ToSet(providers) \subseteq {P}
    BY DEF Types, ToSet
  <1>3. ToSet(Others(P)) = {}
    BY <1>1, <1>2
  <1> DEFINE o == Others(P)
  <1> HIDE DEF o
  <1>4. o \in Seq(Provider) /\ ToSet(o) = {}
    BY <1>1, <1>3 DEF o
  <1>5. Len(o) \in Nat /\ DOMAIN o = 1 .. Len(o)
    BY <1>4
  <1>6. Len(o) = 0
    <2> SUFFICES ASSUME Len(o) # 0 PROVE FALSE
      OBVIOUS
    <2>1. 1 \in DOMAIN o
      BY <1>5
    <2>2. o[1] \in ToSet(o)
      BY <2>1 DEF ToSet
    <2> QED
      BY <1>4, <2>2
  <1>7. o = <<>>
    BY <1>4, <1>6
  <1> QED
    BY <1>7 DEF o

\* The gap of a packet that a frame finds is at most StaleGap after it.
LEMMA FreshFrame ==
  ASSUME Types, NEW p \in Provider, Frame(p)
  PROVE  Fresh(p)'
  <1> DEFINE e == host[p].epoch
             next == host'[p].epoch
             V == Request \cup Response
             Old(s) == (next - s) % EpochLimit <= StaleGap
             r == ReadPacket(p)
             w == WritePacket(p)
             read == IF Inputs(p) = {} THEN to_bridge ELSE Append(to_bridge, r)
  <1>1. /\ to_bridge \in Seq(Request) /\ to_host \in Seq(Response)
        /\ host[p] \in HostOf(p) /\ e \in Epoch
    BY DEF Types, HostOf
  <1>2. next = IF Inputs(p) = {} THEN e ELSE (e + 1) % EpochLimit
    <2>1. host'[p] = Extracted(Requested(host[p], p), p)
      BY DEF Frame, Types
    <2> QED
      BY <1>1, <2>1, RequestedTyped, ExtractedTyped
  <1>3. ASSUME NEW packet, packet.cmd # "RegisterNames", packet.seq \in Epoch,
               (\E i \in DOMAIN to_bridge : to_bridge[i] = packet)
               \/ (\E i \in DOMAIN to_host : to_host[i] = packet)
        PROVE  Old(packet.seq)
    <2>1. packet \in ToSet(to_bridge \o to_host)
      <3> DEFINE a == to_bridge
                 b == to_host
      <3>1. a \in Seq(V) /\ b \in Seq(V)
        BY <1>1
      <3>2. (\E i \in DOMAIN a : a[i] = packet) \/ (\E i \in DOMAIN b : b[i] = packet)
        BY <1>3
      <3> HIDE DEF a, b, V
      <3>3. /\ Len(a) \in Nat /\ Len(b) \in Nat /\ DOMAIN a = 1 .. Len(a) /\ DOMAIN b = 1 .. Len(b)
            /\ DOMAIN (a \o b) = 1 .. Len(a) + Len(b)
            /\ \A i \in 1 .. Len(a) : (a \o b)[i] = a[i]
            /\ \A i \in 1 .. Len(b) : (a \o b)[Len(a) + i] = b[i]
        BY <3>1
      <3>4. \A i \in 1 .. Len(b) : Len(a) + i \in 1 .. Len(a) + Len(b)
        BY <3>3
      <3>5. \A i \in 1 .. Len(a) : i \in 1 .. Len(a) + Len(b)
        BY <3>3
      <3>6. packet \in ToSet(a \o b)
        BY <3>2, <3>3, <3>4, <3>5 DEF ToSet
      <3> QED
        BY <3>6 DEF a, b
    <2>2. (e - packet.seq) % EpochLimit < StaleGap
      BY <1>3, <2>1 DEF Frame, Prompt
    <2>3. StaleGap \in Nat /\ StaleGap < EpochLimit
      BY SimConnectLinkAssumption
    <2>4. CASE Inputs(p) # {}
      BY <1>1, <1>2, <1>3, <2>2, <2>3, <2>4, GapGrows
    <2>5. CASE Inputs(p) = {}
      <3>1. (e - packet.seq) % EpochLimit \in Nat
        BY <1>1, <1>3, SimConnectLinkAssumption DEF Epoch
      <3> QED
        BY <1>2, <2>2, <2>3, <2>5, <3>1
    <2> QED
      BY <2>4, <2>5
  <1>4. ASSUME Inputs(p) # {}
        PROVE  Old(e)
    <2>1. ReadRequest(p) = <<r>>
      BY <1>4, ReadRequestTyped
    <2>2. BusLimit >= 1
      <3> DEFINE rr == ReadRequest(p)
                 ww == WriteRequest(p)
      <3>1. rr = <<r>> /\ r \in Request /\ (ww = <<>> \/ \E x \in Request : ww = <<x>>)
        BY <2>1, ReadRequestTyped, WriteRequestTyped
      <3>2. Len(to_bridge) + Len(to_host) + Len(rr \o ww) <= BusLimit
        BY DEF Frame, Room
      <3> HIDE DEF rr, ww, r
      <3>3. Len(rr \o ww) \in Nat /\ Len(rr \o ww) >= 1
        BY <3>1
      <3>4. Len(to_bridge) \in Nat /\ Len(to_host) \in Nat
        BY <1>1
      <3>5. BusLimit \in Nat
        BY SimConnectLinkAssumption
      <3> QED
        BY <3>2, <3>3, <3>4, <3>5
    <2>3. StaleGap \in Nat /\ StaleGap < EpochLimit /\ StaleGap >= 1
      BY <2>2, SimConnectLinkAssumption
    <2> QED
      BY <1>1, <1>2, <1>4, <2>3, GapGrows
  <1>5. \A s \in Epoch : Old(s) => ~((next - s) % EpochLimit > StaleGap)
    <2>1. next \in Epoch
      <3>1. ASSUME NEW L \in Nat \ {0}, NEW n \in Nat
            PROVE  n % L \in 0 .. L - 1
        OBVIOUS
      <3>2. EpochLimit \in Nat \ {0}
        BY SimConnectLinkAssumption
      <3>3. e + 1 \in Nat
        BY <1>1 DEF Epoch
      <3> HIDE DEF e, next
      <3>4. (e + 1) % EpochLimit \in Epoch
        BY <3>1, <3>2, <3>3 DEF Epoch
      <3> QED
        BY <1>1, <1>2, <3>4
    <2>2. \A s \in Epoch : (next - s) % EpochLimit \in Nat
      BY <2>1, SimConnectLinkAssumption DEF Epoch
    <2> QED
      BY <2>2, SimConnectLinkAssumption
  <1> HIDE DEF Old
  <1>6. ASSUME NEW i \in DOMAIN to_host', to_host'[i].cmd \in News
        PROVE  ~((next - to_host'[i].seq) % EpochLimit > StaleGap)
    <2>1. to_host' = to_host
      BY DEF Frame
    <2>2. to_host[i] \in Response
      BY <1>1, <1>6, <2>1
    <2>3. to_host[i].seq \in Epoch /\ to_host[i].cmd # "RegisterNames"
      BY <1>6, <2>1, <2>2, PacketFacts DEF News
    <2> QED
      BY <1>3, <1>5, <1>6, <2>1, <2>3
  <1>7. ASSUME NEW i \in DOMAIN to_bridge', to_bridge'[i].cmd = "DeltaRead"
        PROVE  ~((next - to_bridge'[i].seq) % EpochLimit > StaleGap)
    <2>1. /\ read \in Seq(Request)
          /\ to_bridge' = IF Moved(p) = {} THEN read ELSE Append(read, w)
      BY <1>1, FrameBus DEF Frame
    <2>2. r \in Request /\ w \in Request /\ w.cmd = "DeltaWrite" /\ r.seq = e
      BY ReadRequestTyped, WriteRequestTyped, FramePackets
    <2> HIDE DEF r, w
    <2>3. \A j \in DOMAIN read :
            (\E k \in DOMAIN to_bridge : read[j] = to_bridge[k])
            \/ (Inputs(p) # {} /\ read[j] = r)
      <3>1. CASE Inputs(p) = {}
        BY <3>1
      <3>2. CASE Inputs(p) # {}
        <4>1. /\ Len(to_bridge) \in Nat /\ DOMAIN to_bridge = 1 .. Len(to_bridge)
              /\ DOMAIN Append(to_bridge, r) = 1 .. Len(to_bridge) + 1
              /\ Append(to_bridge, r)[Len(to_bridge) + 1] = r
              /\ \A k \in 1 .. Len(to_bridge) : Append(to_bridge, r)[k] = to_bridge[k]
          BY <1>1, <2>2, AppendIndex
        <4>2. \A k \in 1 .. Len(to_bridge) + 1 : k \in 1 .. Len(to_bridge) \/ k = Len(to_bridge) + 1
          BY <4>1
        <4> QED
          BY <3>2, <4>1, <4>2
      <3> QED
        BY <3>1, <3>2
    <2> HIDE DEF read
    <2>4. i \in DOMAIN read /\ to_bridge'[i] = read[i]
      <3>1. /\ Len(read) \in Nat /\ DOMAIN read = 1 .. Len(read)
            /\ DOMAIN Append(read, w) = 1 .. Len(read) + 1
            /\ Append(read, w)[Len(read) + 1] = w
            /\ \A k \in 1 .. Len(read) : Append(read, w)[k] = read[k]
        BY <2>1, <2>2, AppendIndex
      <3>2. \A k \in 1 .. Len(read) + 1 : k \in 1 .. Len(read) \/ k = Len(read) + 1
        BY <3>1
      <3> QED
        BY <1>7, <2>1, <2>2, <3>1, <3>2
    <2>5. CASE \E k \in DOMAIN to_bridge : read[i] = to_bridge[k]
      <3>1. to_bridge'[i] \in Request
        BY <1>1, <2>4, <2>5
      <3>2. to_bridge'[i].seq \in Epoch /\ to_bridge'[i].cmd # "RegisterNames"
        BY <1>7, <3>1, PacketFacts
      <3> QED
        BY <1>3, <1>5, <2>4, <2>5, <3>2
    <2>6. CASE Inputs(p) # {} /\ read[i] = r
      BY <1>1, <1>4, <1>5, <2>2, <2>4, <2>6
    <2> QED
      BY <2>3, <2>4, <2>5, <2>6
  <1> QED
    BY <1>6, <1>7 DEF Fresh, IsStale

\* Answers are as old as the reads they answer.
LEMMA FreshServed ==
  ASSUME Types, NEW p \in Provider, Fresh(p), HandleRequest \/ Lose \/ Receive
  PROVE  Fresh(p)'
  <1> DEFINE Good(s) == ~((host[p].epoch - s) % EpochLimit > StaleGap)
  <1>1. /\ to_bridge \in Seq(Request) /\ to_host \in Seq(Response)
        /\ \A i \in DOMAIN to_bridge : to_bridge[i].cmd = "DeltaRead" => Good(to_bridge[i].seq)
        /\ \A i \in DOMAIN to_host : to_host[i].cmd \in News => Good(to_host[i].seq)
    BY DEF Types, Fresh, IsStale
  <1>2. host'[p].epoch = host[p].epoch
    <2>1. CASE Receive
      <3> DEFINE packet == Head(to_host)
                 believes(x) == /\ Contains(providers, x)
                                /\ packet.cmd \in {"DeltaUpdate", "FullSync"}
                                /\ ~IsStale(x, packet.seq)
      <3>1. host' = [x \in Provider |->
                       IF believes(x)
                         THEN [host[x] EXCEPT !.input_buffer = Buffered(x, packet.records)]
                         ELSE host[x]]
        BY <2>1 DEF Receive
      <3> HIDE DEF believes
      <3>2. host[p] \in HostOf(p)
        BY DEF Types
      <3> QED
        BY <3>1, <3>2 DEF HostOf
    <2>2. CASE HandleRequest \/ Lose
      <3>1. host' = host
        BY <2>2, Zenon DEF HandleRequest, HandleRegister, HandleRead, HandleWrite, Lose
      <3> QED
        BY <3>1
    <2> QED
      BY <2>1, <2>2
  <1> HIDE DEF Good
  <1>3. ASSUME NEW i \in DOMAIN to_bridge', to_bridge'[i].cmd = "DeltaRead"
        PROVE  Good(to_bridge'[i].seq)
    <2>1. to_bridge' = to_bridge \/ (to_bridge # <<>> /\ to_bridge' = Tail(to_bridge))
      BY DEF HandleRequest, HandleRegister, HandleRead, HandleWrite, Lose, Receive
    <2>2. CASE to_bridge' = to_bridge
      BY <1>1, <1>3, <2>2
    <2>3. CASE to_bridge # <<>> /\ to_bridge' = Tail(to_bridge)
      <3>1. /\ Len(to_bridge) \in Nat /\ DOMAIN to_bridge = 1 .. Len(to_bridge)
            /\ DOMAIN Tail(to_bridge) = 1 .. Len(to_bridge) - 1
            /\ \A k \in 1 .. Len(to_bridge) - 1 : Tail(to_bridge)[k] = to_bridge[k + 1]
        BY <1>1, <2>3, TailIndex
      <3>2. i + 1 \in DOMAIN to_bridge /\ to_bridge'[i] = to_bridge[i + 1]
        BY <1>3, <2>3, <3>1
      <3> QED
        BY <1>1, <1>3, <3>2
    <2> QED
      BY <2>1, <2>2, <2>3
  <1>4. ASSUME NEW i \in DOMAIN to_host', to_host'[i].cmd \in News
        PROVE  Good(to_host'[i].seq)
    <2>1. ASSUME NEW u \in Response, to_host' = Append(to_host, u), u.cmd \in News => Good(u.seq)
          PROVE  Good(to_host'[i].seq)
      <3>1. /\ Len(to_host) \in Nat /\ DOMAIN to_host = 1 .. Len(to_host)
            /\ DOMAIN Append(to_host, u) = 1 .. Len(to_host) + 1
            /\ Append(to_host, u)[Len(to_host) + 1] = u
            /\ \A k \in 1 .. Len(to_host) : Append(to_host, u)[k] = to_host[k]
        BY <1>1, AppendIndex
      <3>2. i \in 1 .. Len(to_host) \/ i = Len(to_host) + 1
        BY <1>4, <2>1, <3>1
      <3> QED
        BY <1>1, <1>4, <2>1, <3>1, <3>2
    <2>2. CASE to_host' = to_host
      BY <1>1, <1>4, <2>2
    <2>3. CASE to_host # <<>> /\ to_host' = Tail(to_host)
      <3>1. /\ Len(to_host) \in Nat /\ DOMAIN to_host = 1 .. Len(to_host)
            /\ DOMAIN Tail(to_host) = 1 .. Len(to_host) - 1
            /\ \A k \in 1 .. Len(to_host) - 1 : Tail(to_host)[k] = to_host[k + 1]
        BY <1>1, <2>3, TailIndex
      <3>2. i + 1 \in DOMAIN to_host /\ to_host'[i] = to_host[i + 1]
        BY <1>4, <2>3, <3>1
      <3> QED
        BY <1>1, <1>4, <3>2
    <2>4. CASE HandleRead
      <3>1. to_host' = to_host
            \/ \E u \in Response : to_host' = Append(to_host, u) /\ u.seq = Head(to_bridge).seq
        BY <2>4, ReadAnswered
      <3>2. to_bridge # <<>> /\ Head(to_bridge).cmd = "DeltaRead"
        BY <2>4 DEF HandleRead
      <3>3. Head(to_bridge) = to_bridge[1] /\ 1 \in DOMAIN to_bridge
        BY <1>1, <3>2, TailIndex
      <3>4. Good(Head(to_bridge).seq)
        BY <1>1, <3>2, <3>3
      <3> QED
        BY <2>1, <2>2, <3>1, <3>4
    <2>5. CASE HandleWrite
      <3> DEFINE u == [cmd |-> "WriteAck", seq |-> Head(to_bridge).seq]
      <3>1. to_host' = Append(to_host, u)
        BY <2>5 DEF HandleWrite
      <3>2. u \in Response
        BY <2>5, QueueFacts, PacketFacts DEF HandleWrite, Types, Response
      <3>3. u.cmd \notin News
        BY DEF News
      <3> HIDE DEF u
      <3> QED
        BY <2>1, <3>1, <3>2, <3>3
    <2>6. CASE HandleRegister \/ Lose \/ Receive
      BY <2>2, <2>3, <2>6 DEF HandleRegister, Lose, Receive
    <2> QED
      BY <2>4, <2>5, <2>6 DEF HandleRequest
  <1> QED
    BY <1>2, <1>3, <1>4 DEF Fresh, IsStale, Good

\* After a registration every variable of the document has a new entry.
LEMMA RegistersAll ==
  ASSUME Types, Budget, RoomForAll, NamesAll, NEW p \in Provider, HandleRegister
  PROVE  \A m \in Inputs(p) : NeverSent(bridge'.table, m.var)
  <1> DEFINE q == to_bridge
             names == Head(q).names
             new == Added(bridge.table, names)
  <1>1. /\ q # <<>> /\ Head(q).cmd = "RegisterNames" /\ bridge'.table = new
    BY DEF HandleRegister, Types
  <1>2. names \in Names
    BY <1>1, QueueFacts, PacketFacts DEF Types
  <1>3. Len(bridge.table) + Len(names) <= MaxDeltaVars
    BY RegistrationFits
  <1>4. Head(q) = q[1] /\ 1 \in DOMAIN q
    BY <1>1, TailIndex DEF Types
  <1>5. \A m \in Inputs(p) : m.var \in ToSet(names)
    BY <1>1, <1>4, MappingFacts DEF NamesAll
  <1> HIDE DEF new, names
  <1>6. bridge.table \in Seq(TableEntry)
    BY DEF Types
  <1>7. \A v \in ToSet(names) : \E i \in DOMAIN new : new[i].var = v /\ ~new[i].valid
    BY <1>2, <1>3, <1>6, AddedFacts DEF new
  <1> QED
    BY <1>1, <1>5, <1>7 DEF NeverSent

\* The last registration is handled before any read that follows it.
LEMMA WaitingServed ==
  ASSUME Types, Budget, RoomForAll, "RegisterNames" \notin Lossy, NamesAll,
         NEW p \in Provider, Waiting(p), HandleRequest \/ Lose
  PROVE  Waiting(p)'
  <1> DEFINE q == to_bridge
             Later == \E i \in DOMAIN q :
                        /\ q[i].cmd = "RegisterNames"
                        /\ \A j \in DOMAIN q : j > i => q[j].cmd # "DeltaRead"
             Done == /\ \A i \in DOMAIN q : q[i].cmd # "DeltaRead"
                     /\ \A m \in Inputs(p) : NeverSent(bridge.table, m.var)
  <1>0. q \in Seq(Request) /\ (Later \/ Done)
    BY DEF Types, Waiting
  <1>1. to_bridge' = q \/ (q # <<>> /\ to_bridge' = Tail(q))
    BY DEF HandleRequest, HandleRegister, HandleRead, HandleWrite, Lose
  <1>2. CASE HandleRegister
    <2>1. /\ q # <<>> /\ Head(q).cmd = "RegisterNames" /\ to_bridge' = Tail(q)
      BY <1>2 DEF HandleRegister
    <2>2. /\ Len(q) \in Nat /\ Len(q) >= 1 /\ DOMAIN q = 1 .. Len(q)
          /\ DOMAIN Tail(q) = 1 .. Len(q) - 1 /\ Head(q) = q[1]
          /\ \A i \in 1 .. Len(q) - 1 : Tail(q)[i] = q[i + 1]
      BY <1>0, <2>1, TailIndex
    <2>3. \A m \in Inputs(p) : NeverSent(bridge'.table, m.var)
      BY <1>2, RegistersAll
    <2>4. CASE \A i \in DOMAIN Tail(q) : Tail(q)[i].cmd # "DeltaRead"
      BY <2>1, <2>3, <2>4 DEF Waiting
    <2>5. ASSUME NEW k \in DOMAIN Tail(q), Tail(q)[k].cmd = "DeltaRead"
          PROVE  Waiting(p)'
      <3>1. k + 1 \in DOMAIN q /\ q[k + 1].cmd = "DeltaRead" /\ k + 1 > 1
        BY <2>2, <2>5
      <3>2. PICK i \in DOMAIN q : /\ q[i].cmd = "RegisterNames"
                                  /\ \A j \in DOMAIN q : j > i => q[j].cmd # "DeltaRead"
        BY <1>0, <3>1
      <3>3. i # 1
        BY <3>1, <3>2
      <3>4. i - 1 \in DOMAIN Tail(q) /\ Tail(q)[i - 1] = q[i]
        BY <2>2, <3>3
      <3>5. ASSUME NEW j \in DOMAIN Tail(q), j > i - 1
            PROVE  Tail(q)[j].cmd # "DeltaRead"
        <4>1. j + 1 \in DOMAIN q /\ j + 1 > i /\ Tail(q)[j] = q[j + 1]
          BY <2>2, <3>5
        <4> QED
          BY <3>2, <4>1
      <3> QED
        BY <2>1, <3>2, <3>4, <3>5 DEF Waiting
    <2> QED
      BY <2>4, <2>5
  <1>3. CASE ~HandleRegister /\ to_bridge' # q
    <2>1. q # <<>> /\ to_bridge' = Tail(q) /\ Head(q).cmd # "RegisterNames"
      <3>1. CASE HandleRead \/ HandleWrite
        BY <3>1 DEF HandleRead, HandleWrite
      <3>2. CASE Lose
        BY <1>3, <3>2 DEF Lose
      <3> QED
        BY <1>3, <3>1, <3>2 DEF HandleRequest
    <2>2. /\ Len(q) \in Nat /\ Len(q) >= 1 /\ DOMAIN q = 1 .. Len(q)
          /\ DOMAIN Tail(q) = 1 .. Len(q) - 1 /\ Head(q) = q[1]
          /\ \A i \in 1 .. Len(q) - 1 : Tail(q)[i] = q[i + 1]
      BY <1>0, <2>1, TailIndex
    <2>3. CASE Later
      <3>1. PICK i \in DOMAIN q : /\ q[i].cmd = "RegisterNames"
                                  /\ \A j \in DOMAIN q : j > i => q[j].cmd # "DeltaRead"
        BY <2>3
      <3>2. i # 1
        BY <2>1, <2>2, <3>1
      <3>3. i - 1 \in DOMAIN Tail(q) /\ Tail(q)[i - 1] = q[i]
        BY <2>2, <3>2
      <3>4. ASSUME NEW j \in DOMAIN Tail(q), j > i - 1
            PROVE  Tail(q)[j].cmd # "DeltaRead"
        <4>1. j + 1 \in DOMAIN q /\ j + 1 > i /\ Tail(q)[j] = q[j + 1]
          BY <2>2, <3>4
        <4> QED
          BY <3>1, <4>1
      <3> QED
        BY <2>1, <3>1, <3>3, <3>4 DEF Waiting
    <2>4. CASE Done
      <3>1. Head(q).cmd # "DeltaRead"
        BY <2>2, <2>4
      <3>2. ~HandleRead
        BY <3>1 DEF HandleRead
      <3>3. bridge' = bridge
        BY <1>3, <3>2 DEF HandleRequest, HandleWrite, Lose
      <3>4. \A i \in DOMAIN Tail(q) : i + 1 \in DOMAIN q /\ Tail(q)[i] = q[i + 1]
        BY <2>2
      <3>5. \A i \in DOMAIN Tail(q) : Tail(q)[i].cmd # "DeltaRead"
        BY <2>4, <3>4
      <3> QED
        BY <2>1, <2>4, <3>3, <3>5 DEF Waiting
    <2> QED
      BY <1>0, <2>3, <2>4
  <1>4. CASE ~HandleRegister /\ to_bridge' = q
    <2>1. ~HandleRead /\ ~HandleWrite
      <3>1. ASSUME q # <<>> PROVE Tail(q) # q
        <4>1. Len(Tail(q)) # Len(q)
          BY <1>0, <3>1
        <4> QED
          BY <4>1
      <3> QED
        BY <1>4, <3>1 DEF HandleRead, HandleWrite
    <2>2. bridge' = bridge
      BY <1>4, <2>1 DEF HandleRequest, Lose
    <2> QED
      BY <1>0, <1>4, <2>2 DEF Waiting
  <1> QED
    BY <1>2, <1>3, <1>4

LEMMA TimelyStep ==
  ASSUME Types, Budget, RoomForAll, UpdatesArrive, NamesAll, NEW P, Provider = {P},
         P \in ToSet(providers) => Fresh(P) \/ Waiting(P), [Next]_vars,
         P \in ToSet(providers')
  PROVE  (Fresh(P) \/ Waiting(P))'
  <1>0. \A p \in Provider : p = P
    OBVIOUS
  <1>1. ASSUME UNCHANGED <<providers, host, bridge, to_bridge, to_host>>
        PROVE  (Fresh(P) \/ Waiting(P))'
    <2>1. CASE Fresh(P)
      BY <1>1, <2>1 DEF Fresh, IsStale
    <2>2. CASE Waiting(P)
      BY <1>1, <2>2 DEF Waiting
    <2> QED
      BY <1>1, <2>1, <2>2
  <1>2. CASE Start(P)
    <2> DEFINE r == [cmd |-> "RegisterNames", names |-> RegisteredNames(providers')]
               q == to_bridge
    <2>1. /\ providers' = Append(Others(P), P) /\ to_bridge' = Append(q, r)
      BY <1>2 DEF Start
    <2>2. r \in Request /\ r.cmd = "RegisterNames" /\ q \in Seq(Request)
      BY <2>1, OthersFacts, NamesFacts DEF Request, Types
    <2> HIDE DEF r, q
    <2>3. /\ Len(q) \in Nat /\ DOMAIN Append(q, r) = 1 .. Len(q) + 1
          /\ Append(q, r)[Len(q) + 1] = r
      BY <2>2, AppendIndex
    <2>4. Len(q) + 1 \in DOMAIN Append(q, r) /\ \A j \in DOMAIN Append(q, r) : ~(j > Len(q) + 1)
      BY <2>3
    <2> QED
      BY <2>1, <2>2, <2>3, <2>4 DEF Waiting
  <1>3. ~Stop(P)
    <2> SUFFICES ASSUME Stop(P) PROVE FALSE
      OBVIOUS
    <2>1. providers' = <<>>
      BY Alone DEF Stop
    <2> QED
      BY <2>1 DEF ToSet
  <1>4. CASE Frame(P)
    BY <1>4, FreshFrame
  <1>5. CASE OutputVaries(P) \/ SimVaries
    BY <1>1, <1>5 DEF OutputVaries, SimVaries
  <1>6. CASE Receive
    <2>1. providers' = providers /\ bridge' = bridge /\ to_bridge' = to_bridge
      BY <1>6 DEF Receive
    <2>2. CASE Fresh(P)
      BY <1>6, <2>2, FreshServed
    <2>3. CASE Waiting(P)
      BY <2>1, <2>3 DEF Waiting
    <2> QED
      BY <2>1, <2>2, <2>3
  <1>7. CASE HandleRequest \/ Lose
    <2>1. providers' = providers
      BY <1>7, Zenon DEF HandleRequest, HandleRegister, HandleRead, HandleWrite, Lose
    <2>2. CASE Fresh(P)
      BY <1>7, <2>2, FreshServed
    <2>3. CASE Waiting(P)
      BY <1>7, <2>3, WaitingServed DEF UpdatesArrive
    <2> QED
      BY <2>1, <2>2, <2>3
  <1>8. ~BridgeRestarts
    BY DEF BridgeRestarts, UpdatesArrive
  <1>9. CASE UNCHANGED vars
    BY <1>1, <1>9 DEF vars
  <1> QED
    BY <1>0, <1>2, <1>3, <1>4, <1>5, <1>6, <1>7, <1>8, <1>9 DEF Next

\* What the bridge says in answer to a read is what its table says it said.
LEMMA AgreedRead ==
  ASSUME Types, NEW p \in Provider, Agreed(p), HandleRead
  PROVE  Agreed(p)'
  <1> DEFINE table == bridge.table
             buffer(m) == host[p].input_buffer[m.signal]
  <1>1. PICK S \in SUBSET DOMAIN table :
          /\ DOMAIN bridge'.table = DOMAIN table
          /\ \A i \in DOMAIN table :
               bridge'.table[i] = IF i \in S THEN Sent(table[i]) ELSE table[i]
          /\ \A i \in S : \A j \in DOMAIN table \ S :
               table[j].var = table[i].var =>
                 ~FloatChanged(Read(table[j].var), table[j].last_sent, table[j].epsilon)
          /\ \/ to_host' = to_host /\ S = {}
             \/ \E u \in Response :
                  /\ to_host' = Append(to_host, u) /\ u.cmd \in News
                  /\ u.seq = Head(to_bridge).seq
                  /\ u.records = {[var |-> table[i].var, value |-> Read(table[i].var)] : i \in S}
    BY ReadAnswered
  <1>2. host' = host /\ to_host \in Seq(Response)
    BY DEF HandleRead, Types
  <1>3. OnItsWay(to_bridge, {"RegisterNames"}) => OnItsWay(to_bridge', {"RegisterNames"})
    <2>1. /\ to_bridge # <<>> /\ Head(to_bridge).cmd = "DeltaRead" /\ to_bridge' = Tail(to_bridge)
      BY DEF HandleRead
    <2>2. /\ Len(to_bridge) \in Nat /\ DOMAIN to_bridge = 1 .. Len(to_bridge)
          /\ DOMAIN Tail(to_bridge) = 1 .. Len(to_bridge) - 1 /\ Head(to_bridge) = to_bridge[1]
          /\ \A i \in 1 .. Len(to_bridge) - 1 : Tail(to_bridge)[i] = to_bridge[i + 1]
      BY <2>1, TailIndex DEF Types
    <2>3. ASSUME NEW i \in DOMAIN to_bridge, to_bridge[i].cmd = "RegisterNames"
          PROVE  i - 1 \in DOMAIN Tail(to_bridge) /\ Tail(to_bridge)[i - 1] = to_bridge[i]
      <3>1. i # 1
        BY <2>1, <2>2, <2>3
      <3> QED
        BY <2>2, <3>1
    <2> QED
      BY <2>1, <2>3 DEF OnItsWay
  <1>4. \A i \in DOMAIN table :
          /\ table[i] \in TableEntry
          /\ Sent(table[i]).var = table[i].var /\ Sent(table[i]).valid
          /\ Sent(table[i]).last_sent = Read(table[i].var)
          /\ Sent(table[i]).epsilon = table[i].epsilon
          /\ Read(table[i].var) \in Nat /\ table[i].epsilon \in Nat
    <2>1. \A i \in DOMAIN table : table[i] \in TableEntry
      BY DEF Types
    <2>2. \A e \in TableEntry : e.var \in Variable /\ e.epsilon \in Nat
      BY SimConnectLinkAssumption DEF TableEntry
    <2> QED
      BY <2>1, <2>2, SentFacts, ReadNat
  <1> HIDE DEF table
  <1>5. ASSUME NEW m \in Inputs(p), IsTarget(p, m.var, m.signal),
               ~OnItsWay(to_bridge', {"RegisterNames"}), ~NeverSent(bridge'.table, m.var),
               NEW i \in DOMAIN table, table[i].var = m.var
        PROVE  LastWord(to_host', News, m.var, buffer(m), Close(bridge'.table[i]))
    <2>1. ASSUME NEW k \in S, table[k].var = m.var
          PROVE  LastWord(to_host', News, m.var, buffer(m), Close(bridge'.table[i]))
      <3>1. PICK u \in Response :
              /\ to_host' = Append(to_host, u) /\ u.cmd \in News
              /\ u.records = {[var |-> table[j].var, value |-> Read(table[j].var)] : j \in S}
        BY <1>1, <2>1
      <3>2. Carries(u, News, m.var)
        <4> DEFINE r == [var |-> table[k].var, value |-> Read(table[k].var)]
        <4>1. r \in u.records /\ r.var = m.var
          BY <2>1, <3>1
        <4> QED
          BY <3>1, <4>1 DEF Carries
      <3>3. Read(m.var) \in Close(bridge'.table[i])
        <4>1. CASE i \in S
          BY <1>1, <1>4, <1>5, <4>1, NoChange DEF Close
        <4>2. CASE i \notin S
          BY <1>1, <1>4, <1>5, <2>1, <4>2 DEF Close
        <4> QED
          BY <4>1, <4>2
      <3>4. \A r \in u.records : r.var = m.var => r.value \in Close(bridge'.table[i])
        BY <3>1, <3>3
      <3> QED
        BY <1>2, <3>1, <3>2, <3>4, AppendWord
    <2>2. ASSUME \A k \in S : table[k].var # m.var
          PROVE  LastWord(to_host', News, m.var, buffer(m), Close(bridge'.table[i]))
      <3>1. bridge'.table[i] = table[i]
        BY <1>1, <1>5, <2>2
      <3>2. ~NeverSent(table, m.var)
        <4>1. \A j \in DOMAIN table : table[j].var = m.var => bridge'.table[j] = table[j]
          BY <1>1, <2>2
        <4> QED
          BY <1>1, <1>5, <4>1 DEF NeverSent
      <3>3. LastWord(to_host, News, m.var, buffer(m), Close(table[i]))
        BY <1>3, <1>5, <3>2 DEF Agreed, table
      <3>4. CASE to_host' = to_host
        BY <3>1, <3>3, <3>4
      <3>5. ASSUME NEW u \in Response, to_host' = Append(to_host, u),
                   u.records = {[var |-> table[j].var, value |-> Read(table[j].var)] : j \in S}
            PROVE  LastWord(to_host', News, m.var, buffer(m), Close(bridge'.table[i]))
        <4>1. ~Carries(u, News, m.var)
          BY <2>2, <3>5 DEF Carries
        <4> QED
          BY <1>2, <3>1, <3>3, <3>5, <4>1, AppendQuiet
      <3> QED
        BY <1>1, <3>4, <3>5
    <2> QED
      BY <2>1, <2>2
  <1>6. ASSUME NEW m \in Inputs(p), IsTarget(p, m.var, m.signal),
               ~OnItsWay(to_bridge', {"RegisterNames"}), ~NeverSent(bridge'.table, m.var),
               NEW i \in DOMAIN bridge'.table, bridge'.table[i].var = m.var
        PROVE  LastWord(to_host', News, m.var, buffer(m), Close(bridge'.table[i]))
    <2>1. i \in DOMAIN table /\ table[i].var = m.var
      BY <1>1, <1>4, <1>6
    <2> QED
      BY <1>5, <1>6, <2>1
  <1> QED
    BY <1>2, <1>6 DEF Agreed

\* A response that is polled while none is stale is taken over.
LEMMA AgreedReceive ==
  ASSUME Types, AllOneValue, SignalsApart, NEW p \in Provider, p \in ToSet(providers), Agreed(p),
         Fresh(p) \/ Waiting(p), Receive
  PROVE  Agreed(p)'
  <1> DEFINE packet == Head(to_host)
             buffer(m) == host[p].input_buffer[m.signal]
             believes(x) == /\ Contains(providers, x)
                            /\ packet.cmd \in {"DeltaUpdate", "FullSync"}
                            /\ ~IsStale(x, packet.seq)
  <1>1. /\ to_host # <<>> /\ to_host' = Tail(to_host) /\ bridge' = bridge /\ to_bridge' = to_bridge
        /\ host' = [x \in Provider |->
                      IF believes(x)
                        THEN [host[x] EXCEPT !.input_buffer = Buffered(x, packet.records)]
                        ELSE host[x]]
    BY DEF Receive
  <1>2. to_host \in Seq(Response) /\ host[p] \in HostOf(p)
    BY DEF Types
  <1>3. packet = to_host[1] /\ 1 \in DOMAIN to_host
    BY <1>1, <1>2, TailIndex
  <1>4. Contains(providers, p)
    BY DEF Contains, ToSet
  <1> HIDE DEF packet
  <1> SUFFICES ASSUME NEW m \in Inputs(p), IsTarget(p, m.var, m.signal),
                      ~OnItsWay(to_bridge, {"RegisterNames"}), ~NeverSent(bridge.table, m.var),
                      NEW i \in DOMAIN bridge.table, bridge.table[i].var = m.var
               PROVE  LastWord(Tail(to_host), News, m.var, host'[p].input_buffer[m.signal],
                               Close(bridge.table[i]))
    BY <1>1 DEF Agreed
  <1>5. ~Waiting(p)
    BY DEF Waiting, OnItsWay
  <1>6. LastWord(to_host, News, m.var, buffer(m), Close(bridge.table[i]))
    BY DEF Agreed
  <1>7. m.signal \in DOMAIN host[p].input_buffer
    BY <1>2 DEF HostOf, SignalsOf
  <1>8. CASE packet.cmd \in News
    <2>1. believes(p)
      BY <1>3, <1>4, <1>5, <1>8 DEF Fresh, News
    <2>2. host'[p].input_buffer[m.signal] = Buffered(p, packet.records)[m.signal]
      <3>1. host'[p] = [host[p] EXCEPT !.input_buffer = Buffered(p, packet.records)]
        BY <1>1, <2>1
      <3> QED
        BY <1>2, <3>1 DEF HostOf
    <2>3. Buffered(p, packet.records)[m.signal] =
            IF \E r \in packet.records : IsTarget(p, r.var, m.signal)
              THEN (CHOOSE r \in packet.records : IsTarget(p, r.var, m.signal)).value
              ELSE buffer(m)
      BY <1>7 DEF Buffered
    <2>4. \A r \in packet.records : IsTarget(p, r.var, m.signal) <=> r.var = m.var
      <3>1. ASSUME NEW r \in packet.records, IsTarget(p, r.var, m.signal)
            PROVE  r.var = m.var
        <4>1. PICK k \in DOMAIN Mappings[p] :
                Mappings[p][k].var = r.var /\ Mappings[p][k].signal = m.signal
          BY <3>1 DEF IsTarget
        <4>2. Mappings[p][k] \in MappingsOf(p) /\ m \in MappingsOf(p)
          BY MappingFacts DEF MappingsOf, ToSet
        <4> QED
          BY <4>1, <4>2 DEF SignalsApart
      <3> QED
        BY <3>1
    <2>5. CASE \E r \in packet.records : r.var = m.var
      <3> DEFINE c == CHOOSE r \in packet.records : IsTarget(p, r.var, m.signal)
      <3>1. c \in packet.records /\ c.var = m.var
        BY <2>4, <2>5
      <3>2. host'[p].input_buffer[m.signal] = c.value
        BY <2>2, <2>3, <2>4, <2>5
      <3> HIDE DEF c
      <3>3. \A r \in packet.records : r.var = m.var => r.value = c.value
        BY <1>3, <1>8, <3>1 DEF AllOneValue, OneValue
      <3>4. Carries(packet, News, m.var)
        BY <1>8, <2>5 DEF Carries
      <3> HIDE DEF buffer
      <3>5. LastWord(Tail(to_host), News, m.var, c.value, Close(bridge.table[i]))
        BY <1>1, <1>2, <1>6, <3>3, <3>4, TailWord DEF packet
      <3> QED
        BY <3>2, <3>5
    <2>6. CASE ~(\E r \in packet.records : r.var = m.var)
      <3>1. host'[p].input_buffer[m.signal] = buffer(m)
        BY <2>2, <2>3, <2>4, <2>6
      <3>2. ~Carries(packet, News, m.var)
        BY <2>6 DEF Carries
      <3>3. LastWord(Tail(to_host), News, m.var, buffer(m), Close(bridge.table[i]))
        <4> HIDE DEF buffer
        <4> QED
          BY <1>1, <1>2, <1>6, <3>2, TailQuiet DEF packet
      <3> QED
        BY <3>1, <3>3
    <2> QED
      BY <2>5, <2>6
  <1>9. CASE packet.cmd \notin News
    <2>1. host'[p] = host[p]
      BY <1>1, <1>9 DEF News
    <2>2. ~Carries(packet, News, m.var)
      BY <1>9 DEF Carries
    <2>3. LastWord(Tail(to_host), News, m.var, buffer(m), Close(bridge.table[i]))
      <3> HIDE DEF buffer
      <3> QED
        BY <1>1, <1>2, <1>6, <2>2, TailQuiet DEF packet
    <2> QED
      BY <2>1, <2>3
  <1> QED
    BY <1>8, <1>9

\* The other steps: the table, the buffer and the responses about variables stay.
LEMMA AgreedStays ==
  ASSUME Types, NEW p \in Provider, Agreed(p),
         host'[p].input_buffer = host[p].input_buffer, bridge' = bridge,
         OnItsWay(to_bridge, {"RegisterNames"}) => OnItsWay(to_bridge', {"RegisterNames"}),
         \/ to_host' = to_host
         \/ to_host # <<>> /\ Head(to_host).cmd \notin News /\ to_host' = Tail(to_host)
         \/ \E u \in Response : u.cmd \notin News /\ to_host' = Append(to_host, u)
  PROVE  Agreed(p)'
  <1>1. ASSUME NEW m \in Inputs(p), IsTarget(p, m.var, m.signal),
               ~OnItsWay(to_bridge', {"RegisterNames"}), ~NeverSent(bridge.table, m.var),
               NEW i \in DOMAIN bridge.table, bridge.table[i].var = m.var
        PROVE  LastWord(to_host', News, m.var, host[p].input_buffer[m.signal],
                        Close(bridge.table[i]))
    <2> DEFINE base == host[p].input_buffer[m.signal]
               X == Close(bridge.table[i])
    <2>1. LastWord(to_host, News, m.var, base, X)
      BY <1>1 DEF Agreed
    <2> HIDE DEF base, X
    <2>2. to_host \in Seq(Response)
      BY DEF Types
    <2>3. CASE to_host # <<>> /\ Head(to_host).cmd \notin News /\ to_host' = Tail(to_host)
      <3>1. ~Carries(Head(to_host), News, m.var)
        BY <2>3 DEF Carries
      <3>2. LastWord(Tail(to_host), News, m.var, base, X)
        BY <2>1, <2>2, <2>3, <3>1, TailQuiet
      <3> QED
        BY <2>3, <3>2 DEF base, X
    <2>4. ASSUME NEW u \in Response, u.cmd \notin News, to_host' = Append(to_host, u)
          PROVE  LastWord(to_host', News, m.var, base, X)
      <3>1. ~Carries(u, News, m.var)
        BY <2>4 DEF Carries
      <3>2. LastWord(Append(to_host, u), News, m.var, base, X)
        BY <2>1, <2>2, <3>1, AppendQuiet
      <3> QED
        BY <2>4, <3>2
    <2>5. LastWord(to_host', News, m.var, base, X)
      BY <2>1, <2>3, <2>4 DEF base, X
    <2> QED
      BY <2>5 DEF base, X
  <1> QED
    BY <1>1 DEF Agreed

LEMMA AgreedStep ==
  ASSUME Types, Budget, RoomForAll, UpdatesArrive, SignalsApart, NamesAll, AllOneValue,
         NEW P, Provider = {P},
         P \in ToSet(providers) => (Fresh(P) \/ Waiting(P)) /\ Agreed(P),
         [Next]_vars, P \in ToSet(providers')
  PROVE  Agreed(P)'
  <1>0. /\ \A p \in Provider : p = P
        /\ P \in Provider /\ to_bridge \in Seq(Request)
    BY DEF Types
  <1>1. ASSUME OnItsWay(to_bridge', {"RegisterNames"})
        PROVE  Agreed(P)'
    BY <1>1 DEF Agreed
  <1>2. CASE Start(P)
    <2> DEFINE r == [cmd |-> "RegisterNames", names |-> RegisteredNames(providers')]
               q == to_bridge
    <2>1. /\ providers' = Append(Others(P), P) /\ to_bridge' = Append(q, r)
      BY <1>2 DEF Start
    <2>2. r \in Request /\ r.cmd = "RegisterNames"
      BY <2>1, OthersFacts, NamesFacts DEF Request
    <2> HIDE DEF r, q
    <2>3. Len(q) + 1 \in DOMAIN Append(q, r) /\ Append(q, r)[Len(q) + 1] = r
      BY <1>0, <2>2, AppendIndex DEF q
    <2> QED
      BY <1>1, <2>1, <2>2, <2>3 DEF OnItsWay
  <1>3. ~Stop(P)
    <2> SUFFICES ASSUME Stop(P) PROVE FALSE
      OBVIOUS
    <2>1. providers' = <<>>
      BY Alone DEF Stop
    <2> QED
      BY <2>1 DEF ToSet
  <1>4. CASE Frame(P)
    <2> DEFINE q == to_bridge
               requests == ReadRequest(P) \o WriteRequest(P)
    <2>1. /\ bridge' = bridge /\ to_host' = to_host /\ providers' = providers
          /\ host'[P] = Extracted(Requested(host[P], P), P)
          /\ to_bridge' = q \o requests
      BY <1>4 DEF Frame, Types
    <2>2. host'[P].input_buffer = host[P].input_buffer
      <3>1. host[P] \in HostOf(P)
        BY DEF Types
      <3> QED
        BY <2>1, <3>1, RequestedTyped, ExtractedTyped
    <2>3. OnItsWay(q, {"RegisterNames"}) => OnItsWay(to_bridge', {"RegisterNames"})
      <3>1. requests \in Seq(Request)
        <4> DEFINE rr == ReadRequest(P)
                   ww == WriteRequest(P)
        <4> DEFINE r == ReadPacket(P)
                   w == WritePacket(P)
        <4>0. /\ r \in Request /\ w \in Request
              /\ rr = (IF Inputs(P) = {} THEN <<>> ELSE <<r>>)
              /\ ww = (IF Moved(P) = {} THEN <<>> ELSE <<w>>)
          BY <1>0, ReadRequestTyped, WriteRequestTyped
        <4> HIDE DEF r, w
        <4> HIDE DEF rr, ww
        <4>1. <<>> \in Seq(Request) /\ <<r>> \in Seq(Request) /\ <<w>> \in Seq(Request)
          BY <4>0
        <4>2. rr \in Seq(Request) /\ ww \in Seq(Request)
          BY <4>0, <4>1, Zenon
        <4>3. rr \o ww \in Seq(Request)
          BY <4>2
        <4> QED
          BY <4>3 DEF rr, ww
      <3> HIDE DEF requests
      <3>2. \A i \in DOMAIN q : i \in DOMAIN (q \o requests) /\ (q \o requests)[i] = q[i]
        BY <1>0, <3>1
      <3> QED
        BY <2>1, <3>2 DEF OnItsWay
    <2> QED
      BY <2>1, <2>2, <2>3, AgreedStays
  <1>5. CASE OutputVaries(P) \/ SimVaries
    <2>1. UNCHANGED <<providers, host, bridge, to_bridge, to_host>>
      BY <1>5 DEF OutputVaries, SimVaries
    <2> QED
      BY <1>0, <2>1, AgreedStays
  <1>6. CASE Receive
    <2>1. providers' = providers
      BY <1>6 DEF Receive
    <2> QED
      BY <1>0, <1>6, <2>1, AgreedReceive
  <1>7. CASE HandleRegister
    <2>1. \A m \in Inputs(P) : NeverSent(bridge'.table, m.var)
      BY <1>0, <1>7, RegistersAll
    <2> QED
      BY <2>1 DEF Agreed
  <1>8. CASE HandleRead
    <2>1. providers' = providers
      BY <1>8 DEF HandleRead
    <2> QED
      BY <1>0, <1>8, <2>1, AgreedRead
  <1>9. ASSUME to_bridge # <<>>, Head(to_bridge).cmd # "RegisterNames", to_bridge' = Tail(to_bridge),
               OnItsWay(to_bridge, {"RegisterNames"})
        PROVE  OnItsWay(to_bridge', {"RegisterNames"})
    <2>1. /\ Len(to_bridge) \in Nat /\ DOMAIN to_bridge = 1 .. Len(to_bridge)
          /\ DOMAIN Tail(to_bridge) = 1 .. Len(to_bridge) - 1 /\ Head(to_bridge) = to_bridge[1]
          /\ \A i \in 1 .. Len(to_bridge) - 1 : Tail(to_bridge)[i] = to_bridge[i + 1]
      BY <1>0, <1>9, TailIndex
    <2>2. PICK i \in DOMAIN to_bridge : to_bridge[i].cmd = "RegisterNames"
      BY <1>9 DEF OnItsWay
    <2>3. i # 1
      BY <1>9, <2>1, <2>2
    <2>4. i - 1 \in DOMAIN Tail(to_bridge) /\ Tail(to_bridge)[i - 1] = to_bridge[i]
      BY <2>1, <2>3
    <2> QED
      BY <1>9, <2>2, <2>4 DEF OnItsWay
  <1>10. CASE HandleWrite
    <2> DEFINE u == [cmd |-> "WriteAck", seq |-> Head(to_bridge).seq]
    <2>1. /\ providers' = providers /\ host' = host /\ bridge' = bridge
          /\ to_host' = Append(to_host, u) /\ to_bridge # <<>>
          /\ Head(to_bridge).cmd = "DeltaWrite" /\ to_bridge' = Tail(to_bridge)
      BY <1>10 DEF HandleWrite
    <2>2. u \in Response
      BY <2>1, QueueFacts, PacketFacts DEF Types, Response
    <2>3. u.cmd \notin News
      BY DEF News
    <2> HIDE DEF u
    <2> QED
      BY <1>0, <1>9, <2>1, <2>2, <2>3, AgreedStays
  <1>11. CASE Lose
    <2>1. /\ providers' = providers /\ host' = host /\ bridge' = bridge
          /\ \/ /\ to_bridge # <<>> /\ Head(to_bridge).cmd \in Lossy
                /\ to_bridge' = Tail(to_bridge) /\ to_host' = to_host
             \/ /\ to_host # <<>> /\ Head(to_host).cmd \in Lossy
                /\ to_host' = Tail(to_host) /\ to_bridge' = to_bridge
      BY <1>11 DEF Lose
    <2>2. "RegisterNames" \notin Lossy /\ \A c \in Lossy : c \notin News
      BY DEF UpdatesArrive
    <2>3. OnItsWay(to_bridge, {"RegisterNames"}) => OnItsWay(to_bridge', {"RegisterNames"})
      BY <1>9, <2>1, <2>2
    <2> QED
      BY <1>0, <2>1, <2>2, <2>3, AgreedStays
  <1>12. ~BridgeRestarts
    BY DEF BridgeRestarts, UpdatesArrive
  <1>13. CASE UNCHANGED vars
    <2>1. UNCHANGED <<providers, host, bridge, to_bridge, to_host>>
      BY <1>13 DEF vars
    <2> QED
      BY <1>0, <2>1, AgreedStays
  <1> QED
    BY <1>0, <1>2, <1>3, <1>4, <1>5, <1>6, <1>7, <1>8, <1>10, <1>11, <1>12, <1>13
       DEF Next, HandleRequest

LEMMA InputsInit ==
  ASSUME NEW P, Init
  PROVE  InputsInv(P)
  <1>1. Types /\ Budget
    BY TypesInit, BudgetInit
  <1>2. NamesAll /\ AllOneValue /\ P \notin ToSet(providers)
    BY DEF Init, NamesAll, AllOneValue, ToSet
  <1> QED
    BY <1>1, <1>2 DEF InputsInv

\* With no response on its way, the buffer itself is close.
LEMMA InputsSettle ==
  ASSUME NEW P, Provider = {P}, InputsInv(P)
  PROVE  InputShadowsAgree
  <1> SUFFICES ASSUME NEW p \in ToSet(providers), NEW m \in Inputs(p),
                      IsTarget(p, m.var, m.signal), ~OnItsWay(to_host, News),
                      ~OnItsWay(to_bridge, {"RegisterNames"}),
                      \A e \in EntriesOf(m.var) : e.valid,
                      NEW e \in EntriesOf(m.var)
               PROVE  ~FloatChanged(host[p].input_buffer[m.signal], e.last_sent, e.epsilon)
    BY DEF InputShadowsAgree, News
  <1>1. p = P
    BY DEF InputsInv, Types, ToSet
  <1>2. Agreed(p)
    BY <1>1 DEF InputsInv
  <1>3. ~NeverSent(bridge.table, m.var)
    BY DEF NeverSent, EntriesOf, ToSet
  <1>4. PICK i \in DOMAIN bridge.table : bridge.table[i] = e /\ e.var = m.var
    BY DEF EntriesOf, ToSet
  <1>5. LastWord(to_host, News, m.var, host[p].input_buffer[m.signal], Close(e))
    BY <1>2, <1>3, <1>4 DEF Agreed
  <1>6. \A j \in DOMAIN to_host : ~Carries(to_host[j], News, m.var)
    BY DEF OnItsWay, Carries
  <1> QED
    BY <1>5, <1>6 DEF LastWord, Close

\* Unless a report of the bridge or a registration is lost, what a document's
\* buffer holds is what the bridge believes it sent, up to the epsilon below
\* which it keeps quiet: through reads that are lost, simulations that stop and
\* are rebuilt, reads of an earlier simulation that are answered late, and
\* epochs that wrap around.
THEOREM ReportsArrive ==
  ASSUME NEW P, Provider = {P}, RoomForAll, SignalsApart, UpdatesArrive
  PROVE  Spec => []InputShadowsAgree
  <1>1. Init => InputsInv(P)
    BY InputsInit
  <1>2. InputsInv(P) /\ [Next]_vars => InputsInv(P)'
    <2> SUFFICES ASSUME InputsInv(P), [Next]_vars PROVE InputsInv(P)'
      OBVIOUS
    <2>1. /\ Types /\ Budget /\ NamesAll /\ AllOneValue
          /\ P \in ToSet(providers) => (Fresh(P) \/ Waiting(P)) /\ Agreed(P)
      BY DEF InputsInv
    <2>2. Types' /\ Budget' /\ NamesAll' /\ AllOneValue'
      BY <2>1, TypesStep, BudgetStep, NamesAllStep, OneValueStep
    <2>3. P \in ToSet(providers') => (Fresh(P) \/ Waiting(P))'
      BY <2>1, TimelyStep
    <2>4. P \in ToSet(providers') => Agreed(P)'
      BY <2>1, AgreedStep
    <2> QED
      BY <2>2, <2>3, <2>4 DEF InputsInv
  <1>3. InputsInv(P) => InputShadowsAgree
    BY InputsSettle
  <1> QED
    BY <1>1, <1>2, <1>3, PTL DEF Spec
=============================================================================
