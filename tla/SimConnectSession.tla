-------------------------- MODULE SimConnectSession --------------------------
(***************************************************************************)
(* How the open documents share one SimConnect session.  Every document    *)
(* has a SimvarProviderHost, which holds a SimConnectProvider while its    *)
(* simulation is built and remembers whether the user enabled the type;    *)
(* all providers use the one SimConnectCoordinator, which owns the client, *)
(* counts connections and registers the variables of all with the bridge.  *)
(*                                                                         *)
(* A provider object is a number that is never used again; 0 is none.  The *)
(* vector providers_, which add_provider keeps free of duplicates and      *)
(* whose order only the registration message shows, is a set.              *)
(***************************************************************************)
EXTENDS Integers, FiniteSets

CONSTANTS
  Document,   \* open documents
  MayFail,    \* TRUE where the flight simulator may be down or go down
  MaxBuilds   \* bound: providers built in all

ASSUME SimConnectSessionAssumption ==
  MayFail \in BOOLEAN /\ MaxBuilds \in Nat

VARIABLES
  enabled,      \* documents whose enabled_types_ has "simconnect"
  provider,     \* the provider each host holds, 0 if none
  built,        \* providers built so far
  coordinator,  \* providers_, connected_providers_, connect_count_,
                \* needs_reregister_, and client_: none, open, or lost (it
                \* exists, but is_connected() says no)
  registered    \* providers whose names reached the bridge (ghost)

sessionVars == <<enabled, provider, built, coordinator, registered>>

-----------------------------------------------------------------------------
(* The coordinator.                                                        *)

IsConnected(c) == c.client = "open"

RemoveProvider(c, p) ==
  IF p \in c.providers
    THEN [c EXCEPT !.providers = @ \ {p}, !.needs_reregister = TRUE]
    ELSE c

AddProvider(c, p) ==
  [c EXCEPT !.providers = @ \cup {p}, !.needs_reregister = TRUE]

(* Mutant: connect counts a provider that is already connected again.         *)
ConnectCountingTwice(c, p, up) ==
  IF c.connect_count = 0 /\ ~up THEN [c EXCEPT !.client = "none"]
  ELSE [c EXCEPT !.client = IF c.connect_count = 0 THEN "open" ELSE @,
                 !.needs_reregister = FALSE,
                 !.connected = @ \cup {p},
                 !.connect_count = @ + 1]

\* connect, when the client's own connect() would say `up`.
Connect(c, p, up) ==
  IF p \in c.connected THEN c
  ELSE IF c.connect_count = 0 /\ ~up THEN [c EXCEPT !.client = "none"]
  ELSE [c EXCEPT !.client = IF c.connect_count = 0 THEN "open" ELSE @,
                 !.needs_reregister = FALSE,
                 !.connected = @ \cup {p},
                 !.connect_count = @ + 1]

(* Mutant: only the first connection registers names.                         *)
NamesSentByFirstOnly(c, p, up) ==
  IF p \notin c.connected /\ c.connect_count = 0 /\ up
    THEN c.providers ELSE {}

\* send_register_names, where connect calls it: the names of all providers go
\* out if the client is connected; if it is not, they count as sent all the same.
NamesSent(c, p, up) ==
  IF /\ p \notin c.connected
     /\ c.needs_reregister \/ c.connect_count = 0
     /\ IsConnected(Connect(c, p, up))
    THEN c.providers ELSE {}

(* Mutant: the client is closed whenever somebody disconnects.                *)
DisconnectClosing(c, p) ==
  IF p \notin c.connected \/ c.connect_count = 0 THEN c
  ELSE [c EXCEPT !.connected = @ \ {p}, !.connect_count = @ - 1, !.client = "none"]

(* Mutant: whoever disconnects is taken to have been connected.               *)
DisconnectAnybody(c, p) ==
  [c EXCEPT !.connected = @ \ {p},
            !.connect_count = @ - 1,
            !.client = IF c.connect_count = 1 THEN "none" ELSE @]

Disconnect(c, p) ==
  IF p \notin c.connected \/ c.connect_count = 0 THEN c
  ELSE [c EXCEPT !.connected = @ \ {p},
                 !.connect_count = @ - 1,
                 !.client = IF c.connect_count = 1 THEN "none" ELSE @]

(* Mutant: a provider that goes stays among those that get the responses.     *)
ProviderDisconnectOnly(c, p) == Disconnect(c, p)

\* SimConnectProvider::disconnect, also what its destructor does.
ProviderDisconnect(c, p) == RemoveProvider(Disconnect(c, p), p)

-----------------------------------------------------------------------------
(* The provider hosts of the documents.                                    *)

SessionInit ==
  /\ enabled = {}
  /\ provider = [d \in Document |-> 0]
  /\ built = 0
  /\ coordinator = [providers |-> {}, connected |-> {}, connect_count |-> 0,
                    needs_reregister |-> FALSE, client |-> "none"]
  /\ registered = {}

\* SimConnectProvider::connect: it joins providers_ even when this fails.
ProviderConnects(c, p) ==
  \E up \in IF MayFail THEN BOOLEAN ELSE {TRUE} :
    LET added == AddProvider(c, p)
    IN  /\ coordinator' = Connect(added, p, up)
        /\ registered' = registered \cup NamesSent(added, p, up)

Stays(c) == coordinator' = c /\ UNCHANGED registered

\* toggle_enabled, off: the provider leaves if the session is connected.
Disable(d) ==
  /\ d \in enabled
  /\ enabled' = enabled \ {d}
  /\ Stays(IF provider[d] # 0 /\ IsConnected(coordinator)
             THEN ProviderDisconnect(coordinator, provider[d])
             ELSE coordinator)
  /\ UNCHANGED <<provider, built>>

\* toggle_enabled, on: the provider connects unless the session is connected.
Enable(d) ==
  /\ d \notin enabled
  /\ enabled' = enabled \cup {d}
  /\ IF provider[d] # 0 /\ ~IsConnected(coordinator)
       THEN ProviderConnects(coordinator, provider[d])
       ELSE Stays(coordinator)
  /\ UNCHANGED <<provider, built>>

\* teardown disconnects what looks connected; destroying the provider does so
\* in any case.
TornDown(d) ==
  IF provider[d] = 0 THEN coordinator
  ELSE ProviderDisconnect(coordinator, provider[d])

\* build, for a blueprint with SimConnect components: simulation start, rebuild.
Build(d) ==
  /\ built < MaxBuilds
  /\ built' = built + 1
  /\ provider' = [provider EXCEPT ![d] = built']
  /\ IF d \in enabled THEN ProviderConnects(TornDown(d), built')
                      ELSE Stays(TornDown(d))
  /\ UNCHANGED enabled

\* teardown: the simulation stops, the document closes, or the blueprint that
\* is rebuilt has no SimConnect component any more.
Teardown(d) ==
  /\ provider[d] # 0
  /\ provider' = [provider EXCEPT ![d] = 0]
  /\ Stays(TornDown(d))
  /\ UNCHANGED <<enabled, built>>

\* The flight simulator goes away.
ClientLost ==
  /\ MayFail /\ IsConnected(coordinator)
  /\ coordinator' = [coordinator EXCEPT !.client = "lost"]
  /\ UNCHANGED <<enabled, provider, built, registered>>

SessionNext == \/ \E d \in Document : Disable(d) \/ Enable(d) \/ Build(d) \/ Teardown(d)
        \/ ClientLost

SessionSpec == SessionInit /\ [][SessionNext]_sessionVars

-----------------------------------------------------------------------------
(* Properties.                                                             *)

Coordinator ==
  [providers : SUBSET (1 .. MaxBuilds), connected : SUBSET (1 .. MaxBuilds),
   connect_count : Nat, needs_reregister : BOOLEAN,
   client : {"none", "open", "lost"}]

\* Every variable keeps its type.
SessionTypeOK ==
  /\ enabled \subseteq Document
  /\ provider \in [Document -> 0 .. MaxBuilds]
  /\ built \in 0 .. MaxBuilds
  /\ coordinator \in Coordinator
  /\ registered \subseteq 1 .. MaxBuilds

Live == {provider[d] : d \in Document} \ {0}

\* The coordinator never calls a provider that was destroyed: whatever order
\* documents toggle, rebuild and stop in, the pointers it broadcasts responses
\* to are those of providers some host still holds.
NoDangling ==
  coordinator.providers \subseteq Live /\ coordinator.connected \subseteq Live

\* The reference count is the number of providers that use the session; the
\* client exists exactly while there is one, so that no document closes the
\* session under another one or leaves it open behind itself.
CountIsExact ==
  /\ coordinator.connect_count = Cardinality(coordinator.connected)
  /\ (coordinator.client # "none") = (coordinator.connected # {})

\* A connected provider gets responses.
ConnectedListens == coordinator.connected \subseteq coordinator.providers

\* Unless the client was lost, the bridge knows the variables of every connected
\* provider, whoever joined first and whoever was rebuilt since: no client comes
\* back to life with names that were counted as sent while it was dead.
ConnectedIsRegistered ==
  coordinator.client # "lost" => coordinator.connected \subseteq registered
=============================================================================
