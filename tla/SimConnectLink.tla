--------------------------- MODULE SimConnectLink ---------------------------
(***************************************************************************)
(* The delta protocol between the editor (SimConnectProvider, one per      *)
(* document that simulates) and the WASM bridge inside the flight          *)
(* simulator.  Requests and responses travel on the CommBus, which keeps   *)
(* their order and may lose them.                                          *)
(*                                                                         *)
(* A value is a natural number of units, One of them being 1.0f; what a    *)
(* reader of the wrong ValType makes of the four bytes is FloatBits.  The  *)
(* packets keep what the handlers look at: command, sequence number, tiers *)
(* or records.  Sending fails as losing does: nobody looks at the result.  *)
(***************************************************************************)
EXTENDS Integers, Sequences, FiniteSets, SequencesExt, Lists

CONSTANTS
  Provider,           \* SimConnectProvider instances, one per document
  Variable,           \* names of simulator variables
  Mappings,           \* per provider, the sequence build_mappings makes
  Category,           \* VarType of each variable
  Tier,               \* and the tier it is polled in
  Epsilon,            \* and the change its mapping asks to be told of
  Value,              \* values of variables and of signals, a set of numbers
  StartValue,         \* those a variable may have before anyone connects
  One,                \* how many units make 1.0f
  FloatBits,          \* a float other than 0.0f, its bytes read as an integer
  DefaultEpsilon,     \* 0.01f
  EpochLimit,         \* 65536: epochs are 0 .. EpochLimit - 1
  StaleGap,           \* 100
  MediumPeriod,       \* 5
  SlowPeriod,         \* 30
  FullSyncInterval,   \* FULL_SYNC_INTERVAL, 60
  MaxDeltaVars,       \* MAX_DELTA_VARS, 512
  Lossy,              \* commands whose packets may be lost
  BusLimit,           \* bound: packets on the bus
  MaxStarts           \* bound: how often a provider is built and connected

TIER_FAST == 0
TIER_MEDIUM == 1
TIER_SLOW == 2

Mapping == [var : Variable, input : BOOLEAN, signal : Nat, default_value : Value,
            val_type : {"Float32", "Int32", "Bool"}, event : BOOLEAN]

ASSUME SimConnectLinkAssumption ==
  /\ IsFiniteSet(Variable)
  /\ Value \subseteq Nat /\ 0 \in Value /\ StartValue \subseteq Value
  /\ One \in Nat \ {0} /\ FloatBits \in Nat /\ DefaultEpsilon \in Nat
  /\ {StaleGap, MaxDeltaVars, BusLimit, MaxStarts} \subseteq Nat
  /\ {EpochLimit, MediumPeriod, SlowPeriod} \subseteq Nat \ {0}
  /\ \A p \in Provider : Mappings[p] \in Seq(Mapping)
  /\ Tier \in [Variable -> {TIER_FAST, TIER_MEDIUM, TIER_SLOW}]
  /\ SlowPeriod % MediumPeriod = 0
  /\ BusLimit <= StaleGap /\ StaleGap < EpochLimit

VARIABLES
  sim,        \* the simulator's variables (Vars API)
  signals,    \* per provider, the values[] of its document's simulation
  providers,  \* providers_ of the coordinator, all of them connected
  host,       \* per provider: host_epoch_, frame_counter_ % SlowPeriod,
              \* input_buffer_ and output_shadow_, by signal
  bridge,     \* g_delta_entries[0 .. g_delta_count), frames_since_sync,
              \* last_host_epoch
  to_bridge,  \* requests on the CommBus, oldest first
  to_host,    \* responses on the CommBus, oldest first
  starts,     \* providers connected so far
  disturbed   \* flips with every loss and restart of the bridge (ghost)

vars == <<sim, signals, providers, host, bridge, to_bridge, to_host, starts, disturbed>>

-----------------------------------------------------------------------------
(* Mappings.                                                               *)

MappingsOf(p) == ToSet(Mappings[p])
Inputs(p)     == {m \in MappingsOf(p) : m.input}
Outputs(p)    == {m \in MappingsOf(p) : ~m.input}
OutputList(p) == Among(Mappings[p], Outputs(p))
SignalsOf(S)  == {m.signal : m \in S}

\* id_to_signal_: the mapping built last decides where a variable goes.
IsTarget(p, var, signal) ==
  \E i \in DOMAIN Mappings[p] :
    /\ Mappings[p][i].var = var /\ Mappings[p][i].signal = signal
    /\ \A j \in DOMAIN Mappings[p] : j > i => Mappings[p][j].var # var

\* send_register_names: the variables of all providers, each once.  Their order
\* matters only where the bridge's table is full, and is any.
RegisteredNames(ps) ==
  SetToSeq({m.var : m \in UNION {MappingsOf(p) : p \in ToSet(ps)}})

(* Values.                                                                 *)

\* float_to_wire_value, and back with the same ValType at the other end.
Encoded(v, val_type) ==
  CASE val_type = "Float32" -> v
    [] val_type = "Int32"   -> (v \div One) * One
    [] val_type = "Bool"    -> IF 2 * v > One THEN One ELSE 0

\* The bridge puts a float on the wire whatever the ValType of the mapping by
\* which wire_value_to_float then reads it.
Injected(v, val_type) ==
  CASE val_type = "Float32" -> v
    [] val_type = "Int32"   -> IF v = 0 THEN 0 ELSE FloatBits
    [] val_type = "Bool"    -> IF v = 0 THEN 0 ELSE One

\* value_changed for finite floats: an epsilon relative to the previous value.
FloatChanged(current, previous, epsilon) ==
  LET diff == IF current > previous THEN current - previous ELSE previous - current
  IN  IF epsilon = 0 THEN diff # 0
      ELSE diff > epsilon /\ diff * One > previous * epsilon

ValueChanged(current, previous, epsilon, val_type) ==
  IF val_type = "Float32" THEN FloatChanged(current, previous, epsilon)
                          ELSE current # previous

\* A WireValue: four bytes, of which only the ValType says what they mean.
WireValue(v, val_type) == [value |-> Encoded(v, val_type), val_type |-> val_type]

Zero == [value |-> 0, val_type |-> "Float32"]

\* value_changed, whose previous bytes may come from another ValType: those of
\* a float are no integer one meets, those of an integer a float next to zero.
WireChanged(current, previous, epsilon) ==
  IF previous.value = 0
     \/ (current.val_type = "Float32") = (previous.val_type = "Float32")
    THEN ValueChanged(current.value, previous.value, epsilon, current.val_type)
    ELSE current.val_type = "Float32" /\ epsilon # 0 =>
           FloatChanged(current.value, 0, epsilon)

-----------------------------------------------------------------------------
(* The host: SimConnectProvider and the coordinator's providers_.          *)

\* build_mappings.
Built(p) ==
  [epoch |-> 0, frame |-> 0,
   input_buffer  |-> [s \in SignalsOf(Inputs(p)) |->
                        (CHOOSE m \in Inputs(p) : m.signal = s).default_value],
   output_shadow |-> [s \in SignalsOf(Outputs(p)) |-> Zero]]

Init ==
  /\ sim \in [Variable -> StartValue]
  /\ signals = [p \in Provider |-> [s \in SignalsOf(Outputs(p)) |-> 0]]
  /\ providers = <<>>
  /\ host = [p \in Provider |-> Built(p)]
  /\ bridge = [table |-> <<>>, since_sync |-> 0, last_epoch |-> 0]
  /\ to_bridge = <<>> /\ to_host = <<>>
  /\ starts = 0 /\ disturbed = FALSE

Room(n) == Len(to_bridge) + Len(to_host) + n <= BusLimit

Others(p) == RemoveFirst(providers, p)

\* The shared client is closed when the last provider leaves, and responses
\* not yet polled go with it.
Polled(remaining) == IF remaining = <<>> THEN <<>> ELSE to_host

\* The document's simulation starts or is rebuilt: an old provider is torn
\* down, a new one built and connected, and all names are registered again.
Start(p) ==
  /\ starts < MaxStarts /\ Room(1)
  /\ starts' = starts + 1
  /\ host' = [host EXCEPT ![p] = Built(p)]
  /\ providers' = Append(Others(p), p)
  /\ to_bridge' = Append(to_bridge, [cmd |-> "RegisterNames",
                                     names |-> RegisteredNames(providers')])
  /\ to_host' = Polled(Others(p))
  /\ UNCHANGED <<sim, signals, bridge, disturbed>>

\* The simulation stops: teardown.
Stop(p) ==
  /\ Contains(providers, p)
  /\ providers' = Others(p)
  /\ to_host' = Polled(Others(p))
  /\ UNCHANGED <<sim, signals, host, bridge, to_bridge, starts, disturbed>>

\* tier_mask_for_frame
TierMask(frame) ==
  {TIER_FAST} \cup (IF frame % MediumPeriod = 0 THEN {TIER_MEDIUM} ELSE {})
              \cup (IF frame % SlowPeriod = 0 THEN {TIER_SLOW} ELSE {})

\* request_inputs: the packet, and the counters after it.
ReadRequest(p) ==
  IF Inputs(p) = {} THEN <<>>
  ELSE << [cmd |-> "DeltaRead", tiers |-> TierMask(host[p].frame),
           seq |-> host[p].epoch] >>

Requested(h, p) ==
  IF Inputs(p) = {} THEN h
  ELSE [h EXCEPT !.epoch = (h.epoch + 1) % EpochLimit,
                 !.frame = (h.frame + 1) % SlowPeriod]

\* extract_outputs_raw goes through the outputs in the order of the document:
\* the shadow and the outputs sent after n of them.  The shadow is kept by
\* signal, so an output is compared with what an earlier one at its signal has
\* just put there.
Extraction(p) ==
  LET outputs == OutputList(p)
      after[n \in 0 .. Len(outputs)] ==
        IF n = 0 THEN [shadow |-> host[p].output_shadow, sent |-> {}]
        ELSE LET m       == outputs[n]
                 was     == after[n - 1]
                 current == WireValue(signals[p][m.signal], m.val_type)
             IN  IF WireChanged(current, was.shadow[m.signal], Epsilon[m.var])
                   THEN [shadow |-> [was.shadow EXCEPT ![m.signal] = current],
                         sent   |-> was.sent \cup {m}]
                   ELSE was
  IN  after[Len(outputs)]

(* Mutant: a write is made out for the output that was built last at a signal, *)
(* as a response is for the input that was built last at a variable.           *)
MovedOfLast(p) ==
  {m \in Extraction(p).sent :
     \E i \in DOMAIN OutputList(p) :
       /\ OutputList(p)[i] = m
       /\ \A j \in DOMAIN OutputList(p) : j > i => OutputList(p)[j].signal # m.signal}

\* The outputs that moved away from the shadow of their signal.
Moved(p) == Extraction(p).sent

Extracted(h, p) == [h EXCEPT !.output_shadow = Extraction(p).shadow]

WriteRequest(p) ==
  IF Moved(p) = {} THEN <<>>
  ELSE << [cmd |-> "DeltaWrite", seq |-> Requested(host[p], p).epoch,
           records |-> {[var |-> m.var,
                         category |-> IF m.event THEN "HEvent" ELSE Category[m.var],
                         value |-> Encoded(signals[p][m.signal], m.val_type)] :
                        m \in Moved(p)}] >>

\* The bus is prompt: no frame starts while a request or a response is StaleGap
\* frames old, which is more than a second.  (What an earlier simulation left
\* on the bus is thereby delivered, and ignored, before the next frame.)
Prompt(p) ==
  \A packet \in ToSet(to_bridge \o to_host) :
    packet.cmd # "RegisterNames" =>
      (host[p].epoch - packet.seq) % EpochLimit < StaleGap

\* One frame of a running simulation: read_into (request_inputs; what it then
\* injects is Injected of the buffer), and write_from after the step.
Frame(p) ==
  /\ Contains(providers, p) /\ Prompt(p)
  /\ LET requests == ReadRequest(p) \o WriteRequest(p)
     IN  Room(Len(requests)) /\ to_bridge' = to_bridge \o requests
  /\ host' = [host EXCEPT ![p] = Extracted(Requested(host[p], p), p)]
  /\ UNCHANGED <<sim, signals, providers, bridge, to_host, starts, disturbed>>

\* The simulation computes another output.
OutputVaries(p) ==
  \E s \in DOMAIN signals[p], v \in Value :
    /\ v # signals[p][s]
    /\ signals' = [signals EXCEPT ![p][s] = v]
    /\ UNCHANGED <<sim, providers, host, bridge, to_bridge, to_host, starts, disturbed>>

\* on_response: a response from too long ago is ignored.
IsStale(p, seq) == (host[p].epoch - seq) % EpochLimit > StaleGap

(* Mutant: records of an old response are believed.                           *)
IsNeverStale(p, seq) == FALSE

Buffered(p, records) ==
  [s \in DOMAIN host[p].input_buffer |->
     IF \E r \in records : IsTarget(p, r.var, s)
       THEN (CHOOSE r \in records : IsTarget(p, r.var, s)).value
       ELSE host[p].input_buffer[s]]

\* poll: the coordinator broadcasts the next response to every provider.
Receive ==
  /\ to_host # <<>>
  /\ to_host' = Tail(to_host)
  /\ LET packet == Head(to_host)
         believes(p) == /\ Contains(providers, p)
                        /\ packet.cmd \in {"DeltaUpdate", "FullSync"}
                        /\ ~IsStale(p, packet.seq)
     IN  host' = [p \in Provider |->
                    IF believes(p)
                      THEN [host[p] EXCEPT !.input_buffer = Buffered(p, packet.records)]
                      ELSE host[p]]
  /\ UNCHANGED <<sim, signals, providers, bridge, to_bridge, starts, disturbed>>

-----------------------------------------------------------------------------
(* The bridge: wasm/an24_bridge.cpp.                                       *)

\* The parser of the registration knows three categories.
ParsedCategory(var) ==
  IF Category[var] \in {"AVar", "LVar", "BVar"} THEN Category[var] ELSE "AVar"

\* read_var: a variable filed under the wrong category resolves to none.
Read(var) == IF ParsedCategory(var) = Category[var] THEN sim[var] ELSE 0

(* Mutant: a variable that is registered again is not sent again.             *)
EntryAsIfSent(var) == [var |-> var, epsilon |-> DefaultEpsilon, last_sent |-> 0,
                       valid |-> TRUE]

\* bridge_add_var, for a name whose epsilon the parser never sees: the key
\* comes before the name in the JSON object, the scan starts behind it.
Entry(var) == [var |-> var, epsilon |-> DefaultEpsilon, last_sent |-> 0,
               valid |-> FALSE]

\* A full table takes no more.
Added(table, names) ==
  table \o [i \in {k \in DOMAIN names : Len(table) + k <= MaxDeltaVars} |-> Entry(names[i])]

\* on_control_request
HandleRegister ==
  /\ to_bridge # <<>> /\ Head(to_bridge).cmd = "RegisterNames"
  /\ to_bridge' = Tail(to_bridge)
  /\ bridge' = [bridge EXCEPT !.table = Added(@, Head(to_bridge).names)]
  /\ UNCHANGED <<sim, signals, providers, host, to_host, starts, disturbed>>

Sent(e) == [e EXCEPT !.last_sent = Read(e.var), !.valid = TRUE]

\* Which entries a DeltaUpdate reports: in the tiers, and new or changed.
Due(e, tiers) ==
  /\ Tier[e.var] \in tiers
  /\ ~e.valid \/ ValueChanged(Read(e.var), e.last_sent, e.epsilon,
                              IF Category[e.var] = "BVar" THEN "Bool" ELSE "Float32")

(* Mutant: a full synchronisation leaves out what did not change.             *)
FullSyncOfChanges(b, seq) ==
  [table   |-> [i \in DOMAIN b.table |-> Sent(b.table[i])],
   replies |-> << [cmd |-> "FullSync", seq |-> seq,
                   records |-> {[var |-> e.var, value |-> Read(e.var)] :
                                  e \in {x \in ToSet(b.table) :
                                           Due(x, {Tier[x.var]})}}] >>]

\* handle_full_sync: every entry is reported.
FullSync(b, seq) ==
  [table   |-> [i \in DOMAIN b.table |-> Sent(b.table[i])],
   replies |-> << [cmd |-> "FullSync", seq |-> seq,
                   records |-> {[var |-> e.var, value |-> Read(e.var)] :
                                  e \in ToSet(b.table)}] >>]

(* Mutant: a DeltaUpdate marks entries as sent that were not in a tier.       *)
DeltaUpdateMarkingAll(b, tiers, seq) ==
  LET due == {e \in ToSet(b.table) : Due(e, tiers)}
  IN  [table   |-> [i \in DOMAIN b.table |-> Sent(b.table[i])],
       replies |-> IF due = {} THEN <<>>
                   ELSE << [cmd |-> "DeltaUpdate", seq |-> seq,
                            records |-> {[var |-> e.var, value |-> Read(e.var)] :
                                           e \in due}] >>]

\* handle_delta_update: no response when nothing is due.
DeltaUpdate(b, tiers, seq) ==
  LET due == {e \in ToSet(b.table) : Due(e, tiers)}
  IN  [table   |-> [i \in DOMAIN b.table |->
                      IF b.table[i] \in due THEN Sent(b.table[i]) ELSE b.table[i]],
       replies |-> IF due = {} THEN <<>>
                   ELSE << [cmd |-> "DeltaUpdate", seq |-> seq,
                            records |-> {[var |-> e.var, value |-> Read(e.var)] :
                                           e \in due}] >>]

\* A read was lost, or came from another host: its successor tells by the gap.
HasGap(b, seq) ==
  seq > 0 /\ b.last_epoch > 0 /\ (seq - b.last_epoch) % EpochLimit > 1

MustSync(b, seq) == HasGap(b, seq) \/ b.since_sync + 1 >= FullSyncInterval

\* handle_delta_read
HandleRead ==
  /\ to_bridge # <<>> /\ Head(to_bridge).cmd = "DeltaRead"
  /\ to_bridge' = Tail(to_bridge)
  /\ LET packet == Head(to_bridge)
         full   == MustSync(bridge, packet.seq)
         answer == IF full THEN FullSync(bridge, packet.seq)
                           ELSE DeltaUpdate(bridge, packet.tiers, packet.seq)
     IN  /\ to_host' = to_host \o answer.replies
         /\ bridge' = [table |-> answer.table, last_epoch |-> packet.seq,
                       since_sync |-> IF full THEN 0
                                      ELSE bridge.since_sync + 1]
  /\ UNCHANGED <<sim, signals, providers, host, starts, disturbed>>

\* The records whose name and category an entry of the table has.
Writable(records) ==
  {r \in records : \E e \in ToSet(bridge.table) :
                     e.var = r.var /\ ParsedCategory(e.var) = r.category}

\* handle_delta_write
HandleWrite ==
  /\ to_bridge # <<>> /\ Head(to_bridge).cmd = "DeltaWrite"
  /\ to_bridge' = Tail(to_bridge)
  /\ LET written == Writable(Head(to_bridge).records)
     IN  sim' = [v \in Variable |->
                   IF \E r \in written : r.var = v
                     THEN (CHOOSE r \in written : r.var = v).value
                     ELSE sim[v]]
  /\ to_host' = Append(to_host, [cmd |-> "WriteAck", seq |-> Head(to_bridge).seq])
  /\ UNCHANGED <<signals, providers, host, bridge, starts, disturbed>>

-----------------------------------------------------------------------------
(* The surroundings: the flight simulator and the CommBus.                 *)

WrittenByHost == {m.var : m \in UNION {Outputs(p) : p \in Provider}}

SimVaries ==
  \E v \in Variable \ WrittenByHost, x \in Value :
    /\ x # sim[v]
    /\ sim' = [sim EXCEPT ![v] = x]
    /\ UNCHANGED <<signals, providers, host, bridge, to_bridge, to_host, starts, disturbed>>

Lose ==
  /\ \/ /\ to_bridge # <<>> /\ Head(to_bridge).cmd \in Lossy
        /\ to_bridge' = Tail(to_bridge) /\ UNCHANGED to_host
     \/ /\ to_host # <<>> /\ Head(to_host).cmd \in Lossy
        /\ to_host' = Tail(to_host) /\ UNCHANGED to_bridge
  /\ disturbed' = ~disturbed
  /\ UNCHANGED <<sim, signals, providers, host, bridge, starts>>

\* The flight is restarted: module_deinit and module_init.  Nobody tells the
\* editor, which registers again only when a provider connects.
BridgeRestarts ==
  /\ "RegisterNames" \in Lossy
  /\ bridge' = [table |-> <<>>, since_sync |-> 0, last_epoch |-> 0]
  /\ disturbed' = ~disturbed
  /\ UNCHANGED <<sim, signals, providers, host, to_bridge, to_host, starts>>

HandleRequest == HandleRegister \/ HandleRead \/ HandleWrite

Next ==
  \/ \E p \in Provider : Start(p) \/ Stop(p) \/ Frame(p) \/ OutputVaries(p)
  \/ Receive
  \/ HandleRequest
  \/ SimVaries
  \/ Lose
  \/ BridgeRestarts

Spec == Init /\ [][Next]_vars

\* A frame polls the client they all share, and the simulator dispatches what
\* arrives on the bus.  That there are frames is not assumed: the main loop
\* runs those of the document that is shown.
Fairness == WF_vars(Receive) /\ WF_vars(HandleRequest)

FairSpec == Spec /\ Fairness

-----------------------------------------------------------------------------
(* Properties.                                                             *)

OnItsWay(channel, cmds) == \E i \in DOMAIN channel : channel[i].cmd \in cmds

EntriesOf(var) == {e \in ToSet(bridge.table) : e.var = var}

\* Unless a response is lost, the host holds what the bridge believes it sent,
\* up to the epsilon below which the bridge keeps quiet: through lost requests,
\* simulations that stop, start and are rebuilt with their buffers reset, and
\* requests of an earlier simulation still on the bus.
InputShadowsAgree ==
  \A p \in ToSet(providers) : \A m \in Inputs(p) :
    LET entries == EntriesOf(m.var)
    IN  /\ IsTarget(p, m.var, m.signal)
        /\ ~OnItsWay(to_host, {"DeltaUpdate", "FullSync"})
        /\ ~OnItsWay(to_bridge, {"RegisterNames"})
        /\ \A e \in entries : e.valid
        => \A e \in entries :
             ~FloatChanged(host[p].input_buffer[m.signal], e.last_sent, e.epsilon)

\* Unless a request is lost, what the shadow of a signal says was written is in
\* the simulator, in the variable of an output at that signal: an update is
\* never skipped against a value that arrived nowhere, whichever of the outputs
\* that share the signal took it along.  (A shadow of 0 may be the initial one,
\* which was never sent.)
OutputShadowsAgree ==
  \A p \in ToSet(providers) : \A s \in SignalsOf(Outputs(p)) :
    LET shadow == host[p].output_shadow[s].value
    IN  ~OnItsWay(to_bridge, {"DeltaWrite"}) /\ shadow # 0 =>
          \E m \in Outputs(p) : m.signal = s /\ sim[m.var] = shadow

\* What an input component should see of a variable.
Expected(v, val_type) ==
  CASE val_type = "Float32" -> v
    [] val_type = "Int32"   -> (v \div One) * One
    [] val_type = "Bool"    -> IF v = 0 THEN 0 ELSE One

Accurate ==
  \A p \in ToSet(providers) : \A m \in Inputs(p) :
    Injected(host[p].input_buffer[m.signal], m.val_type) = Expected(sim[m.var], m.val_type)

Tracked == \A p \in ToSet(providers) : \A m \in Inputs(p) : EntriesOf(m.var) # {}

\* From some moment on the variables and the set of providers stay, nothing is
\* lost, and the bridge is not restarted.
Calm == <>[][~SimVaries /\ UNCHANGED <<disturbed, providers>>]_vars

\* Every document that runs is shown, and has frames, again and again.
Attended == \A p \in Provider : <>[](~Contains(providers, p)) \/ []<><<Frame(p)>>_vars

\* Whatever was lost or restarted before: once the surroundings are calm and the
\* bridge has the variables registered, every input of the documents that are
\* shown again and again reaches its exact value, small drifts that no
\* DeltaUpdate reports and lost updates included.
InputsConverge == Calm /\ Attended /\ <>[]Tracked => <>[]Accurate
=============================================================================
