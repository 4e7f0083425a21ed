# Verification of the eCAL MQTT bridge

TLA+ models of the bridge between eCAL and MQTT brokers (`src/src/`), checked
with TLC and, for the safety properties, proved with TLAPS for all values of the
constants. Source lines below are those of `src/src/Bridge.cpp` unless another
file is named.

## The system

One process. `run` (`MqttEcalBridge.cpp` 182-374) reads a YAML file, checks it,
builds one `Bridge` per broker, sleeps three seconds and supervises the first
bridge that initialised until eCAL ends; then the bridges are destroyed one by
one. A `Bridge` subscribes eCAL topics and publishes them on MQTT, and the other
way round.

| Component | State | Operations | Correct when |
|---|---|---|---|
| Broker connection and supervision | `is_initialized`, `is_connected_to_mqtt_broker`, `loop_started`, two rx counters, the reported `state`; in libmosquitto the session and its subscriptions | constructor, `initMqtt`, `connectOrReconnect`, `exclusiveLoopStart`, `on_connect`, `on_disconnect`, `tryReconnectMqtt`, the supervision loop | the flag vouches for a session exactly when its topics are subscribed; a bridge comes back after any disturbance; whoever is supervised has a network thread |
| Descriptor and type relay | two maps with a mutex each, `mqtt_desc_thread`, `mqtt_desc_thread_active` | `onPublisherRegistration`, `descriptorUpdateLoop`, the destructor's join | maps never change under the iteration; each metadata topic follows its eCAL topic and never goes back; the destructor returns and leaves nobody behind |
| Routing MQTT to eCAL | `ecal_publishers`, two hash tables, `mqtt_rx_counter` | `on_message` | what a publisher shows is its own and, in the end, the last word of its peer; the hash tables never hide an update |
| Routing eCAL to MQTT | `ecal_subscribers`, `ecal_rx_counter` | `ecalMessageReceived` | each message reaches exactly its routes |
| Life cycle and resources, several bridges | all of the above for every bridge; users of eCAL and of the mosquitto library | constructors, destructors, `run` | nobody is in a bridge that is not there; publishers and library outlive their users; the program ends when eCAL does |
| Configuration validity, YAML readers | brokers and topic lists | `operator>>`, `CheckValidity`, `CheckYamlValidity`, the loops of `run` | each valid route reaches the one bridge of its broker; defaults apply |
| Mosquitto options | library settings | `initMqtt` 364-535 | a step that fails ends the initialisation |
| Command line, logging, string utilities, build files | none of interest | | not modelled: parsing and output |

How they interact. *Main* constructs, supervises and destroys. libmosquitto's
*network thread* runs `on_connect`, `on_disconnect` and `on_message`, and
reconnects by itself. *eCAL receive threads* run `ecalMessageReceived`; eCAL's
*registration thread* runs `onPublisherRegistration`; the bridge's own
*`mqtt_desc_thread`* runs `descriptorUpdateLoop`. They share atomics, two
unsynchronised counters and two locked maps.

What is hard: main and the network thread reconnect behind each other's back;
`on_connect` may stop halfway, and messages arrive before it is done; the
supervisor acts on a flag and on counters it read earlier; plain `int` counters
lose increments and resets and wrap; the hash tables outlive sessions; the
descriptor thread is started before the atomics it reads are constructed, holds
one mutex while it waits for the other, and is joined by the destructor; the
destructor runs among threads and callbacks that may be anywhere, and calls the
same cleanups whether or not the constructor got that far. `PROJECT.json` lists
each of these hazards at its line, with the properties that cover it.

## Modules

| Module | Models | Composition |
|---|---|---|
| `BridgeTopics` | `OnConnectSubscriptions`: the order of the three loops of `on_connect` | used by the MC module of `BridgeLink` |
| `SessionLink` | abstract: what the rest of a bridge may expect of its connection | implemented by `BridgeLink`, part of `MqttIngress` |
| `BridgeLink` | one bridge and its broker connection, supervision, counters | implements `SessionLink` |
| `MetadataMirror` | abstract: what users may expect of the metadata topics | implemented by `DescriptorRelay` |
| `DescriptorRelay` | registrations, descriptor thread, mutexes, constructor and destructor | implements `MetadataMirror` |
| `MqttIngress` | `on_message`, hash tables, publishers, retained and repeated messages | `SessionLink`'s actions joined with what they do to messages |
| `BridgeLifecycle` | all bridges of `run`, from construction to destruction | abstracts from the connection |
| `Configuration` | from the YAML file to the bridges | |

`MC...` modules give instances for TLC, `...Proofs` modules hold the theorems,
`ListLemmas` a lemma about the last element of a list with a property, which two
of the proofs need for "the last route that matched".

- **`BridgeLink`.** Actors: main (`mainPc` walks through `initMqtt`,
  `initialize`, the supervision loop and `tryReconnectMqtt`), the network thread
  (`loop`, `subIndex`), an eCAL receive thread (`ecal`). Every access to shared
  state is a step of its own. External: `link` (the client's connection: down,
  connecting, up, lost-but-unnoticed) and `subscribed` (what the broker has for
  the current clean session). `connectOrReconnect` and `exclusiveLoopStart` are
  operators with the continuations of a true and a false result. A session
  replaced by `connect` or `connect_async` gets no `on_disconnect`: libmosquitto
  closes the old socket silently. `subscribe()` called by an `on_connect` whose
  session was replaced has no effect on the new session.
- **`SessionLink`** has no threads and no supervisor: sessions are opened and
  lost at any time, `greeting` says that an `on_connect` runs, and the flag rises
  for a live session only with all its subscriptions. `BridgeLink` maps
  `greeting` to `loop = "subscribing"`, the other variables to themselves.
- **`DescriptorRelay`.** The two kinds of metadata are handled alike in the
  code, so mutexes and maps are functions of the kind. The content of a
  registration is its version. `FreshMemory` is what an `atomic<bool>` may hold
  before its constructor ran; with both values the race of line 32 is explored.
  `last_user` says whether this bridge's `eCAL::Finalize` (839) was eCAL's last:
  only then do calls of the registration callback end and is a running one
  awaited. Otherwise they go on after the destructor, into memory as it was left.
  A metadata topic of the mirror is a pair of kind and name, and the mirror
  closes when the join has returned.
- **`MqttIngress`.** `inbox` is what the session has for `on_message`, `content`
  what the broker last got on a topic: a subscription brings it if retained, a
  new session starts with nothing under way. Peers publish anything; a message
  may reach the broker and not the bridge. `on_message` is one step, since it
  runs on the network thread like `on_connect` and nobody else touches what it
  writes. `current_topic` and the three `found_` flags are separate operators,
  as they are separate variables in the code: several routes may match. `shown`
  is what each eCAL publisher was last given, with the topic it came on.
- **`BridgeLifecycle`.** Main's program counter is a place in the constructor or
  destructor of bridge `current`; every statement of the destructor is a step.
  Each constructor may fail before, in, or after `lib_init`. Per bridge: network
  thread, receive callback, descriptor thread; one registration thread for all.
  `ecal_refs` and `lib_refs` count the users of the two libraries as the
  libraries do; `unmatched` remembers bridges whose destructor will clean up what
  they never initialised. The connection flag is left out (any thread may find it
  up: `on_connect` can raise it after the destructor lowered it).
- **`Configuration`.** A section is the record of the keys it sets, laid over the
  constructor's defaults (`operator>>`); `CheckValidity` of the three classes;
  the loops of `run` that fill the maps; `CheckYamlValidity` loop by loop, with
  the `found` flag it does not reset; one bridge per broker. A string is its rank
  among strings, as `std::map` iterates in their order: this is also the order of
  the topic vectors a bridge gets.

A few operators in the modules are marked *Mutant* in their comment: the same
operation with a plausible bug. No behaviour uses them; each is the form in
which one property is known to fail.

## Runs

| Run | Question | Result |
|---|---|---|
| `link_safety` | when first connection errors are ignored and `subscribe()` fails anywhere: may a supervised bridge lack a network thread, may the flag rise too early, may a subscribed session be left without the flag, is the connection a `SessionLink`? | holds |
| `link_recovers` | when first connection errors are ignored and `subscribe()` fails only for want of a connection: does the flag ever vouch for a live session with missing topics, is a session healthy once `on_connect` is through with it, and does the bridge always recover? | holds |
| `link_stale_flag` | the same invariant if `subscribe()` can fail in a live session (out of memory, a topic filter or qos libmosquitto rejects) | violated |
| `link_stuck` | is a live session without the flag ever left alone for good? | violated |
| `relay_safety` | locks (do their holders ever wait for each other?), shutdown and the refinement of `MetadataMirror`, with two eCAL topics, two versions each, arbitrary fresh memory, destruction at any time | holds |
| `relay_latest` | with a thread that started properly: does every metadata topic end up current, and does the destructor return? | holds |
| `relay_thread_lost` | the same if the thread reads the flag before its constructor | violated |
| `relay_type_only` | the same if only a type topic is configured | violated |
| `ingress` | does a publisher ever show what is not its own, does a hash table ever hide an update, is what `on_message` took shown afterwards, does the last word of a repeating peer get through and stay, and do messages that come during `on_connect` survive it? | holds |
| `lifecycle` | three bridges that may each fail to initialise: is anybody ever in a bridge that is not there, are publishers, library and eCAL there for their users, does what a destructor waits for ever begin again, does the program end? | holds, under the conditions below |
| `config_routes` | for all files of up to two sections of each kind: does each valid route reach the one bridge of its broker, and nothing else, and does the first bridge have anything to do? | holds |
| `config_defaults` | does a route without qos or retain flag get its broker's? | violated |

Conditions inside properties, each of which names something the code does not
guarantee:

- `SoleSource` (`CacheHonest`, `HandledShown`, `CatchesUp`,
  `EarlyMessagesShown`): no other topic
  writes the same publisher's description (type name, payload). The tables are
  keyed by topic: after two type topics took turns, a repetition is taken for
  known although the publisher shows the other's.
- `Unambiguous` (`OwnContent`): the routes use a topic for one purpose. Else the
  first flag asked and the last route matched need not belong together.
- `b < N` (`CallbacksHaveBridge`): the registration callback is never removed
  (136), so that of any bridge but the last may be called after its destruction.
  That is all that finds a bridge that is not there: no thread and no receive
  callback does, and eCAL ends before the last bridge is gone.
- `last_user` (`DestroyedQuiet`): the same seen from one bridge. With other users
  of eCAL left, the registration thread may be in the callback, with a mutex
  locked, when the members go; the descriptor thread never is.
- `\A u \in unmatched : u >= b` (`LibraryHeld`): a bridge that failed before
  `lib_init` still calls `lib_cleanup` (829) and takes away the reference of one
  that comes after it. Bridges before it are destroyed by then. `EcalHeld` is the
  same for `eCAL::Initialize` (103) and `Finalize` (839): a bridge without
  publishers (`publishers[u] = "none"`) never got past the former.
- `HandledShown` and `CatchesUp` hold up to a collision of hashes, which the code
  cannot tell apart; `EarlyMessagesShown` begins once `is_initialized` is set: before line
  48 messages are dropped, and retained ones come once per session.

Without any of the first five conditions, and in an instance that does not meet
it, TLC finds the violation that its sentence describes.

### Bounds

- `BridgeLink`: two routes give four subscriptions, so `on_connect` can fail
  before, between and after them, and in each of its three loops.
  `CounterModulus` 3 stands for 2^32: zero, not zero, and wrapping to zero; the
  code compares the counters with zero only.
- `DescriptorRelay`: `MaxVersion` 2 is a registration, a change, and a sample
  that is stale when it is written. Two eCAL topics (`TwoTopics`) have two
  registration samples that interleave, and one metadata kind with two entries,
  so an iteration has a middle. One receive thread and one registration thread:
  eCAL calls each callback of a subscriber, and the registration callback, from
  one thread.
- `MqttIngress`: two routes to two publishers that share a type topic, so that
  two routes match one message; a retained descriptor and a repeated type, both
  with two contents, so that a stale one can be under way, remembered or
  retained. `MaxInFlight` 1 bounds the messages peers have under way; retained
  ones come on top. With 2 the run holds as well, and takes over three times as long.
- `BridgeLifecycle`: three bridges are a first, a middle and a last one. The
  first and the last have a descriptor topic, so one registration callback
  outlives its bridge and the other does not; the middle one has no metadata.
- `Configuration`: `MaxSections` 2, from five to six different sections of each
  kind: two brokers of which either, both or none is used, and two sections of
  one name, of which either may be invalid.

### Fairness

Weak fairness of main, of the network thread, of callbacks that have begun and
of the descriptor thread: threads are scheduled and no callback runs for ever.
Strong fairness where the environment keeps an opportunity open only for a
while, again and again:

- `ConnackAccept`: the supervisor may drop the attempt every two seconds, and a
  broker that is reachable answers within that time sooner or later. Refusals
  and broken connections stay possible; `Recovers` excuses runs in which they go
  on for ever. That the retry keeps dropping attempts a slow broker is about to
  accept is thereby assumed away, not shown.
- `DescLock`, `RegistrationLock`: the holders let go of the mutexes for five
  seconds, or eCAL's registration period, each time.
- `Registration`: eCAL repeats the registration of a live publisher.
- `PublishDelivered` of `DescriptorRelay`: of the publishes repeated every round
  some arrive.
- `RepeatDelivered` of `MqttIngress`: the peer of a descriptor or type topic is a
  bridge, whose `descriptorUpdateLoop` repeats itself every five seconds, and not
  every repetition is lost. Topics outside `Repeated` have no such fairness.

No fairness on failures, on lost messages, on new sessions, on the end of eCAL,
on the destructor's beginning, or on `FlagChanges`.

## Findings

1. `link_stale_flag`: main reads the flag as FALSE; `on_connect` completes and
   raises it; `tryReconnectMqtt` silently replaces that session. If the
   `on_connect` of the new session returns at a failed `subscribe()`, the flag
   still says connected, and nothing subscribes again.
2. `link_stuck`: with a nonzero counter the supervisor never reconnects (343).
   One failed `subscribe()` after a reconnection leaves a live session without
   the flag, and every message is dropped at the gate, so the counters stay.
3. `relay_thread_lost`: `mqtt_desc_thread` (32) may test
   `mqtt_desc_thread_active` (155) before it is constructed (33) and end.
4. `relay_type_only`: the registration callback is added for descriptor topics
   only (133), so a type topic alone is never filled.
5. `config_defaults`: `CheckYamlValidity` assigns the defaults to copies of the
   topics (141, 164 of `MqttEcalBridge.cpp`), so such a route keeps qos -1. This
   is one way for `subscribe()` to fail in a live session, which is what
   `SubscribeMayFail` in `BridgeLink` is for: then the flag never rises.

Also met, and kept as hazards and conditions rather than runs: the registration
callback of an earlier bridge outlives it; a bridge that failed early cleans up
for another; a receive callback may publish after `lib_cleanup`; the supervisor
sometimes replaces a healthy session (it acts on a flag read earlier); of several
routes of one eCAL topic only the last one's metadata topics are filled (66-81),
and of several routes that share a type topic only the last one's publisher gets
the name (596); unused brokers after a used one are kept (`found`,
`MqttEcalBridge.cpp` 110-136), and get a bridge; a type topic overrides
`static_ecal_type_name`, contrary to the repository's README; usage and README
name `--config=`, `main` accepts `-config=` (`MqttEcalBridge.cpp` 419).

## Proofs

Constants are arbitrary within the named assumptions of the modules. Every
safety invariant of the passing runs and the two refinements are proved, as is every action property.

`BridgeLinkProofs`. `TypeCorrect` and `SupervisedHasLoopCorrect`: the inductive
invariant `LoopInv` adds to the property that `loop_started` and a running
network thread imply each other, and where in its code main may be without them.
`FlagRaisedSubscribedCorrect`: the action property needs the strengthening
`PrefixInv`: while `on_connect` runs for a session that is up, exactly what the
loops have passed is subscribed, so at the end all topics are. An `on_connect`
whose session was replaced cannot see the link up, since only the same thread
could process the next CONNACK. `ConnectedMeansSubscribedCorrect` assumes
`~SubscribeMayFail` and uses `SessionInv`. `SubscribedMeansConnectedCorrect`
assumes that no topic is subscribed twice or that `subscribe()` fails only for
want of a connection: with neither, it may fail on the second time a topic comes,
with nothing missing and the flag down. `ExactInv` is the converse of `PrefixInv`:
nothing beyond the index is subscribed, so a failure leaves something out.
`GreetedMeansHealthyCorrect`, the safety half of `Recovers`, follows from
`SessionInv` and `SubscribedMeansConnected`: outside `on_connect` a session that
is up has all its subscriptions, hence the flag. `ImplementsSessionCorrect` maps every
step to a step of `SessionLink` or a stutter; `PrefixInv` is what makes the end of
`on_connect` a `Raise`.

`DescriptorRelayProofs`. `MutexInv` says who holds which mutex at which place;
`IterationUndisturbedCorrect` follows, since a map is written only by the holder,
and so does `HoldersProceedCorrect`: only the descriptor thread takes a second
mutex with one in hand, and the registration thread never waits with one.
`EndInv` ties the flags and threads to the places of the destructor and gives
`DestroyedQuietCorrect`: for every bridge as to the descriptor thread, for
eCAL's last user as to the registration thread. `VersionInv` bounds what the maps and a sample in flight
hold by what was announced, which makes every step of `DescriptorRelay` a step
of `MetadataMirror` or a stutter: `ImplementsMirrorCorrect`, under the assumption
`MetadataTopicsDistinct` (two eCAL topics with one metadata topic would
overwrite each other's; the program does not check it). `MetadataMovesForward`
then needs the mirror's steps alone: `Ordered` is inductive there, and with it no
metadata topic goes back to an older registration.

`MqttIngressProofs`. For all routes, messages and hash functions. The last route
that matches exists (`ListLemmas`), and for an unambiguous topic it names the
topic for the purpose that the first flag gives: `OwnContentCorrect`. For
`CacheHonestCorrect` a step of `on_message` either leaves table and publisher
alone or writes both, and by `SoleSource` no other topic writes the latter.
`HandledShownCorrect`: only `on_message` takes a message from a session that
stays up, and what it then skips is on the publisher by `CacheHonest`.

`BridgeLifecycleProofs`. For any number of bridges. `CountInv` says how many
users each library has at each place of main, exactly if no bridge missed its
`lib_init`, and at most so otherwise; `TypeCorrect` needs it for the ranges of
the counts. `PlaceInv` says for each bridge, by whether main is before it,
beyond it or at which of its statements, what may run in it and what exists.
`PublishersOutliveUseCorrect` and `CallbacksHaveBridgeCorrect` follow from the
places. `HeldInv`: if no bridge up to b missed its `lib_init`, the references left
and those given up cover all of them, whatever the bridges behind b did.
`MatchedInv`: whose threads use the library did not miss it. These give
`LibraryHeldCorrect`, for an arbitrary mixture of bridges that failed and did
not. `EcalInv` does the same for eCAL (`EcalHeldCorrect`); there the bridges that
count are those with publishers. `StopInv`: once its destructor has begun, a
bridge's descriptor thread is told to end. It gives `WaitsOnlyShrinkCorrect`: a
join waits for less and less. That the waits end, and the program with them
(`ShutdownEnds`), depends on fairness and is left to TLC.

`ConfigurationProofs`. For files of any length. `FillInv`: a map that was filled
up to a section holds the first valid values of each name so far, and its keys
are the names of the valid values (`InsertHolds`). `PruneInv`: after the pruning
the topics are those whose broker is wanted, and no needed broker is missing,
in spite of the `found` flag. `BridgesInv`: bridges are distinct and stand for the
brokers visited. `RoutesServedCorrect` combines them at the end. `FoundInv` says what the
flag that is not reset leaves: before every broker that stays, or at it, there is
one that is used; with `FirstInv`, bridges come in the order of brokers, this
gives `FirstBridgeServesCorrect`. The assumption
`FileAssumption` is that sections are named.

Only model-checked: the liveness properties `Recovers`, `DestructorReturns`,
`RelaysLatest`, `CatchesUp`, `EarlyMessagesShown` and `ShutdownEnds`, since
fairness and ENABLED are out of the prover's reach, and of course the violations.

## Not modelled

- Formatting, logging (`utils.h`, `stringutils.h`, `printVerbose`, `on_log`) and
  the verbose listing of the routes: output only.
- The command line (`main`, `getArg`, `ExePath`): it is read before anything runs.
- Which mosquitto options are set for which settings (364-535): a sequence of
  library calls, any of which may fail and end the initialisation; that is what
  `InitFails` and `initMqttFails` say.
- The syntax of YAML, values of a wrong type (the program aborts while reading),
  gateway-wide settings, client ids.
- The content of payloads on their way from eCAL to MQTT: `ecalMessageReceived`
  publishes in a loop over constants. Entries that share an eCAL topic each have
  a subscriber, and each callback serves all of them, so N entries publish every
  message N times.
- Reconnection of bridges that are not supervised: the library's, as in
  `BridgeLink` after data were exchanged.
