# A verification project for the SCHC worker

The repository builds `schc_worker_linux`, a worker that carries IPv6 packets
over a slow link with SCHC header compression and fragmentation. It intercepts
packets on a TUN device, turns CoAP into OSCORE, hands them to the SCHC SDK, and
moves the SDK's fragments over an ahoi acoustic modem; packets received take the
way back. These modules model its concurrency and control, TLC checks them on
small instances, and TLAPS proves the main results for every instance.

## The system

| Component | Source | State | Operations | Hard about it |
|---|---|---|---|---|
| Main loop | `applications/schc_worker_linux/src/main.c` | `mgt_process_request`, `terminate_flag` | initialise, loop, signal handlers, terminate | signals between any two steps; a plain flag set and cleared from several sides |
| Adaptation layer | `.../src/schc_al.c` | `tun_fd`, `event`, `processing_required` | init, TUN handler, process, transmission result, data received, terminate | one packet at a time; a blocking read after an event; refusals half-way |
| Ahoi L2 | `l2/ahoi_posix_host/src/fullsdkl2a.c` | `ahoifd`, `event`, receive buffer | initialise, send, downlink callback, process, deinit | results reported later than they happen; all events cleared together |
| Watched descriptors | `platforms/linux/src/platform.c` 30-84, 260-287 | `_watched_fds` | watch, unwatch, poll and dispatch | a table with an end marker, no holes, a full table without a marker |
| Timers | `platform.c` 86-200 | `TimerEvent_t`, the kernel timer | set value, start, stop, reset, handler | the handler interrupts start and stop |
| SCHC SDK | not in the repository | a packet under way, records of what happened | `mgt_process`, `net_sendto`, callbacks | known only from its calls and the logs in `tests/logs` |
| OSCORE, sequence number | `.../src/uoscore_integration.c` | keys, a file with the number | derive, protect, unprotect, read, write | crash and restart; truncated file; widths; a payload replaced in place |
| ASCON glue | `libs/ascon_integration` | none | AEAD, HKDF, HMAC | eight-bit counters, an unsigned difference of lengths |
| IPv6/UDP helpers | `libs/net/src/udp.c` | none | checksum, lengths, filters | arithmetic at the edges, and the order of the updates |
| Base64 | `platforms/linux/src/base64.c` | none | encode, decode | padding |
| Fragmentation profiles, rules | `libs/schc_frag_apis`, `libs/schc_comp_apis` | tables | selection | the two ends must agree |
| Configuration helper | `libs/schc_commons/src/schc_helper.c` | a staged configuration | start, with, finish | the order of calls |
| Demonstration applications | `applications/delivery/lpwan_model` | as the main loop | two loops | as the main loop |

One thread runs everything. `main()` tests `mgt_process_request` and runs the
SDK's `mgt_process()`, which looks at expired timers, calls `l2a_process()` and
looks at what that recorded; it then runs the adaptation layer, which may call
`net_sendto()`, which may call `l2a_send_data()`; then it waits in `poll()` for at
most 100 ms and runs the callbacks of readable descriptors, which set events and
requests. Timers (SIGUSR1) and SIGINT/SIGTERM interrupt it anywhere.

What makes each part correct:

* main loop: no request is lost, a signal ends it, every exit closes what is open;
* adaptation layer: it knows whether the SDK has a packet, never waits in
  `read()`, accounts for every packet, and with OSCORE required sends no CoAP request
  or response in the clear (a message of CoAP's messaging layer, which has neither code,
  goes down as it is: `tests/logs/schc_worker_oscore_client.log` 210-218, 288-296);
* L2: every fragment sent has one result, and every frame is read;
* descriptors: a map from descriptors to callbacks;
* timers: stopped is silent, started is running, every start ends;
* compression rules and profiles: a message arrives as it was sent, whichever rule was
  used, and its fragments mean the same at both ends;
* OSCORE: a datagram whose payload is replaced stays valid; it comes out as it went in,
  or with the message uoscore restored in its place, which for a notification lacks the
  value of Observe (server log 155 and 240, client log 203-205 and 281-283); keys are
  derived as RFC 5869 says; the file with the sequence number never gives one that was
  replaced, whenever the process dies. (That a started worker consults the file is not
  claimed: "Security context is fresh, SSN initialized to 0", line 13 of both logs, says
  that it starts from 0.)
* configuration helper: the SDK is given what was set since a configuration last ended
  or was given up, in any order of calls, and every value on the heap is freed once.

## Modules

| Module | Models | Correspondence |
|---|---|---|
| `FdWatchSpec` | what `platform.h` promises of watch, unwatch and the wait | a map `watched`, and the descriptors `owed` a callback |
| `FdWatch` | the table in `platform.c` | `table` is `_watched_fds`, slot by slot; `fds` is the copy given to `poll()`; `Watch`, `Unwatch`, `Poll`, `Dispatch` |
| `PosixTimer` | the timers | `duration`, `started` are the object's; `armed`, `pending` the kernel's; each call is cut at the test, the system call and the store, where the handler can come in |
| `Platform_proofs` | | `FdWatch` and `PosixTimer`, the two halves of `platform.c`: the invariants, the refinement |
| `SchcAl` | the adaptation layer | `alEvent`, `alRequired`, `tunFd` are `event`, `processing_required`, `tun_fd`; one action per handler and per outcome of `schc_al_send_down` |
| `SchcAl_proofs` | | the invariant, the account of the packets |
| `AhoiL2a` | the L2 | `l2Event`, `l2Fd` are `event`, `ahoifd`; one action per function; the SDK's records are external |
| `AhoiL2a_proofs` | | the L2 with any caller: the result of a fragment, the events |
| `Worker` | the composition, `main.c` | instances of `SchcAl` and `AhoiL2a` over shared variables, `pc` for the place in `main()`, the SDK as external definitions |
| `Worker_proofs` | | no lost wake-up, no stranded packet; the worker implements `SchcAl` and `AhoiL2a` and inherits their theorems |
| `SchcConfig` | the configuration helper | `initialized`, `table`, `params` are `initialized`, `staging_config.params`, `template_params`; `blocks` counts the heap, `staged` and `sdk` record what was set and what the SDK was given; one action per call and per failure of `config_schc` |
| `SchcConfig_proofs` | | the invariant, and what it gives |
| `SchcRules` | the compression rules: `outerrules.c`, `innerrules.c`, the template | a rule has its identifier, its stack and a function from fields to entries (matching operator, action, target value); the operators below the tables are the SDK's (external) |
| `Maps` | `:>` and `@@`, with which tables are written | as the module `TLC` defines them; given here because the proofs expand them |
| `SchcLink` | a message through both ends | `Host`, `Remote` and `Mode` are the addresses and the mode `main.c` gives each end; compression with any rule that applies, the default identifier when none does, fragments with any library's profile, and the way back |
| `SchcLink_proofs` | | what an entry does not send it compared; the tables of the two ends agree; rules of one stack send the same; the profiles match |
| `FragProfiles` | the three libraries of fragmentation profiles | `mgt_load_profiles` gives the two profiles of a library with the direction `get_point_to_point_profiles` gives them at an end |
| `Hkdf` | `hkdf_extract`, `hkdf_expand` | `iterations` and `i` are the two counters, narrowed as the code narrows them; one action per block; a tag is the key and the message it was made from |
| `Base64` | `base64.c` | one operator per function; a character is its index |
| `OscoreNvm` | `nvm_write_ssn`, `nvm_read_ssn`, the key's encoding | `file` is what a reader of the NVM file finds; a write is `Open`, which truncates, and `Close`, which brings the lines to the file or not; `Crash` at any point |
| `OscoreContext` | a process with OSCORE, from start to crash | `Hkdf` and `OscoreNvm` in one process, which has to derive its keys before it stores numbers |
| `OscoreContext_proofs` | | the file and what is read of it, the key line through Base64, the key material |
| `NetUdp` | `udp.c` | one operator per function, on a packet as a record |
| `OscoreProxy` | what `schc_al_send_down` and `schc_al_forward_up` do to the octets of a datagram, `coap_to_oscore`, `oscore_to_coap`, the lengths of `aead()` | `pkt` is the datagram in the buffer of the worker that has it, `build` the options; one action for each outcome |
| `OscoreProxy_proofs` | | the arithmetic of the checksum, the datagram from end to end, what is given to the cipher |
| `MC...` | the instances TLC checks | values of the constants; for `SchcLink`, the messages |

`SchcAl` and `AhoiL2a` can be read and checked with callers that know nothing but
their interface; `Worker` is their real caller and joins their actions, so that,
for example, its `AlSends` is `SchcAl`'s `ProcessSend(TRUE)` and `AhoiL2a`'s
`SendData` in one step, as `net_sendto()` sends the first fragment before it
returns. `FdWatch` and `PosixTimer` stand below it, and `SchcConfig` belongs to the other
applications: `Worker` uses what they show (a
readable descriptor's callback runs; a started timer fires once).

### Abstractions

* A packet is a number and a kind: `coap` (a request or a response), `empty` (CoAP with
  neither code: an acknowledgement or a reset), `oscore`, `forged` (OSCORE that does
  not verify), `udp` (not CoAP) or `other` (not IPv6/UDP). In `SchcAl` and `Worker` each
  failure of the buffers, lengths and the cryptography is an outcome of the action that
  uses them; `OscoreProxy` has these steps on the octets of one datagram, for one worker
  down and another up, and `SchcAl`'s `DownForms` and `UpForms` are its outcomes.
* In `OscoreProxy` uoscore (external) keeps the first octet of a message and gives
  any octets for the rest, of the length that inner compression and the tag make; or it
  leaves a message whose second octet, the code, is 0 as it is (`LeaveAlone`). What it
  restores is the message or, as options are not parsed here, the message without the
  value of any octets that may be Observe (`Restored`). It may refuse any message, genuine
  ones too: a replay, the first request after a restart, a failure of inner decompression.
  Addresses and ports are known by the sums of their words. The room for a plaintext,
  `Capacity`, is uoscore's and stands for any that is smaller than the width of a length.
* The hash of `Hkdf` and the tag of `aead()` are one-way: a tag is the message it was
  computed from, and a forged message never verifies.
* In `OscoreNvm` a file is its two lines. `fclose()` brings both to the file or none:
  they are far shorter than a buffer of stdio. An `fopen()` may fail for any reason.
* A frame is the packet it completes, `part`, or `large` for one that does not fit.
* The SDK (external): `net_sendto()` accepts or refuses; an accepted packet has one
  fragment on the link at a time, waits for its result, then for the transmission
  delay; timers and L2 callbacks only record and request. All of this is read
  from `tests/logs/schc_worker_oscore_client.log`. Acknowledgements the SDK sends on
  its own are not modelled, nor are its other timers, which `PosixTimer` covers.
* One read of the modem gives one frame (external: the ahoi library).
* A signal between two tests at the top of the loop, or between two callbacks of
  one `poll()`, is moved to before or after them. The handlers set flags that the
  code between does not read, or set a record together with the flag, so the
  result is the same.
* A message of `SchcRules` is a function from fields to values. The bits of a residue
  are kept by field, a value is taken to have its field's length, and a length or
  checksum is `Right` or not. What the matching operators and actions do is not in
  the repository: it is taken from RFC 8724, and rules are tried in any order. Each
  end's own address is the device's field at that end: `main.c:118-136` exchanges
  the addresses in peer mode, and `schc_core.c:151` says the same of the other
  applications. `innerrules.c` is modelled although `get_inner_rules` does not use
  it at this commit (it gives the SDK no rules, the table `plain`).
* The two tests of `errno` in read loops are not modelled; a failed system call is
  an outcome, bounded in number.

## Runs

| Run | Checks | Bounds |
|---|---|---|
| `fdwatch` | types, no descriptor twice, the table implements the map | 3 slots, descriptors 0..3 (one more than fits, and 0, the fill of unused slots), 2 callbacks: full table, removal of first, middle and last |
| `posix_timer` | types, stopped is silent, started is running, every start ends | 2 timers, durations of 500 and 2000 ms (below and above the second where the arithmetic changes) |
| `posix_timer_race` | expects a violation, see below | 1 timer of 1 ms |
| `schc_al` | types, `ONGOING_TRANSMISSION` agrees with the SDK, no blocking read, account of packets, no request or response in the clear and nothing forged delivered, one packet at a time | 3 packets down, 2 up, of every kind, 2 failed calls: busy, refused and failed in one run of packets. `DROP_NON_COAP` is off here, unlike in the profiles, so that plain UDP takes its own path; it is on in the worker's runs |
| `ahoi_l2a` | types, one result for a fragment, events cleared only with their callback | 3 frames of every kind, 2 failed calls; `l2a_process` at any time |
| `worker` | no lost request, a result on its way, connected first, nothing left open; SIGINT ends it, results come, device and modem are drained | 2 packets, 2 frames, 2 fragments, a fault in each part: a packet arrives while one is under way, a frame while its result is awaited |
| `schc_config` | every value on the heap has its entry, the SDK is given only what was set since a configuration last ended or was given up | 3 parameters (the applications set 6), 2 values: one set again, one left over, one never set; any number of configurations and any order of calls, a `with_*()` before the first start and one after an end among them |
| `schc_config_unstarted` | expects a violation, see below | as above |
| `schc_link` | every message arrives as it was sent but for the flow label and hop limit, whichever rule is used; rules of one stack that both apply send the same; the profiles of the two ends match | both ends, four tables; every rule applies to some message, and each field also takes a value next to the rule's: another type, code, token, option, port or traffic class, an option missing or one too many |
| `oscore_context` | key material as RFC 5869 gives it, the derivation ends but for one count of blocks, the file holds the last number or none, what is read was stored last, the key line decodes | counters of 8 values in place of 256 and tags of 3 octets: up to 6 blocks (of 254), whole and cut, and the 7 (of 255) with which the loop does not end; numbers below, at and above the width of 4 in place of 2^32; identifiers of 0 to 2 octets, for each padding of Base64; any number of crashes |
| `oscore_proxy` | a valid datagram stays valid, comes out as it went in or with the message restored, other payloads go the way of the build, the cipher stays within the message | payloads of 0 to 5 octets, even and odd, CoAP and not, with the code 0, and with an option whose value is emptied; all eight builds; ciphertext octets and sums of addresses that make the checksum 0, and carries that fold twice; inner compression that shortens and lengthens; forged messages shorter than, as long as and longer than a tag, of 1 octet in place of 4 |
| `hkdf_long` | expects a violation, see below | counters of 8 values |

Bounds on packets, frames and faults end the inputs, never the reactions to
them: the thread's own actions have no bound.

Deadlock is checked in all passing runs but `schc_config`, where a call through the null
table ends the process. The worker's end is the explicit stutter `Exited`, a message's
`Done`.

Fairness. `worker` assumes weak fairness of `Main`, the steps of the only
thread (it never waits except in `poll()`, which has a timeout), and of the running
timer, which the kernel expires. It assumes nothing of packets, frames or signals.
In `posix_timer` the calls are fair once begun, and the kernel expires timers and
delivers signals; nothing makes the SDK start or stop a timer. In `oscore_context` the
loop of `hkdf_expand` keeps running once entered; nothing else is assumed of the process.

### Disagreements found

`TimerStart` marks the object as started after `timer_settime()` returns
(`platform.c:170-173`). If the timer expires in between, the handler's
`started = false` comes first and the mark stays, with nothing running: the next
`TimerStart` warns "timer already started" (`platform.c:167`) and does nothing.
The run `posix_timer_race` reaches this with a timer of 1 ms; the durations of the
profiles (500 ms and more) make it unlikely, which is the constant `EarlyExpiry`
of the other run and the assumption `SafeDurations` of the theorem.

`config_schc()` prints "Error : schc config is not initialized!" and is to return
`SCHC_CONFIG_KO` when no configuration was started (`schc_helper.c:185-188`,
237-240). On the way it calls `clean_params()`, which reads through
`staging_config.params`; before the first `start_config()` this is null, and the
program stops there. The run `schc_config_unstarted` shows it and `RefusedInOrder`
proves that after one `start_config()` it cannot happen. Both applications start
with that call. (A `with_*()` before it writes through the same null pointer:
`WithParamNoTable`.)

`hkdf_expand` (`ascon_integration.c:124-130`) stores the number of blocks in a `uint8_t`
and then refuses more than 255, quoting RFC 5869: "L length of output keying material in
octets (<= 255*HashLen)". The count is narrowed before the test, which is never
true: `hkdf_long` gets an answer "ok" for 8 blocks of a counter with 8 values, with
nothing filled in. One block less, the longest length the comment allows, and the
counter of the loop, which has the same width, never passes the count: the loop does not end.
`DerivationEnds` says that it ends for every other count; the run `oscore_context` has a
length of that one too. uoscore asks for one block.

Noted while modelling, without a run of their own, as the code does what its comments
say or nobody calls it yet:

* `nvm_read_ssn` takes any failure of `fopen()` for a new file and stores 0
  (`uoscore_integration.c:337-340`); `ReadsLastStored` counts that as a number stored.
* The worker passes `fresh_master_secret_salt` as true (`uoscore_integration.c:200`), and by
  the logs starts from 0 without reading the file: a restart with the same keys uses nonces
  again. What `ReadsLastStored` says of a read does not help where none is made.
* A `with_*()` called after a configuration has ended sets its value in the table, which the
  next `start_config()` does not clean, as it cleans only a configuration not finished
  (`schc_helper.c:45`): the value goes to the SDK with the next configuration.
* After a crash between `fopen()` and `fclose()` in `nvm_write_ssn`, or an `fclose()`
  that fails, every read is refused until the next write: the file never gives an older
  number, which is what `FileHoldsLast` says, but neither the one that was to be stored.
* `nvm_key_base64_encode` copies each identifier to the front of the buffer, and from the
  pointer instead of what it points to (line 273), so that the identifiers are not in the
  file. The comment at line 373 speaks of a mismatch of keys, the one at 366 leaves it to do.
* `schc_al_forward_up` gives `is_coap_packet` the length of the datagram instead of its
  payload's (line 233), and `oscore_to_coap` the OSCORE message's length as the room
  for what it restores (line 236).

## Proofs

All theorems hold for every value of the constants that satisfies the named
assumptions (`FdWatchAssumption` and the like), which TLC evaluates in the runs.

* `Platform_proofs`, the descriptors. The invariant adds to the types that used slots hold
  distinct real descriptors and that a slot whose callback is due still holds the
  descriptor reported. It is inductive as it stands. `Refinement` maps the table to
  a function on the descriptors of its used slots; moving the last entry into a
  hole permutes slots and leaves that function less one descriptor.
* `Platform_proofs`, the timers. `InFlight` says what each step of a call has established:
  a stop past its system call has disarmed the kernel timer, and so on. With it
  `StoppedIsSilent` is inductive. `StartRuns` needs `SafeDurations`: without it the
  race above is a counterexample.
* `SchcAl_proofs`. `Unused` (a device that is not open leaves no event and no
  packet) is needed because the layer tests events and not `tun_fd` first. The account
  of packets rests on their numbering: the device holds the last ones to arrive, in
  order. `FailsClosed` follows from the forms a packet can leave in: with OSCORE required
  a request or response leaves as `oscore` or not at all, and only an `empty` message leaves
  unprotected.
* `AhoiL2a_proofs`. For any caller, frames and faults. `ResultKnownOnce` says nothing of a
  modem that was never reached, and `l2a_initialize` sets the event flag anew, so the
  invariant adds `L2Fresh`: before that nothing is under way. `ToldOfEvents` rests on it
  too, as `Initialise` must not overwrite an event. The assumption that no frame is
  called "none" only keeps an empty record apart from a frame.
* `Worker_proofs`. Four parts are inductive only together: the SDK has looked at all
  its records outside `mgt_process()`; an event or expiry without a request means
  `mgt_process()` is under way and will still come to it; the layer's flag agrees with
  the SDK; and until the SDK knows of the link the connectivity event is pending, so
  the loop cannot reach `poll()`. `ClosesAll` needs none of this: `terminate()` is the
  only way to the exit.
  `UsesL2` and `UsesAl` show that the worker implements its two layers:
  each of its steps is a step of `AhoiL2a`, of `SchcAl`, of both at once
  (`net_sendto()` sends the first fragment before it returns), or of neither.
  `WorkerLosesNothing` and `WorkerHearsOfTheLink` carry over what the layers promise.
* `SchcConfig_proofs`. The invariant counts the heap, as many values as entries that
  are initialized, and says that the table is what was set since a configuration last
  ended or was given up (`TableIsStaged`), whatever the order of the calls. It needs that
  nothing is set before there is a table (`NothingYet`), and that `config_schc()` never
  finds a null table while started (`TableComesFirst`), which is what lets its failures
  clean.
* `OscoreContext_proofs`. `NeverOlder` and `ReadsWhatWasStored` need to know that a write
  under way has truncated the file, and that the number it holds is the one it will
  store; this is inductive for any numbers, widths and identifiers, and for any order
  of reads, writes and crashes. `RoundTrip` is about the operators of `base64.c`: whole
  groups of three octets one by one, then a rest of one or two with its padding; with it
  `KeyLineReads` follows for any octets the code leaves unwritten and any identifiers
  whose lengths, with the 12 octets added to them, fit the eight bits of
  `nvm_key_bytes_len` (`NvmAssumption`).
  `KeysAsSpecified` follows the loop of `hkdf_expand`: the last tag is the one RFC 5869
  gives the block before, and the octets of the blocks before are in place. It assumes
  `ShortEnough`, that no length needs more blocks than the counter less two: with
  more, the loop does not end or the count wraps, which is the disagreement of
  `hkdf_long`.
* `OscoreProxy_proofs`. `udp.c` adds 16-bit words and folds the carries until none
  is left, which the proof shows to be the remainder by 65535, with 65535 for zero. Hence the
  sum of a datagram with its checksum in place folds to all ones, also when a computed zero
  is sent as 0xFFFF, and changing the payload, its two lengths and the checksum
  together keeps it so (`DatagramsStayValid`). `ProxyInv` says of each stage what the
  datagram is: as offered, or protected with the payload's first octet kept, or
  restored. `SameAtOtherEnd` and `FilteredAsBuilt` read off it, with `RestoredFits`: what
  uoscore restores is octets and no longer than what it protected, so that its datagram
  has right lengths and checksum too.
  `OpenedWithin`: a message on the link has its first octet, so that the length given
  to `aead()` is a natural number; less than the tag, it wraps to more than any buffer
  has (`WrapsOnce`). `ProxyAssumption` says that payloads and the room fit in a datagram
  and that the room is less than the width of a length less the tag, as a few hundred
  octets are less than 2^32 - 4.
* `SchcLink_proofs`. First of any table: if each entry pairs its operator and action so
  that nothing is given up (`Lossless`), or names a length or checksum, a message that a rule
  applies to is restored whole (`MessageRestores`). Then of the tables as they are, for any
  addresses and ports. An entry is `Sound` if it is lossless, computed, or one of the
  two fields in `GivenUp`; the entries of the two ends are `Crossed` if
  renaming the fields that belong to an end turns one into the other. Both are shown of
  each group of entries (`BothIp`, `BothUdp`, `BothCoap`, ...), kept by `@@`, and so true
  of each rule; the rules of the two ends have the same identifiers in the same places,
  and no identifier twice (`Alike`, `TablesAgree`). `CrossRestores` then restores at the
  other end what any applicable rule compressed, and `LinkInv` says that the frame is one of those
  or the message behind the default identifier, which no rule has. `FragmentsKeepMeaning` takes
  the profiles one by one: for each library and direction there is one profile at each end,
  and it is the same but for its direction (`OneProfile`). `OrderMakesNoDifference`
  shows that the rules of a stack differ where two may not both apply (a type, a code, a path),
  and otherwise send the same fields. `LinkAssumption` says what a message is:
  addresses and ports occur once, the lengths and the checksum agree with the packet, and
  the OSCORE option is octets.

What `Hkdf`, `Base64` and `NetUdp` compute is defined by recursive functions over
data. The library's induction theorems cannot be used, but the least element of a
non-empty set of numbers can (`LeastElement`): the proofs take the least counterexample, and
where a function is defined by recursion they first show that one exists.

The types that a run checks (`FdWatch`, `PosixTimer`, `SchcAl`, `AhoiL2a`) are proved as well;
the other invariants contain what they need of the types (`NvmTypes`, `ProxyInv`,
`LinkInv`).

Only model-checked: liveness (`StartedEnds`, `Terminates`, `ResultComes`, `TunDrained`,
`LinkDrained`, `DerivationEnds`), which is out of the prover's reach. Every invariant and
every other action property that a passing run checks is also proved.

## Plan

Done: every module above, and the proofs listed.

Next, in this order:

1. That `Worker`, seen from the IP stack and the link, implements an abstract one-place
   channel: its specification, the mapping, and the proof.
2. That `OscoreContext` implements an abstract register for the sequence number, which a crash
   may make unreadable and never older.
3. The loops of the demonstration applications, once their L2 is in the repository.

## Not modelled

* The vendored cryptography, uoscore, the SDK and the ahoi library: not this code, or not
  in the repository. What the modules rely on of them is marked external.
* The demonstration applications (`device.c`, `schc_core.c`): their loops are a part of the
  worker's without the adaptation layer, and the L2 under them is in the SDK.
  `net_helper.c` builds the one packet of `device.c`. What they call of the
  configuration helper is in `SchcConfig`.
* `PATTERN_COMP` and its tables, which are not in the repository; `nvm_key_equals` and
  `nvm_key_base64_decode`, which nothing calls.
* Clock, entropy and other platform services, the creation of the TUN device: system
  calls without a state of their own. Build files, end-to-end test scripts and logs.
