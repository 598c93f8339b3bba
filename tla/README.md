# Verification of the CoD: Black Ops Zombies port host

The repository is a loader that runs the Android build of a game by emulating
the Marmalade S3E host it was written against. This directory holds TLA+ models
of the parts of the host with a state machine worth checking, the TLC runs over
small instances of them, and machine-checked proofs of the most important
results.

## 1. The system

### Components

| Component | Source | State | Operations |
|---|---|---|---|
| Timers | `src/s3e_timer.c`, `src/s3e_host.c` | ordered list of one-shot timers, a sequence counter, a mutex | set, cancel, dispatch a pass, clear |
| Sockets | `src/s3e_socket.c` | 32 slots with a generation, four one-shot callbacks each | create, close, connect, accept, readable, writable, pump |
| DNS lookup | `src/s3e_socket.c` | one lookup in flight, owned in turn by caller, thread and pump | start, resolve (thread), cancel, pump, shutdown |
| ZeroConf | `src/s3e_zeroconf.c`, `src/mdns_wire.c` | 4 searches, 4 publishers, discovered services, retired ids | start/stop search, publish, update, pump, shutdown |
| Audio | `src/s3e_audio.c`, `src/s3e_audio_unit.c` | sound and music slots, a finish flag set by the mixer thread, the voice unit | play, stop, pause, register, service finished |
| Input | `src/s3e_input.c` | pointer, two touchpads, keys with live and published state, cursor mode | pump, update, query, register, shutdown |
| EGL | `src/s3e_egl.c` | window, one surface, one context with a deferred destruction | create/destroy/make current, terminate, shutdown |
| GL presentation | `src/s3e_gl.c`, `src/codboz_frame_interpolation.c` | letterbox mapping, pacing clock, frame history | swap, bind framebuffer |
| Memory | `src/s3e_memory.c` | eight heaps under a mutex, a user manager for each thread | heap create/destroy/address, set and get the manager, shutdown |
| Files | `src/s3e_file.c` | archive index, table of in-memory files | open, close, check, redirect |
| Configuration | `src/s3e_config.c` | up to 512 entries | set, find, conditions, integer references |
| Device id | `src/device_id.c` | a file with the id, a once flag | load or create |
| Runtime and lifecycle | `src/s3e_runtime.c`, `src/main.c`, `src/s3e_host.c` | quit flag, stub table | yield, pumps, start, stop |
| Setup scripts | `packaging/ports/codboz/` | files on the card: archive, partial download, library | check, download, verify, extract |

`s3eDeviceYield` is where the components meet: on each call the guest's thread
runs the input, audio, ZeroConf and socket pumps and then the due timers. Every
pump calls the guest back, and a callback may call any S3E function, the yield
included, so each component is re-entered from inside its own dispatch loop.
The S3E API the host offers has no call that starts a thread, so the guest is one
thread, except for the voice unit's two callbacks, which SDL's threads run. The
other threads are the mixer's, which flags channels as finished, and the one
that resolves a name.

### What is hard here

* A dispatch loop that calls the guest with its lock released or over an array
  the guest may change: timers, sockets, ZeroConf, audio.
* Handles that are slot numbers or slot addresses without a generation: sockets,
  ZeroConf searches and publishers.
* Ownership passing between threads: a DNS lookup has four possible owners.
* Flags set by another thread and read by a pump: audio completion.
* Deferred destruction: the EGL context that is destroyed while it is current.
* Work cut short by a crash or a lost connection: the setup script, the device id, a start
  of the loader that fails at any of its stages.
* The same question answered twice, by two walks through the file system: whether a file
  exists, and what opening it opens.
* A callback that plays on the very channel it is told of, in the midst of a play.

The properties that make each component correct, in a sentence: a timer is
called at most once, in order, never overlooked and always in the end; an event
of one socket never reaches the callback of another; a lookup is freed once, by
one owner, and never called back after its cancellation; what the game was told
of a service is what the host knows of it, and an identity it holds is not
freed under it; a channel plays what its slot holds and gives it back when it is
done; nothing stays pressed that nobody presses; what a run of the setup
leaves behind is never taken for the game's data and never blocks the next run; and the
host keeps one context, one identity and, while the power stays on, the player's writings, and leaves nothing behind
in whatever way a run ends.

## 2. Modules

| Module | Models | State and actions against the code |
|---|---|---|
| `TimerService` | what the timer API promises | a set of armed timers, of which only the earliest due goes off |
| `S3ETimer` | `s3e_timer.c`, `clear_timers` | `timers` is `g_timers`, `passes[t]` the stack of `dispatch_due_timers` frames of a thread; one action for each critical section |
| `DnsLookup` | `s3eInetLookup` and its thread in `s3e_socket.c` | `current` is `g_dns_lookup`; `done`, `cancelled`, `detached` are the lookup's flags; `resolver` is where its thread is; `joining` is a thread blocked in `pthread_join`; `frees` counts calls of `free` |
| `Configuration` | `s3e_config.c`, the settings `s3e_host_set_config` makes | `unread`, `section` and `active` are the reader's; `entries` is `g_config_entries`; `control` is what `config.txt` gave |
| `ConfiguredLookup` | the two together | each lookup asks for a name, and its thread resolves the one `s3e_multiplayer_resolve_hostname` gives for it |
| `SocketSlots` | the slot table and `s3e_socket_pump` | `slots` is `g_socket_slots`; `pumps` is the stack of pumps, each with its snapshot, the entry it is at and the callback of that entry |
| `ZeroConfSearch` | searches in `s3e_zeroconf.c` | `searches` is `g_searches`; `work` is where the pump is; `live` and `retired` are the identities allocated and `g_retired_service_ids`; `heard` is the history of what the game was told |
| `ZeroConfPublisher` | publications in `s3e_zeroconf.c` | `publishers` is `g_publishers`, its instants kept as the time until they come; `listeners` is what those who listen know |
| `SdlMixer` | SDL_mixer, as the code uses it (external) | what each channel plays, the library's lock, the finished flags, the chunks not freed |
| `SoundChannels` | sound channels in `s3e_audio.c` | extends `SdlMixer`; `slots` is `g_sound_slots`, `frames` is the guest's stack of play, stop and pump, each at the step between which the mixer's thread may run |
| `MusicChannels` | music channels in `s3e_audio.c` | extends `SdlMixer`; `music` is `g_audio_slots`, `calls` the guest's stack of play, stop and pump |
| `VoiceUnit` | the voice unit in `s3e_audio.c`, `s3e_audio_unit.c` | the two callbacks, the microphone and the mixer's post-mix; `capturing` and `rendering` are what SDL's two threads run; `voice` is the guest's call and its step |
| `GameAudio` | both on one mixer, and `audio_shutdown` | the guest's calls one at a time, the threads at any time |
| `InputPump` | `input_pump` and the keyboard in `s3e_input.c` | `live` and `published` are the two key tables, `work` is the rest of the pump as a sequence of tasks, one change and its callback at a time; `told` is what the game heard last |
| `GameSetup` | `CODBOZ.sh`, `codboz_setup`, the payload's writing in `codboz_apk_extract.c` | the files on the card as none, wrong or right; one action for each step of the script; cancels and power cuts between any two |
| `EglContext` | `s3e_egl.c` when SDL owns the display | `g_sdl`'s fields; `alive` is SDL's contexts, `held` the one the game was last given |
| `DeviceId` | `device_id.c` | `idFile` is what the file system shows, `idCard` what the power leaves; `idStep` is how far the first request is |
| `FileStore` | `s3e_file.c` | `disk` and `archive` are where each name is; `user` is whose the player's copy is; `open` and `tracked` are the open files and `g_memory_files`; one action for each call |
| `HostLifecycle` | `main.c`, `s3e_host.c`, the heaps of `s3e_memory.c` | `stage` is how far `main` is; starts, failures, the game's calls, the return, kills and power cuts, run after run |

Each `MC` module gives its component the small sets that TLC needs, and each
`.cfg` is one run. The modules ending in `Proofs` have the proofs of section 5.

Composition: `S3ETimer` implements `TimerService` (`ServiceSpec`, through
`INSTANCE TimerService` with the list read as a set); `ConfiguredLookup` puts the
configuration before the lookups that rest on it; `GameAudio` puts music and voice on the
one mixer, whose lock the rendering thread holds while the guest waits;
`HostLifecycle` composes the context, the identity and the files with the stages of `main`
that open and close them. The pumps share no state but the guest's thread. In every
model the guest may call any function of the component whenever it has
control, which contains the one order in which `s3eDeviceYield` calls them.

### Abstractions

* A callback is a flag or a frame: from the moment it is set the guest has
  control, inside the pump, and may call whatever the model offers, until an
  action of its own returns.
* `S3ETimer` runs two threads although the guest has one: the mutex is there for
  several, and the results hold for any number. The 64-bit sequence
  never wraps.
* `Configuration`: a line has been taken apart into a section, a condition or an entry;
  the host's settings stand for their kinds. A key is cut off as the table's field cuts it. Of the
  texts, the two that a flag is set to begin with a number (`NumberIn`).
* `SocketSlots`: the kernel is a free choice of the events a poll reports. Calls
  that only touch the kernel's socket, and error codes, are left out. A socket that
  is not polled has an entry without events, which the pump passes over.
* `ZeroConfSearch`: a packet is a sequence of parsed records, applied to a search one
  step each; names, addresses and
  texts are small numbers; text 0 of a record that gives one is a text the code refuses, after it may
  already have made the entry for it. Which records expire is a free choice. No packet is
  processed inside a callback (the pump refuses), so the sequence number the
  code compares after each callback never differs and is left out. A freed
  identity may be handed out again, as `malloc` does.
* `ZeroConfPublisher`: a send succeeds or fails, and a listener hears all or
  nothing.
* `SoundChannels`, `MusicChannels`: volumes and the conversion of samples are left out, and
  how a file is found; a paused sound channel is one whose sample does not end.
* `VoiceUnit`: samples are left out, and of a rate only whether it is known.
* `InputPump`: of positions it is left open whether they moved; the polled pointer state
  and the getters are left out. The two callbacks of a touchpad first pushed are one.
* `GameSetup`: what a card loses of writes that were not flushed is left out, and
  so are the failures of the tools themselves (`sha256sum`, `rm`).
* `EglContext`: a context is its address. With the driver's own EGL nothing of this
  state changes; configurations and the error last set are left out.
* `DeviceId`: 16 random bytes are a model value; the move into place is not flushed, so
  the power may take it back.
* `FileStore`: of contents only whose they are. Reading and writing hand on to the C library.
  A player's file is never flushed, so the power may leave it as it was before or gone
  (`CopiesLeft`); deleting and renaming below the root are taken as done. A file opened to be changed in
  place of which no copy can be made is the game's own, and what is written into it is not followed.

## 3. Runs

| Run | Module, configuration | What it shows | Bounds |
|---|---|---|---|
| `timers` | `MCS3ETimer` | no pass overlooks, repeats or reorders timers, whatever callbacks and the other thread do; the list implements `TimerService`; a due timer leaves the list | 2 threads, 3 events in a list of 2 (so that it is full), nesting 2, 2 instants, 3 timers ever set |
| `dns` | `MCConfiguredLookup` | a lookup is freed once, by one owner; a cancel is final; the pump never waits for a name server (a synchronous lookup does, in the game's own call, and nothing is claimed of it); every lookup ends, and one not cancelled is answered; it goes to the server the configuration tells of, whose flags the game reads as texts and as integers | 3 lookups, one after the other: one in a callback, one current, one detached; a table of 4 entries (so that it is full); 7 executables, 4 config files |
| `sockets` | `MCSocketSlots` | each callback is made at most once, on the socket it was given for, and lost only for a reason | 2 slots, nested pumps, 3 generations (a slot is taken, closed and taken again), 2 callbacks |
| `zeroconf_view` | `MCZeroConfSearch`, `MCZeroConfSearch.cfg` | between packets, the game has been told exactly what the search knows | 1 search, 1 entry, an address cache of 1 (so that it is full), every record of one service changing, going and expiring |
| `zeroconf_ids` | `MCZeroConfIds.cfg` | no identity leaks, is freed twice, or is freed under a callback; the game hears found, updates, lost in that order | 2 searches of 2 services, restarted by their callbacks, failing allocations |
| `zeroconf_publish` | `MCZeroConfPublisher` | a change is announced once, spaced from the last announcement, and reaches listeners although sends fail | 2 publishers, 2 texts, a second of 2 units and a minute of 3 |
| `sound` | `MCSoundChannels` | a channel plays what its slot holds, no chunk is lost or freed under the mixer, and a played channel is given back | 1 channel, 5 chunks, all three callbacks, the generator included, 4 functions deep |
| `audio` | `MCGameAudio` | no music is lost or freed under the mixer, the game is told what the mixer does, and no voice callback runs that is not the one given | 2 channels, 2 chunks, 2 calls deep, 2 voice callbacks |
| `input` | `MCInputPump` | nothing stays held that the controller does not hold, and the game hears a release for each press | two keys, one with the button that the cursor presses, one with a trigger; one stick; every sample |
| `setup` | `MCGameSetup.cfg` | a complete setup is right, a cut-off payload is never accepted, and no leftover blocks a later run | 2 archives |
| `setup_unverified` | `MCGameSetupUnverified.cfg` | a violation, see section 6 | 2 archives |
| `host` | `MCHostLifecycle` | one context, never lost or deleted while the game has it; one identity, told for ever; what is found opens; the player's writings last, but for a loss of the power; every end leaves nothing behind | 2 contexts, 2 identities, a texture group and a player's map, 1 file open at a time, 1 heap, 3 disks, 2 archives; contexts and identities symmetric |

The bounds are the least at which the cases the properties are about occur: a
table that is full, a slot taken again while an older pump still names it, a
callback inside a callback, a second attempt, a second run on the first one's disk. One
more of each brings
no new kind of interaction, since no handler looks at more than one entry, one
slot or one earlier generation at a time. Some bounds only cut the exploration:
the depth of the stack (`MaxDepth`, `MaxFrames`, `MaxCalls`) and the number of
things ever created (`MaxSequence`, `MaxGen`, `MaxReg`, `MaxLookups`); at the bound
a guest call is not taken, and nothing else is affected. `MaxEntries` is the code's own
limit made small, and so is the capacity of the timer list. `dns` is checked without
deadlock detection because the host really stops after its shutdown.

The type invariants are not among the runs' properties; those of the timers, the sockets
and the setup are proved, and the inductive invariants of the other proofs hold the
types their arguments need.

## 4. Fairness

* `S3ETimer`, `SoundChannels`, `ZeroConfPublisher`: the game's main loop yields
  once a frame, so a pump is entered again and again; callbacks return; code
  that runs keeps running.
* `SoundChannels` takes strong fairness for its own steps because the mixer's
  thread takes and releases a lock they need, and for the return of the callback
  at each depth of the stack, since a callback's own calls disable its return
  meanwhile.
* `DnsLookup`, and with it `ConfiguredLookup`: `getaddrinfo` returns, threads are
  scheduled, the game pumps. Cancel and shutdown have no fairness: they may never come.
* `ZeroConfPublisher`: a send that is tried for ever is at some time sent.
* `GameSetup`: the user launches again and copies the right APK, and what can
  fail does not fail every time. `PlaysInTheEnd` starts from the moment
  (`patient`) after which nobody cancels and the power stays on; that
  moment may come in any state the card can be in.
* The other modules state safety only and assume no fairness.

## 5. Proofs

All hold for every value of the constants, from the assumptions named there
(`TimerConstants`, `LookupConstants`, `SlotConstants`, `NAssumption`, `NoNullContext`,
`NoNullId`, `StoreConstants`, `SearchConstants`, `PublisherConstants`, `MixerConstants`, `SoundConstants`,
`MixLockIsNoChannel`, `ConfigConstants`, `InputConstants`): that limits and delays are numbers, channels
are 1 to n, null is not among the addresses, what lies on a disk or in an archive lies where the
code looks, the keys the host sets itself fit an entry of the table, and the keys of the game are
set in one order and released in another.

`S3ETimerProofs` proves `TypeOK`,
`Ordered`, `OneTimerPerEvent`, `NothingOverlooked`, `PassFiresOnce` and `PassInOrder`. None
of the last three is inductive. The invariant `IInv` adds that

* the list is ordered by due time and age, holds an event once, and holds no timer
  newer than the sequence counter (`QueueInv`);
* every pass on every stack read a clock and a limit that are in the past, a timer
  younger than its limit is not due before the clock it read, and a timer it
  may still call comes after, and is for another event than, all it has called
  (`PassInv`).

The clause about younger timers carries the argument: a timer set during
a pass is due no earlier than the pass's clock, so in an ordered list it never
stands before one the pass still has to call. Because callbacks and other
threads change the list under a pass, `PassStable` shows that `PassInv` survives
every change that drops timers or adds one set just now (`ListStep`), and each
action is then shown to be such a change. What inserting and removing at a position do
to a sequence are lemmas of their own.

It also proves `Spec => ServiceSpec`: the code's list, passes and
threads implement the service's one set of armed timers. Beyond `IInv` it needs
`CallsInv`: a timer that is being called has left the list, and no two
passes call the same one; so when a pass takes the head, exactly one
timer leaves the set, and it is the earliest due.

`DnsLookupProofs` proves `OneOwner`, `CancelledNeverCalled` and
`PumpNeverWaitsForDns` of `DnsLookup`, and (`ConfiguredAreLookups`) that a configured
host's lookups are behaviours of it. The invariant `LookupsInv` says for every lookup who
holds it, how far its thread is and what its flags tell each of the other (`LookupInv`);
handing a lookup from one owner to the next is safe because the flag the thread
reads and the one the pump reads are set under the one mutex.

It proves `OnlineAsTold` of `ConfiguredLookup`, too, for any executable, player's file and size of
the table. A table is read through its first entry of a name, and a host's setting replaces
that entry or, if there is none and room is left, is added: so `SettingIsRead` says what each name
gives after a setting, and `HostSettings` after all of them, set where the table has
room (`AllSet`), each a text that reads as the integer it says (`TextsAreRead`), and missing from a full one (`Empty`), never the game's own in their place. An
integer that refers to another key is followed five deep; the proof goes through the depths one by
one, since the code's limit is a number. `TableInv` says what the table holds once it
is configured, and `AskedInv` that the game asks only then, for the name the table gives.

`SocketProofs` proves all four properties of the `sockets` run for any number of slots,
pumps and registrations. `SocketsInv` adds that a callback in a slot was given
for the socket that is there now, is in no other place, and was not made (`WaitInv`);
a pump looks at a slot only while its generation is the one it
polled, so what it calls was given for the socket it polled (`MadeInv`).

`GameSetupProofs` proves `TypeOK`, `PayloadRight` and `CompleteIsRight` for any number
of archives. The invariant: an archive is downloaded
only after the payload has been written whole, and the payload is written only
while an archive is missing. So all archives being there implies that the payload
is right, at every moment a run may be cut off; that the payload's file
is written in place is harmless for that reason only.

`HostProofs` proves `OneContext`, `HandedOutLives`, `IdKept` and `LeavesNothing` of
`HostLifecycle`. `HostInv` has a part for each component (`EglInv`, `IdInv`) and one for the
stages (`StageInv`), which ties how far `main` is to what must be held there; a lemma
shows for each component that its own steps and the shutdown keep its part, and `HostStep`
brings them together. Of the files it proves `FoundOpens` and `WritingsKept`, from the types alone
(`StoreTypeOK`): the two walks through the file system are two definitions, and the
proof is that the places one finds are among those the other opens.

Of `InputPump` it proves `InputTyped`, `NothingStuck` and `ToldAsItIs` for any keys, sticks
and triggers. `PumpInv` says what the rest of a pump still owes: before the controller is sampled
(`ToScan`) nothing is held that it does not hold, and if it went, each thing held has its release
before the closing; in cursor mode (`ToPoint`) each key and touchpad held is still to be released,
and the pointer is set last; in game mode (`ToPlay`) each is held by the sample or still to be
set from it. Whatever the game does in a callback only lets go. That the cursor's button
has been seen whenever the pointer is down is part of it: else a release could be overlooked. `ToldInv`
needs the types alone.

`ZeroConfProofs` proves `OneHolder`, `CallbackIdLives` and `HeardInOrder` of `ZeroConfSearch`
for any searches, entries and packets, `HeardInOrder` where every search has a found callback:
a search without one takes a service for told that the game never heard of. Its invariant
is `Consistent`: an identity not freed is held by exactly one entry or kept (retired, or being
lost); nothing was heard of one that is free or whose entry is not notified. It is stated of
any searches, identities and history, not of the state, so that a step of the pump is a
composition: what a record does to a search is one of two outcomes (`Outcome`: the same
entries with other records, or one entry more), and the code after a lost callback frees what was
kept and then revises, clears or tells of the entry. Entries can never use up the identities
(`IdLeft`, a pigeonhole), so one that is allocated is new. `CallInv` ties the
pump to the search its callback may have stopped: the generation it remembers is not 0 and not
one that a later search is given.

`ViewCurrent` is proved where `malloc` does not fail and every packet is `Orderly`: of known hosts,
and giving no record anew that it withdraws (section 6 says what happens otherwise). The run's
packets are (`OrderlyPackets` in `MCZeroConfSearch`, which TLC evaluates), and the code
meets others only from a responder that takes a record back and gives it in one packet. `ViewInv`
says of each entry, by where the pump is, that it is `Right` (what the game was told is what its
records say), `Midway` (the rest of the packet has still to be applied, and may give back what was
withdrawn) or `Pending` (the search has not come to it yet, and what differs from what the
game was told is marked as changed), or that it was told just now. What a record does to an
entry is shown for each kind of record, and the pump's other steps only move the place at which
entries stop being right.

Of `ZeroConfPublisher` it proves `PendingWhenChanged` and `ChangesSpaced` for any publishers,
texts and delays. `PublisherInv` adds that a change that waits is never due before the
interval since the last announcement has passed (`dueIn + sinceLast >= TxtInterval`), which
each further change, each failed send and each tick keep.

`SoundProofs` proves `ChunksHeld` and `PlaysItsSlot` for any number of channels and any depth
of callbacks, where the run has one channel. `StackInv` says that a function below
another waits at a point where it owes its slot nothing, so only the innermost is ever between two
changes of one; `ChannelInv` says what that one finds: from its halt to its start the channel is
silent and the mixer's thread not about to mark it, although the mark is cleared without the
library's lock; `OwnsInv` says who holds each chunk, the one that a play carries from its load to its
slot included.

`GameAudioProofs` proves `PlaysAsTold`, `StreamsHeld` and `VoiceOnlyAsTold` of `GameAudio`. `MusicInv`
has the same parts as the sound's, with one difference: a play tells of the stop of the old music
between emptying its slot and loading the new, and what the game plays meanwhile on the same
channel would be lost. So the parts hold of channels outside `contended`, and `EmptiedInv` says that
a slot emptied by a play that is still telling stays empty. `VoiceInv` says who may be in a
callback and what a call of the guest's has undone or done at each of its steps. Lemmas show
that the music's steps never take the lock from the thread that renders voices, and that
nothing of the voice unit changes what the music rests on.

Only model-checked: the liveness properties, `DueTimerLeaves`, `LookupEnds`, `LookupAnswered`,
`TextReachesListeners`, `FinishedIsServed` and `PlaysInTheEnd`, since fairness and ENABLED are out of
the prover's reach. Every other property of a passing run is stated by a theorem.

## 6. What the models found

* `setup_unverified`: `codboz_setup:229` gives a download its final name before line
  254 verifies it. Cut off in between, a wrong archive stays, and `CODBOZ.sh`
  (93, 97), which looks at names and sizes, starts the game with it. Running
  `codboz_setup` again repairs it; the launcher does not run it again.

No document says otherwise of the following, so the properties except them, each by the
name given:

* When one packet withdraws a service's port (ttl 0) and gives another, the first record
  clears `has_srv`, so the second finds nothing to compare with
  (`s3e_zeroconf.c:663`), and the game keeps the old port. `zeroconf_view` shows
  that `ViewCurrent` holds of packets that do not do this; with
  `<<SrvGone, Srv(1, 1, 2)>>` added to `MCPackets` it fails.
* A stop callback that plays on the very channel whose play is telling it loses its
  music: the outer play takes the slot over (`s3e_audio.c:893`; `contended` in `StreamsHeld`
  and `PlaysAsTold`).
* A context destroyed while current and created again before it is released is
  handed out once more, and deleted at the release (`s3e_egl.c:694`, `372`; `again` in
  `HandedOutLives`).
* A player's file is copied in place from the game's own, and the result of the copy is
  not looked at: cut off, it stays and is preferred from then on (`s3e_file.c:427`;
  `part` in `FileStore`). When there is no copy at all, opening it to be changed (`r+`) opens the game's own
  file in the assets, and changes that (`s3e_file.c:446`; `OpenInPlace`).

Seen while reading, and modelled by no module: `main.c:306` unmaps the executable before
`s3e_host_shutdown`, in which `input_shutdown` calls the game's callbacks for every
key still held; and the framebuffer that `s3e_gl.c` takes for bound is not reset when
it is deleted or its context destroyed.

## 7. Not modelled, and the plan

`PROJECT.json` lists every component with the reason. Left out for good: packet
encoding, the network interfaces, the image loader, the patches to the executable,
drawing and the pace of frames, the vendored decoder, the build scripts. They are
sequential functions of bytes or floats, or pure input and output. Of the components
modelled in part, what is left out is named in their notes: volumes and rates of the sounds,
the input's getters and positions, EGL configurations, the reading and writing
of files, the resolution of imports.

Next:

1. The framebuffer and the touch overlay of `s3e_gl.c` on `EglContext`.
2. Volume and rate of `SoundChannels`.
