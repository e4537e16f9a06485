# dvb-rs in TLA+

A verification development for `dvb-rs` / `dvbr`, the Linux DVB / px4 tuner
command line in `src/`. It models the parts where a mistake would be hard to
see in a test: several processes on one adapter, frontends that lie about
their lock, streams that fall silent, packets that get lost, and a channel
list that many scans are folded into.

TLC checks small instances; TLAPS proves the main results for every value of
the constants. `PROJECT.json` maps every definition to the lines it
translates, and lists the runs, theorems, findings and hazards.

## The system

`dvbr` is a program of short-lived processes. Nothing runs concurrently inside
one; what is concurrent is several processes, the kernel, the demodulator and
the broadcast.

| Component | State it keeps | Operations | Interacts with |
|---|---|---|---|
| Commands (`main.rs`) | command line, the flock `/tmp/dvbr-adapterN.lock`, PID set | `tune`, `scan`, `epg`, `fe-info`, `convert-conf`, `migrate` | all others; other processes through the flock |
| Frontend and tuning (`frontend.rs`, `tuner.rs`) | in the kernel: the tuning and `FE_HAS_LOCK`, which outlive the process | `tune_frontend`, `already_tuned`, `wait_lock` | demodulator |
| Demux and DVR (`demux.rs`, `sys/dmx_abi.rs`) | in the kernel: the filter table, one per adapter; one DVR that mixes all taps | `Demux::open_rw`, `tap_pid_to_dvr`, `PidTaps::start`, `DvrReader`, drop | every process on the adapter |
| SI reading (`si_reader.rs`) | sections collected so far, deadline | `read_section(s)` | demux or px4 source, assembler |
| Section assembler (`eit.rs`) | `partial`, `partial_valid`, `last_cc`, `ready` | `feed`, `try_complete`, `drain` | SI reading, EPG |
| Streaming loops (`main.rs`) | `last_data`, deadline | relay of `tune` on both backends, `collect_eit_from_dvr` | DVR or px4 device, consumer of the output |
| EPG harvest (`main.rs`) | `seen`, `all_sections`, richest copy per event | collect, merge, sort, print | assembler |
| Scan and merge (`scan.rs`) | `taken` and the report of one merge | `scan_current_transport(_px4)`, `channels_from_pat_sdt`, `merge_scanned` | SI reading, channel list |
| Channel list (`config.rs`, `channel.rs`) | `channels.json` on disk | load, `find_entry`, write, migrate | every command |
| px4 backend (`px4.rs`) | device, `carry` and `staged` of the PID filter | tune, `TsPidFilter::read`, `physical_from_frequency` | SI reading, loops |
| SI parsing (`si_tables.rs`, `eit.rs`) | none | `parse_pat`, `parse_pmt`, `parse_sdt`, `parse_eit_section`, dates | scan, tune, EPG |
| Rest | none | `signal.rs`, `error.rs`, bindings, `driver-audit.sh` | |

What makes each correct, and what is hard about it:

- *Adapter sharing.* One command at a time has the adapter; a command streams
  the service it was asked for or gives the adapter back. Hard: a process can
  be killed anywhere, the kernel then releases lock and filters in its own
  order, the frontend keeps the dead process's tuning, the lock flag may be
  stale, and the filter table is shared with processes that do not lock.
- *Section assembler.* What is handed out is what was sent. Hard: loss of
  packets, sections that share packets.
- *Streaming loops.* A dead stream ends the command, a living one never does.
  Hard: what a read does with nothing to read; a consumer that blocks.
- *Merge.* Nothing a user refers to changes its meaning, and every record can
  be selected. Hard: long sequences of merges, shared service names.
- *EPG harvest.* The guide is complete and genuine. Hard: repetitions,
  corrections, damage, services that number alike.
- *SI collection and files.* A list has what was heard and nothing else, and no
  write loses what it was not told to. Hard: damaged copies, versions, two
  scans and a crash on one file.
- *px4 backend.* Whole packets are forwarded, the channel is the one asked for,
  and the tuner is stopped. Hard: reads that cut packets anywhere, payload that
  looks like sync, frequencies at the edges, failures between the ioctls, and
  what a killed command leaves streaming for the next.
- *Numbers.* A day has its date; a frequency has one channel.

## Modules

| Module | What it is | Runs |
|---|---|---|
| `AdapterTune` | processes, flock, frontend, filter table, SI reads, taps, streaming | via `MCAdapterTune` |
| `AdapterLease` | what the adapter promises: an exclusive lease, and only what was asked is served | refined by `AdapterTune` |
| `AdapterTuneProofs` | theorems about `AdapterTune` | |
| `SectionAssembler` | `TsSectionAssembler` against a multiplexer and a lossy channel | `MCSectionAssembler` |
| `SectionAssemblerProofs` | theorems about `SectionAssembler` | |
| `StreamLoop` | the relay and collection loops against clock, ring buffer and signal | `MCStreamLoop` |
| `EpgHarvest` | what `epg` keeps of the sections its loop collects, and lists; extends `StreamLoop` and `MjdDate` | `MCEpgHarvest` |
| `EpgHarvestProofs` | theorems about `StreamLoop`, `MjdDate` and `EpgHarvest` | |
| `MjdDate` | the date formula of `parse_datetime` | `MCMjdDate` walks a calendar beside it |
| `PidFilter` | `TsPidFilter` of the px4 backend on a byte stream | in `Px4Tune` |
| `UhfPlan` | the frequency plan of the px4 backend | in `Px4Tune` |
| `Px4Tune` | commands on the px4 device, each from open to drop or kill; extends `PidFilter` and `UhfPlan` | `MCPx4Tune` |
| `Px4TuneProofs` | theorems about `PidFilter`, `UhfPlan` and `Px4Tune` | |
| `ChannelDoc` | `channels.json` as a value: `find_entry`, `unique_name`, `merge_scanned` | in the next two |
| `ScanMerge` | a document that muxes are scanned into again and again; extends `ChannelDoc` | `MCScanMerge` |
| `ScanCommand` | `scan` from the tables on the air to the file; extends `ChannelDoc` | `MCScanCommand` |
| `ChannelDocProofs` | lemmas about the merge loop, for any document and list | |
| `ScanMergeProofs`, `ScanCommandProofs` | theorems about the two | |
| `Induction` | lemmas the proofs about loops rest on | |

Compositions: the collection loop with what it collects (`EpgHarvest`), the
filter with the command that reads through it (`Px4Tune`), SI reading with the
merge and the file (`ScanCommand`). The tuning in front of a scan on the DVB
backend is in `AdapterTune`, that on px4 in `Px4Tune`.

The operators marked *Fault* in a module are wrong versions of the one they
precede. Put in its place, each makes a property of a run fail: that is how
it is known that the property depends on the code it is about.

### AdapterTune

State: `pc`, `job`, `fast`, `read`, `pids`, `found` are the locals of one
process (where it is, its command line, whether it is on the already-tuned
shortcut, the SI read under way, `pids` of `Cmd::Tune`, the scan's services);
`lock` is the flock; `tuned`, `hasLock` are what the frontend reports and
`delivering` what really arrives; `filters` is the adapter's filter table.

Actions follow the commands: `Start` (`acquire_adapter_lock`), `TryShortcut`
and `NoShortcut` (`already_tuned`), `TuneFrontend`, `LockSeen`,
`LockTimeout` (`wait_lock`), `SiOpen`, `SiFails`, `PatForService`,
`PmtForService`, `PatForScan`, `SdtForScan` (the reads), `OpenTap`,
`TapsOpen`, `TapFails` (`PidTaps::start`), `OpenDvr`, `LoopEnds`, `Exit`
(locals dropped in reverse order: taps, then the lock). `CallFails` is any
system call that returns an error on the way. `Kill` and the `Kernel...`
actions are a signal and what the kernel does after it. `Settle` and
`SignalLoss` are the air.

Abstractions. A frequency names a mux; a frontend that cannot be asked, or
reports another bandwidth, is `NoShortcut`, which is open in every state. A
PAT or PMT is a member of `Programs`. The scan's SDT read may return any
subset of the services (it returns what arrived in time). The px4 backend has
neither demux nor frontend and is not in this module.

`Lingers` is an assumption about hardware: whether a retuned demodulator may
still deliver packets of its old mux. `tune` with lingering is right only
because a PAT that names the service is that of the channel's mux
(`LingerAssumption`: service ids unique over muxes), and `scan` compares
nothing, so `ScanFilesRightMux` assumes that it does not linger.

### SectionAssembler

A section is a run of *cells* and a packet has `Room` of them; the sender
chooses any legal packing (continuation, end and stuffing, end and one or two
new sections). `Feed` is `feed` and the drain its callers do after each packet;
`Completed` is `try_complete`: `Turn` is one turn of its loop, `Turns` the
values `partial` and `ready` take from turn to turn. `Lose` drops a packet with
its continuity counter.

`try_complete` reads a length out of whatever bytes `partial` begins with. If
that is a header it is the section's; if not, `Readings` has every way those
bytes can read: as stuffing, as a length past 4096 (which clears `partial`), or
as any length, more than there is among them. Bytes that are no header get
there in one way only: the packet that began a section is lost, and a PUSI
packet brings the section's end before its pointer. Behind an empty `partial`
the end itself is then read as headers, behind the beginning of another section
what is left of it once that one is full; so one packet can hand out several
sections that were never sent. The lengths are in cells: a length that ends in
the middle of a cell is rounded to whole ones, and more of such sections may fit
into a packet than the model hands out. Left out: packets without payload, and
duplicated ones.

### StreamLoop

`command` is the loop (`tune` or `epg`), `Blocking` the source. `Top` is the
deadline check, `ReadData`, `ReadNothing` and `Fails` the arms of the read,
`Wake` and `Written` the way back to the top. `Tick` is time; `silence` is how
long nothing that is wanted arrived, `lastData` is `last_data.elapsed()`,
`elapsed` counts towards the deadline of `epg`, which the code computes before
the tune, so it may have passed when the loop begins.

With `Blocking`, `ReadNothing` cannot happen, as the read does not return. On
px4 the read is `TsPidFilter::read`, which goes on reading while packets of
other PIDs come (`foreign`): `Pull` is one such read of the device and
`Pulls` the 4096 after which the filter gives up and returns `Ok(0)`.

### EpgHarvest and MjdDate

`Collect` is one raw section of what the loop has just read: `Parse` is
`parse_eit_section` (a section, or none when the CRC is wrong), `WantedTable`
and `WantedService` the filters, `Seen` the set `seen`. `all_sections` keeps
the order of arrival. `Report` is what follows the loop: `Guide` keeps one copy
of an event, by `Score` and then by arrival, and drops those without text;
`Orders` is the sort, in which ties within a service stay in the order a
`HashMap` yields, that is, any. `heard` is history, for the properties.

An event is its id, the day it starts, the length of its text and its genres;
that is all the choice looks at. `DateOf` is the integer formula of
`parse_datetime` with every constant of it, and `Before` the derived order of
`DateTime`, so the guide is sorted by what the program takes the dates to be.

### PidFilter, UhfPlan and Px4Tune

A byte is its position in the stream. Packets start at the multiples of
`PacketSize`; `strays` are payload bytes that happen to be 0x47. `carry` is
`front .. back - 1`. `Ingest` has the cases of `ingest`: a carry that starts with
0x47 is consumed as it is, else from the first start that another 0x47 a packet
further on confirms, else only a tail is kept. `windows` is history: where the
packets started that the filter took. Which of these it forwards is a test of
the PID of each and is left out.

`Px4Tune` is the command around it: `Open`, `BadFrequency`
(`physical_from_frequency`), `SetChannel` and `StartStreaming` (the two ioctls
of `tune_isdbt`), `Read` through the filter of the stage, `NextTable` (the next
SI read has a filter of its own), `Finish`. A command that ends by itself is
`Dropped` (`Drop for Px4Device`), and `StopStreaming` is its STOP ioctl, which
may be refused: the code discards the error. `Kill` is a signal, behind which
nothing is dropped. `Closes` is what the driver does when the device closes,
stop or go on, as nothing in `src/` tells. `NextCommand` begins another command
on the device, on whatever `driver` was left doing; the flock makes them one
after another, so `DVBR_SKIP_ADAPTER_LOCK` is outside this module. `unstopped` is
history: the last stream was ended by a kill or a refused STOP. `FreqNo`,
`Physical` and `OnPlan` are the arithmetic of the code on hertz, unscaled.

### ChannelDoc and ScanMerge

A document is a sequence of records. `Merge` goes through a list of services
with `MergeOne`, whose cases are the arms of the loop (`AddRecord`, `Rename`,
`AddAlias`), with `taken` accumulated as in the code; `Stages` are the values
of the loop, written as a recursive function so that it can be reasoned about.
`Find` is `find_entry`: the first record whose name or aliases hold the string.
A name is a title and its suffix, which is all that `unique_name`,
`is_placeholder_name` and lookup tell apart. In `ScanMerge`, `doc` is the file
and `Scan` merges one mux's services into it.

### ScanCommand

Scanners are processes on adapters of their own: the adapter lock does not keep
them apart, and they write the same file. `PatArrives` is the one PAT that is
read; `SdtArrives` puts a copy of an SDT section into `collected` by its number,
before any CRC check, as `read_sections_from_source` does; `ShortArrives` is
the section without numbering that ends a collection. `SdtComplete` and
`SdtTimeout` are its two other ends, and `Channels` is `channels_from_pat_sdt`
with its fallback to the PAT, whose programs are in the order of the PAT;
`AddService` and `AddSection` are the bodies of its two loops. `LoadAndMerge` and `Guard` are the two ways of
`Cmd::Scan` to an output (`--merge`, `--add-new`; without them, and `--force`);
`Truncate` and `Write` are the two steps of `std::fs::write`, and a `Kill` may
fall between them. A file is absent, a document, a bare list, empty (truncated),
or mixed (two writers over each other).

History: `arrived` is what each scanner received, `replaced` the services of the
document it truncated, `raced` that another wrote between its load and write.

The SDT on the air has several versions, and a copy may be damaged: under
another number, or as a short section, or with other names. What is assumed of
the air (`ScanAssumption`) is that the sections of a version are numbered from
0 to the last number they all bear (`IsTable`), and that the CRC finds any
damage that would bring in a service or a name (`IsDamaged`).

## What the runs show

| Run | Instance | Result |
|---|---|---|
| `tune` | 2 processes, 2 muxes, 3 programs, tune / full / scan / epg, 5 filters, under `FairSpec` | all safety properties, `ImplementsLease` and `LockComesBack` hold; 131 919 states |
| `tune_faults` | 3 processes, one with `DVBR_SKIP_ADAPTER_LOCK`, a lingering demodulator | `TapsAccounted`, `DvrIsPrivate` hold; 1.5 million states |
| `sections` | packets of 3 cells, 4 sections of 1, 2, 4, 7 cells, counter mod 4, up to 3 losses in a row, noise read in every way | what loss can and cannot do; 18 128 states |
| `sections_mixed` | the same | **violated**: a section that was never sent is handed out |
| `loops` | px4: stall after 3 ticks, deadline after 2, ring and pulls of 2; 5 sections of 2 services, any of them damaged, all options | the loops end when they should; the guide is complete, genuine, in order; 635 000 states |
| `loops_dvb` | blocking source | **violated**: the watchdog is never reached |
| `guide_richest` | as `loops` | **violated**: a corrected repetition is not taken |
| `dates` | every day from 2024 on that an MJD can name (to April 2038) | **violated**: 29 February 2024 is given as the 31st |
| `px4` | packets of 3 bytes, 12 bytes a stream, any payload bytes for strays, reads of 1 to 5; 7 frequencies at edges; any number of commands, killed or refused their STOP | filter, plan and device; 2.4 million states |
| `merge` | 3 services, 1 broadcast and 1 curated name, 2 records at the start, 2 services a scan, any number of scans | names distinct, answers kept, given names select, rescans settle; 34 749 states with symmetry |
| `merge_select` | the same | **violated**: an alias takes a record's own name |
| `scan_command` | 2 scanners in any mode, 2 muxes, an SDT of 2 sections and its next version, damage, 3 kinds of file | what a scan loses and never loses; 476 000 states |

The properties, briefly:

- `TapsAccounted`: the filter table never overflows, and a process has open
  exactly the filters its place in the code calls for, through every failure.
- `DvrIsPrivate`: a locking process shares the DVR at most with a dead one the
  kernel is still tearing down.
- `StreamsWhatWasAsked`, `ScanFilesRightMux`: through stale flags, shortcut and
  fallback, what is streamed and filed belongs to the mux that was asked for.
- `NoRetuneUnderStream`: only the lock's holder retunes, never under a stream.
- `ImplementsLease`: refinement of `AdapterLease` (owner, then serving, then
  stopped, then released).
- `LockComesBack`: an owner of the lock streams or gives it back.
- `NoiseOnlyAcrossPusi`: what is handed out that was never sent, mixed of two
  sections or read out of noise, comes of a PUSI packet with a loss right before
  it, and in front of all its genuine sections; `IntactSectionsArrive`: whole
  sections are all handed out, once, in order; `InStep`: valid partial bytes are
  the section under way from its header.
- `NoFalseStall`, `SilenceEndsTune`, `CollectionEnds`: a stall is reported only
  of a silent stream; silence ends the relay, though the rest of the mux goes
  on; collection ends, whatever is on the air.
- `GuideComplete`: every section heard is in the guide in some version that was
  heard; `GuideIsBroadcast`: nothing else is, and nothing twice;
  `GuideChronological`: in the order of the days, though dates may be wrong.
- `CarryBounded`: noise does not make the filter's carry grow;
  `EveryPacketMet`: no packet start is passed over but within a misread one;
  `InStepForever`: a filter in step stays so; `MisreadNeedsStray`: a misread
  begins in each read anew with a payload byte that looks like sync.
- `StopsWhatItStarted`: between commands the tuner is on only if the last
  stream was ended by a kill or a refused STOP; `TunesWhatWasAsked`: what a
  command reads is the channel whose centre was named, whatever its
  predecessors left streaming.
- `SectionsKept`, `TableComplete`: what arrived whole is listed, and a scan that
  heard one version undamaged to its end lists all of it.
- `ListIsBroadcast`: damage brings no service or name into a list;
  `NothingLostUnraced`: without `--force` and without a race, no service of
  the document that is replaced is lost.
- `NamesDistinct`, `AnswersKept`, `GivenNamesSelect`, `RescanSettles`: the merge.

### Bounds

- Two processes are enough for every interleaving of a holder with a successor,
  three for a holder, a successor and one that ignores the lock. The filter
  table holds one service's taps and one more, so that two do not fit.
- The continuity counter wraps after 4 instead of 16 so that it wraps within a
  run; losses in a row stay below it, since a 4-bit counter cannot see 16.
  Sections of 7 cells span up to four packets; `MaxSections` 4 gives a section
  before, two in and one after a loss.
- Ticks are capped at the larger timeout; beyond it no guard tells them apart.
  The budget of `epg` may be all gone at the start. Two pulls distinguish the
  first, a repeated and the last read of the filter.
- Services 1 and 2 number sections and events alike; service 1 corrects its
  placeholder in a new version and lists an event without text that scores more
  in another table. The events start at the end of a January and a February,
  where the date formula is at its worst.
- `PacketSize` 3 has two payload bytes to mistake, `MaxByte` 12 has four packets
  and `MaxRead` 5 a read that holds more than one. `px4`'s frequencies: a cable
  channel, one hertz below and at channel 13, a hertz below channel 24 and one
  past its tolerance, the tolerance of channel 62, and channel 63.
- One scanner hears three SDT copies (a section, a damaged copy or a new version,
  and another), the second one copy, which is enough for a list of its own. The
  merge behind it is explored by `merge`, where any number of scans are allowed
  as keys are finite; three services with one name need the suffixes `_2`, `_3`.

### Fairness

`AdapterTune!FairSpec` has weak fairness of each process's own steps up to the
loop, and of the kernel's cleanup. Every wait there has a timeout (`wait_lock`,
`read_sections`), so a step is always possible; a step may be the failure. No
fairness for acquiring a signal, for a loop's end, or for starting a command.
`StreamLoop!Fairness`, of `HarvestSpec` too: the loop is scheduled and the
consumer reads on, and time passes; nothing makes packets arrive, or stop.

Deadlock is checked for `AdapterTune`, `Px4Tune` and `ScanMerge`. The others are
of commands that end (`StreamLoop`, `EpgHarvest`, `ScanCommand`), a stream
(`SectionAssembler`) or a calendar (`MCMjdDate`) that does.

## Findings

1. `TsSectionAssembler::feed` (`eit.rs:353`) skips the continuity check on PUSI
   packets but completes the pending section with their pointer-field bytes, so
   a loss there yields a section mixed of two; with nothing pending, those bytes
   are read as sections themselves. CRC catches most of that later;
   the comment claims it cannot get that far. Run `sections_mixed`.
2. `Cmd::Tune` on DVB opens the DVR blocking (`main.rs:485`): silence blocks
   the read, and the stall watchdog that exists for it is never evaluated.
   `Cmd::Epg` on DVB does the same (`main.rs:764`) and overruns its deadline.
   Run `loops_dvb`.
3. `seen` (`main.rs:926`) has no version in it: a corrected repetition of a
   section is dropped, though the comment at `main.rs:786` counts on repetitions
   to fill in placeholders. Run `guide_richest`.
4. `parse_datetime` (`eit.rs:256`) divides (MJD - 15078) by 365.2425 where Annex
   C of EN 300 468, which the comment names, divides (MJD - 15078.2) by 365.25.
   The last day of a February comes out as its 31st; the run `dates` finds 29
   February 2024. The order of dates is not affected (`GuideChronological`).
5. `merge_scanned` (`scan.rs:157`) gives a record a broadcast name as an alias
   without looking for, or remembering, who else has it: a record further down
   with that name, or one named so later in the same merge, is not selectable
   by its own name any more, which the tests and the comments demand. Run
   `merge_select`.

Seen while modelling, and part of the models as the code has it:

- The fallback to PAT numbers that `scan.rs:320` describes is not reached when no
  SDT section arrives: `read_sections` fails first (`si_reader.rs:89`). It is
  reached when sections came and none could be parsed.
- A damaged copy takes the place of a whole one with the number it bears, and a
  short one ends the collection; sections of two versions are put together.
  `SectionsKept` and `TableComplete` say what remains true.
- Scans on two adapters that `--merge` into one file lose one another's records,
  and a crash in the write leaves an empty one; a plain scan overwrites a bare
  or a torn list, which its guard does not know as a list (`main.rs:611`).
- `--merge` on a missing file or a bare list fails when the document is loaded.
- The budget of `epg` starts before the tune: waiting for a lock can use it up.
- A 0x47 at the front of the carry is taken for a packet start unconfirmed
  (`px4.rs:238`); `MisreadNeedsStray` bounds what comes of it.
- The error of the px4 STOP ioctl is discarded (`px4.rs:153`), and a command that
  is killed, which is how a `tune` normally ends, never sends it: whether the
  tuner stops is then up to the driver. `TunesWhatWasAsked` holds all the same,
  if START empties what the driver had buffered of the old channel.
- A genre counts for more than text in the choice of the richest copy, so a copy
  without text can win over one with text, and is then left out as empty.

## What is proved

`AdapterTuneProofs`, for any number of processes, muxes, jobs and programs and
any filter table:

- `TypeCorrect`, `TapsAreAccounted`: by induction over the steps; each
  invariant is inductive on the types. `AddTap` and `DropTaps` are what a step
  does to the table and its cardinality; `TableStep` that every step does one
  of those or nothing; `OthersKeepTaps` that it touches only the mover's taps.
- `DvrStaysPrivate`: from `LockInvariant`, that a locking process past `Start`
  has the lock until `Exit` or its death, and `TapsAccounted`.
- `StreamsRight`, `ScansRight`, `RetunesAlone`: from `MuxInvariant`, the
  strengthening that carries the argument. `StreamsWhatWasAsked` says nothing
  of the steps before the loop; the invariant says that past the shortcut's
  test or the tune the frontend is on the job's mux, that what is delivered is
  it or, before a PAT that names the service, a lingering other, and that the PMT
  PID and PIDs are those of a program of it. `OthersKeepMux`, `Alone`: nobody
  else can disturb that while the lock is held. `StreamsRight` covers lingering
  demodulators, `ScansRight` those that do not linger.
- `LeaseKept`: with nobody unlocked, every step maps to a lease step or a
  stutter, under those invariants.

`SectionAssemblerProofs`, for every size of packet, lengths of sections, packing
of them and pattern of losses shorter than the counter's cycle:
`FieldsTyped`, `AssemblerFallsInStep`, `NoiseOnlyFromTails` and
`NoCollateralLoss`, all from `AssemblerInv`, which has a part for each actor.

- `SenderInv`: what the sender still has is the end of the last section begun.
- `CounterInv`: the counters of both ends differ by what was lost, modulo the
  cycle; so a run shorter than it is seen (`CounterTells`).
- `PartialInv`: in step, `partial` is the beginning of the section under way;
  behind, the beginning of a section that lost a packet, and with too little of
  it left for the rest of the same one to complete it. The last is why the
  pending section that a PUSI packet completes may be mixed, but never makes a
  later one go missing.
- `GotInv`: what was handed out is in order and below the section held, and each
  section that was sent is harmed, handed out or under way.

`PacketsAre` says what the multiplexer may send, as cells. The loop is run
through by `SectionsAndMore` and `SectionsAndStuffing` (after as many turns as
cells it has handed out the sections in front and nothing more can be handed
out), `ContinueHands` and `StartHands` apply that to the two kinds of packet,
`TailHands` to the bytes before the pointer. `Noise` is a run of cells no part
of which can be cut off as a genuine section: `NoiseTurns` says that a turn of
the loop on it, whatever length it reads, hands out nothing genuine and leaves
noise, and `TailIsNoise` that behind a loss the bytes before a pointer are that.
A received packet keeps the
invariant by `ContinuesKept`, `ContinuesBroken` or `StartsKept`, a lost one by
`LosePreserves`.

`EpgHarvestProofs`, for every timeout, ring and pace of the consumer, and for
any broadcast with any damage, repeated and corrected in any order:

- `StallIsReal`, `StallStaysReal`: `NoFalseStall` is not inductive: one needs
  that, while the ring is empty, `last_data` is no older than the last wanted
  arrival (`WatchdogInv`). The second is the same with the harvest beside it.
- `GuideStaysComplete`, `GuideStaysBroadcast`: `Kept` says that what was collected
  was heard, was asked for, and that every section heard that is asked for is
  collected under its number; `Printed` that the listing is an order of the
  guide. `CopyOf` and `RichestCopy` find the one copy the `HashMap` keeps: copies
  have a greatest score, and of those with it one arrived first.
- `GuideStaysChronological`: `DatesInOrder`, by arithmetic alone: from 1 March
  1900, where the formula begins, to MJD 65534 (65535 is no date), a later day has
  a later `DateOf`, though some have a wrong one. `DayAfter` is the step from a
  day to the next, by the cases of the month and year that may end.

`ScanMergeProofs`, for any services, titles, curated names and lists, over any
number of scans:

- `DocumentTyped`, `NamesStayDistinct`: `GoodDoc` and `GoodMerge` are kept by
  each turn of the loop: `taken` covers the names, and a suffixed name in it is
  a record's, so no more suffixes of a title are in use than there are services
  and `FirstFree` finds the next.
- `AnswersAreKept`: a turn changes the answer only to the strings it brings.
- `GivenNamesStaySelectable`: a new name is none that anyone answers to
  (`SelectingStep`), so a merge without aliases leaves all selectable.
- `RescansSettle`: the first merge of a list gives each of its services a record
  with a name that is not a placeholder, the second at most its aliases
  (`OwnMerge`, `OtherMerge`), and then a third finds nothing to do.

`ScanCommandProofs`, for any number of scanners, muxes, tables, damage and files:

- `ArrivedSectionsStay`, `CompleteTablesAreWhole`: `ReceiverInv` says of every
  place of `collected` which copy is in it; `OuterLoop` and `InnerLoop`, that the
  two loops of `channels_from_pat_sdt` list every service of a parsed section.
- `NothingIsLost`, `ListsStayBroadcast`: `FileInv`: unless it raced, a scanner's
  output covers the document it loaded, and every document describes only what
  was broadcast or on file before. `MergeOfAny` is that a merge drops no record
  and gives no name but the scan's.

The loops (of the merge, of the service list, of `try_complete`) are reasoned
about with `Induction`: a least element from the well-foundedness of the finite
subsets, induction on numbers from it with the predicate given as a set, and
`Iteration`, that a loop whose turns keep a family of sets ends within the last
one.

`Px4TuneProofs`, for every packet size, length of stream, placement of strays
and way the reads cut it:

- `CarryStaysBounded`, `PacketsAreMet`: `FilterInv` is inductive. `Divide` and
  `Batch` are the arithmetic of consuming packet after packet (it ends less than
  one before the end, and covers all in between), `IngestStep` that each case of
  `ingest` moves `front` forward, leaves at most a packet, and passes no start.
- `StaysInStep`: from an aligned `front` the first case applies, whatever the
  strays are, and `AlignedOn` keeps it aligned.
- `MisreadsAreStrays`: needs that the packets taken lie before `front`
  (`WindowsBehind`), or a batch's first could be an old one.
- `StreamsAreStopped`, `TuneIsRight`: `Px4Inv` ties `streaming` to the stage, the
  driver to `streaming` or, when it is on without, to a stream that was not
  stopped, and while a command reads the driver's channel to its frequency;
  `PlanCentres` is that an accepted frequency is within the tolerance above the
  centre of its channel.

They rest on the named assumptions of the modules: `ConstantsAssumption`
(types), `ProgramsAssumption` (no two programs of a mux share number or PMT
PID, as the code takes a PMT by its PID alone), `LingerAssumption`,
`AssemblerAssumption` (losses in a row shorter than the counter's cycle),
`LoopAssumption`, `BroadcastAssumption` (a section names an event once, on a day
an MJD can state), `PidFilterAssumption`, `FrequencyAssumption`,
`MergeAssumption` (finite sets), `ScanAssumption`.

Only model-checked: `LockComesBack`, `SilenceEndsTune` and `CollectionEnds`, which
need fairness and ENABLED. Every invariant and action property of a passing
run is a theorem.

## Plan

Done, in this order: `AdapterTune` with its proofs, `SectionAssembler`,
`StreamLoop`, `ScanMerge`; then `MjdDate`, `EpgHarvest`, `PidFilter`, `UhfPlan` and
`Px4Tune` with their proofs, `ScanCommand`; then `ChannelDoc` and the proofs of
`ScanMerge`, `EpgHarvest`, `ScanCommand` and `SectionAssembler`. Left:

1. `migrate`: names it makes, the file it overwrites, composed with `ScanMerge`.
2. What the violated properties leave: under which condition each of them does
   hold (no scan that gives aliases, no section corrected under its number, a day
   that does not end a February), as theorems.

## Not modelled

`fe-info` and `signal.rs` only read and print. File formats and their
conversion (`.conf`, TOML, `convert-conf`, `migrate`), output formatting and
escaping, CRC arithmetic, descriptor parsing, durations and text decoding are
functions of bytes with no state; where a model needs their result it is a
record that is whole or damaged. `build.rs`, `error.rs`, `sys/` are
declarations. `driver-audit.sh` is run by hand. Within modelled parts: the list
of tuning properties, the delivery system, device indices other than one
adapter's, and what the driver's ring does on overflow beyond dropping; a read that is
interrupted, which only reads again; two
programs that share a PMT PID; runs of losses that a 4-bit counter cannot see;
the truncation of the `--output` of `tune` before the tune is known to succeed.
