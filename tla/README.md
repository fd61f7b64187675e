# DynaNIC examples: TLA+ models and proofs

This directory is the verification project of the DynaNIC examples: TLA+ modules
translated from the C and Python sources, TLC runs over small instances, and
theorems that hold for all values of the constants, checked with TLAPS.
Paths below are relative to `src/`. `PROJECT.json` maps every definition to the
lines it stands for.

## 1. The system

The repository is a set of DPDK example programs for a DynaNIC card and a few
tools around it.

| Component | State | Operations | Meets the others through |
|---|---|---|---|
| job distribution (`apps/common/common_dpdk.c:51-86`) | static `workers_d`, main's array of `lcore_arguments` | `workers_job_init`, `workers_job_assign`, launch of an lcore | the pointer to `lcore_args[i]` that each worker keeps |
| device setup and lifecycle (`common_dpdk.c:88-203`, `common_stats.c`, each `main()`) | ports, queues, EAL, pool, statistics arrays, `__stop` | `init`, `device_setup`, launch, statistics loop, wait, `cleanup`, `cleanup_measurement`, the signal handler | workers use the ports that main sets up and stops; the flag `__stop` |
| worker loops (`read`, `loopback`, `generate`, `receive`, `transmit`, `bonding`) | an array of mbuf pointers, counters | bursts, allocation, free | the shared mbuf pool, the NIC's rings, generate's shared `create_packet` flag |
| PCAP files (`common_pcap.c`, `receive.c`, `transmit.c`) | one file and counter per worker | open, save a packet, close; read a packet, send it on each queue | the files |
| flagging's record of marks (`apps/flow/flagging/set.c`) | a growing array | `set_create`, `set_add`, `print_set` | the burst loop of `flagging.c` |
| hairpin test (`apps/flow/hairpin/hairpin.c`) | two ports, counters of what was sent and is expected | setup, send in chunks with retries, receive with a timeout, verdict | two flow rules in the NIC |
| RSS tool (`tools/rss_configuration/rss_ctl.py`) | registers of the device behind a selection register | configure, reset, edit, dump | other runs of the tool share the selection register |
| statistics (`common_stats.c`) | previous counters and times | `gather_stats`, `print_stats`, `print_stats_total`, `print_simple_stats` | the ports' counters, which run on; the driver reads the last line |
| command line (`common_args.c`, `*/argparse.c`, `flow/flagging/auxiliary.c`) | settings | defaults, options, checks | everything reads the settings |
| table filler (`apps/table_filler`) | counters, address counter | create rules, flush | flow table of the NIC |
| measurement driver (`apps/measure`) | child process and its pipes, hardware generator | start, wait, SIGINT, read the output, cleanup | the child's output and exit |
| minimal examples, metadata viewer, flow/basic | as read or generate, in one function | | |

What is hard here is not an algorithm but order and ownership: workers that
already run while main still computes for the others; one flag and one pool that
many workers use; `rte_eth_tx_burst` taking a part of what it was given; a
signal at any moment; failure of one step of many; devices that must outlive
the workers; register accesses in two steps; retries and timeouts against a
NIC that owes nothing. `hazards` in `PROJECT.json` lists each at its line, with
the properties that cover it or the reason why none does.

What makes each component correct:

* *job distribution*: no queue has two pollers, none is left without one, the
  shares are even, a worker's arguments never change under it;
* *lifecycle*: workers and statistics only use what is set up, every way out
  leaves nothing running or allocated, a signal ends the process at any time;
* *worker loops*: every mbuf is in one place and in none lost, the pool
  formula suffices, workers end after the signal;
* *files*: a file whose name has room for its numbers holds exactly the packets of its
  worker in order, up to the threshold; a replay sends exactly the file;
* *marks*: one record per mark, with the number of its packets as far as the width of
  the counter, the memory and the growth of the array let it;
* *hairpin*: PASSED only when the split worked, never FAILED for a healthy NIC;
* *RSS tool*: a finished run leaves what it was asked for, whatever ran before, and what a
  dump prints is what the device holds;
* *statistics*: every packet is in one window, however the NIC counts meanwhile;
* *command line*: a setting is what the last option naming it says, in any order, and
  the checks hold of what is used;
* *table filler*: what is reported as inserted is in the NIC, and filling ends;
* *measurement driver*: a row is the result of its own measurement or zero, nothing is
  left behind, and waiting for the child ends.

## 2. Modules

Each application's source names are kept. Every module states one type
invariant, checked as a part of its first property or, for `WorkerJobs`, by itself; the
further properties stand at its end, each with the behaviour of
the code that it is about.

**`WorkerJobs`** (read.c:38-67, 161-183; common_dpdk.c:14-86). Main's launch
sequence is `workers_job_init`, then per lcore `workers_job_assign` and
`rte_eal_remote_launch`, then `LaunchDone` and `WaitForLcores`; `main` is its
program counter. A worker's loop is `RoundStart` and `RoundNext`: it reads both
bounds through its pointer (`Args`) on every iteration, as the code does.
`workers_d` is the static structure, `lcore_args` main's array, initially stack
garbage.

**`QueuePartition`** is the contract behind it: a free, non-empty set of queues is given
to an lcore that has none, is never taken back, and only its owner polls a queue.
`WorkerJobs` implements it under the mapping `OwnerOf`/`index` (`ImplementsPartition`).

**`AppLifecycle`** instantiates `WorkerJobs` (its `Jobs!` actions are the launch
and the workers) and surrounds it with the rest of `main()`: `init` with the three
allocations of `time_variables_init`, the handlers, the pool, `device_setup` port by
port and queue by queue, statistics loop, wait, `cleanup`, `cleanup_measurement`, and
all failure branches. The differences of the applications are fields of a record
(`AppKinds`); the applications themselves are the twelve records `read` ... `table_filler`.
bonding differs most: its one port is made of two others by calls that end the process when
they fail (`BondFails`) and set up by calls whose results nobody looks at (`BondedPort`);
`ignored` remembers that one of these failed, and the properties of devices hold up to it.

**`MbufLoops`** (the `lcore_main` of six applications): one module, since the loops
are made of the same steps; `Sends`, `Receives` and the application's name decide
which steps occur and in which order. The pool, the rings and transmit completion
are DPDK's and are modelled as the loops use them (marked external).

**`PcapFiles`** (common_pcap.c; receive.c:53-114; transmit.c:44-155): the receivers
write, then one of the files is replayed. A file is a sequence of units: PCAP header,
packet header, packet data, or a part of one where a write failed. After a part,
everything is out of step and the reader takes garbage for packets. A file's name is the
numbers of port, first and last queue, as far as the prefix leaves room for them in the 49
characters that `snprintf` writes (`FileName`, `Printed`); only the length of the prefix matters.
Workers with the same name write into one file: each has its own position in it, so a write may
replace any piece behind the PCAP header (`Misplaced`, `Over`).

**`MarkSet`** (set.c and the loop of flagging.c): the array over memory with
arbitrary contents, searched up to `max_size` as in the code. Three histories count packets
per id: those received (`arrived`), those that set_add accepted (`counted`), and those of a
burst that was left because the array could not grow (`dropped`). The counters wrap as a
`uint16_t` does.

**`HairpinTest`** (hairpin.c:44-332): setup, whose failing steps end the process or go
unnoticed (`started`, `bound`), chunks, retries, the expectation, the receive loop with its
timeout, the verdict and the cleanup; `where` records where each packet really is. The NIC
may be slow (`Arrive` need not happen), `Lose` or `SplitWrongly`.

**`RssCtl`** (rss_ctl.py): a command line becomes the sequence of register accesses
that `main()` makes for it (`Accesses`); each is a selection (`set_reg_chan_off`) and an
`Access`. `CutOff` ends a run between any two. The shifts by 32 bits are products (`Shift`),
and the key read back is the sum over its words, as in `get_hash_key` (`HashKey`). What a dump
reads and what it shows differ (`Shown`): the table is printed in full rows only (`Printed`), of
the inputs the names that have one (`InputNames`), of the hash function its name (`HashType`).

**`Statistics`** (common_stats.c): the main core's actions between two lines of output:
reading a port's counter and printing its window are two steps, and the NIC counts in
between (`Count`). `reported` is the sum of the windows printed.

**`Measure`** (measure.py, Mode.py, RXMode.py, TXMode.py, read.c) extends `Statistics`:
driver and child are two processes. The child's main is `Child`, its statistics those of
`Statistics`, each printed line one element of `pipe`. The pipe is bounded: `PipeSize` stands
for the kernel's pipe and the buffer of the child's stdout together. The driver's steps are
those of `measured_program`; `__del__` is three steps, since a Ctrl-C can fall between any
two, and `Interrupt` may also reach the child (a terminal sends it to both). In mode `rx` the
generator in the NIC is the source of packets and must be set to the right length (`gen`),
connected (`mux`) and stopped; in mode `tx` the child is generate. Exceptions other than Ctrl-C
take the driver to `__del__` as well (`Raises`), from where they occur: a command of `prepare` is
missing, the application cannot be started (`PopenFails`), `time.sleep` refuses a negative time,
a log line of the EAL on stdout is the last line and is no number (`NotANumber`), and a time of 0
divides by zero (`DivisionByZero`). `DeleteFails` is one inside `__del__`, which ends it.

**`CommandLine`** (common_args.c, ten `parse_custom_args`, and the checks in `init` and
`main`): an option is a letter with the numbers that `atoi` or `sscanf` read; one turn of the
`getopt_long` loop is `Option`, `RejectOption` or `Help`, the checks after it `EndOfOptions`.
Per application, `XDefaults` are what it sets before the loop and `XCases` what each
case of its `switch` assigns. The application's cases come before the common ones, the
settings have the width of their fields (`U16`, `U32`, `U64`), so that a negative number becomes
a huge one. TLC counts up to 2^31, so the 32- and 64-bit moduli are the constants `UintModulus` and
`LongModulus`; no option of the runs comes near them except by being negative. The overflow of the
`int` product `atoi(optarg) * 1000` is not modelled.

**`TableFiller`** (table_filler.c) extends `CommandLine`: when its command line is accepted,
`main()` inserts rules into a table of bounded `capacity`. `create_rule_key1` and
`create_rule_key3` differ in the pattern they build and are one action, split by its outcome
(`Inserted`, `Failed`).

`MC<Module>` gives constants for TLC, `<Module>Proofs` holds the theorems about `<Module>`:
every component's module has one. `MarkSet` and `RssCtl` share `MarkSetRssCtlProofs`, since
both count modulo something and need the same lemmas about quotients and remainders, which are
stated once there. `TableFillerProofs` is also about the
`CommandLine` it extends, `MeasureProofs` about `Statistics`.

## 3. Runs

| Run | Shows | Bounds, and why they are enough |
|---|---|---|
| `jobs` | queues are shared out exclusively, completely and evenly while workers already poll; implements `QueuePartition`; every queue is polled again and again | 4 workers; 7 settings of up to 2x3 queues: fewer queues than workers, as many, an uneven rest, ranges over a port boundary, no queue. The safety part is proved for all values. |
| `lifecycle` | devices outlive their users, exits leave nothing behind, signals and returning workers end the process | 3 workers; 2x1, 1x2 and 1x1 queues: several ports, several queues, workers without a job; 11 applications (`basic` equals `minimal_read`) |
| `mbufs` | single owner, nothing lost, formula for the pool, template behind the flag, end after the signal | 2 workers, bursts of 2, rings of 1 or 2; pools that run dry and pools of the recommended size. Two workers show each interference: pool and flag are all they share. `NbTxModulus` 16 is above all counts reached outside loopback, and lets loopback's sum wrap. |
| `pcap` | what is in a file, what is replayed, when receivers end | 2 workers with 2 and 1 queues, bursts of 2, 2 packets altogether; the default prefix with a threshold of 1 and replay on one queue, and a prefix of 35, behind which the numbers just fit, without threshold and with replay on all. Order, duplication and the threshold need two packets. |
| `marks` | one record per mark, counts right on zeroed memory, records kept | 1 slot growing by 2, so that the second and the fourth id make it grow; 5 marks with 4 ids modulo 4, one of them 0 and two that collide; counters modulo 3 that wrap; 5 packets in bursts of 2, so that a failed growth drops one |
| `hairpin` | the verdict and the expectation | 0, 1, 3, 5 packets in chunks of 2, 2 retries: no chunk, one that is not full, several; the width (modulo 8) holds every count, as `packets_to_send` is a `uint16_t` itself |
| `rss` | a finished run leaves what was asked for and a dump prints what is there, after any other run, finished or cut off | 2 runs one after the other, 2 channels, table of 3 in rows of 2, so that one row is full and one is not; inputs with two named bits; keys of 2 words modulo 4; ranges shorter than the table, of one queue, upside down, left open; a key that is too long |
| `measure` | a row is its measurement's result, no packet in two windows, nothing left behind, waiting ends | both modes; 2 packet lengths, so that a row could be another's; 2 ports, one packet each, so that ports differ; times -1, 0 and 1, the first two of which raise, and a window every 2 ticks; a pipe of 3 lines, which a log line and the windows fill, and of 7, which holds everything; one Ctrl-C |
| `filler` | settings are as given, checks hold, the default pool suffices, the table and the counters agree, filling ends | all command lines of up to 3 options (table_filler: 2) out of 7 to 12 per application, with values at their limits, beyond 16 bits and negative; 4 lcores; 12 further ones that make the table filler run; capacities 1 and 3 against 2 rules or no limit; `ipc` modulo 8, which comes round; 2 refusals; `MaxFailed` stops counting failures at 3, since nothing depends on their number |
| `loopback_twice` | *violated*: see findings | 2 workers, rings of 2 |
| `hairpin_leak` | *violated* | full width |
| `measure_pipe` | *violated* | one port, no packets, a time of 2, a pipe of 3 lines |

Deadlock checking is off in all runs: these programs end, and the models then stop.
`EndsWithWorkers`, `StopEnds`, `TestEnds`, `StopEndsWorkers` and `ThresholdEnds` say
instead that they do end where they should.

### Fairness

* Workers and main run on cores of their own: DPDK pins each lcore's thread, so weak
  fairness of each `Worker(l)` and of main's steps as a whole.
* Not fair: the signal (nobody needs to send one), the NIC (it may stop sending,
  returning or completing packets for good), failures, and work that may end early
  (`WorkerReturns`, `MainLoopEnds`).
* `HairpinTest` adds weak fairness of the clock.
* `Measure`: weak fairness of driver, child and time, each a process that runs. The user's
  Ctrl-C and the NIC are not fair.
* `TableFiller`: weak fairness of `main()`; nobody has to send a signal. `FillEnds` therefore
  claims an end only for a signal that came, for `failure_exit`, or for a table that can hold
  the rules: otherwise each further rule fails and the loop goes on for ever.
* The runs of the RSS tool state no liveness and no fairness.

### Findings

1. `loopback_twice`: after a partial burst loopback passes the whole array again and
   sends the first packets twice; the sum may step over `nb_rx` (loopback.c:70-72).
2. `hairpin_leak`: the receive loop ends with the last expected packet; a leaked odd
   packet behind it goes unseen and the test passes (hairpin.c:237).
3. `measure_pipe`: the driver reads the child's output only after the child has ended
   (Mode.py:51), and the child cannot end while the pipe is full. A window of one port is
   some 290 bytes every 5 s, so 64 KiB of pipe and 4 KiB of stdio last for about twenty
   minutes of `-t`; with more ports for less. `WaitEnds` shows the converse: a pipe for all
   windows, the totals, the last line and a log line never blocks the child.

Further disagreements, seen while reading. They have no run of their own; the models have the
behaviour of the code, and the properties named here claim no more than it does:

* set.h:2 promises the total number of packets of each mark; the counter has 16 bits and wraps
  (set.c:65). `TotalsOnZeroedHeap` says what the record holds instead: the packets that had
  their turn, short of those dropped, modulo the width.
* receive's `-f` accepts 49 characters (argparse.c:52), and `snprintf` cuts the name at 49
  (receive.c:68). From 36 characters on the first queue is left out, from 44 on the port: workers
  with the same name truncate each other's file and write over its packets. `CaptureFaithful`
  is therefore claimed where the numbers fit (`NumbersFit`), and is false without that. The
  last queue and `.pcap` may be cut: the first queue already tells the workers apart.
* A dump prints `int(reta_size / 8)` rows (rss_ctl.py:251), so entries of a row that is not full
  are not shown, and none of a table of fewer than 8; the help calls it a dump of the current
  configuration (rss_ctl.py:289). `DumpTruthful` is about what is printed. Whether there is
  firmware with such a size is not in the repository.
* receive without `-f` uses the prefix 'received' (argparse.c:37); its help says 'output/packet'
  (argparse.c:92). `SettingsAsGiven` claims for every other default that it is the one the help
  text states.
* table_filler takes `-t` as milliseconds (argparse.c:66); its help says seconds (argparse.c:99).

* `time_variables_init` returns at the first failed `malloc`, and main's `cleanup_measurement`
  then frees pointers that nothing assigned (common_stats.c:23, 212-225).
* `set_add` finds ids in slots that were never written; those packets are missing in the
  record made later (set.c:60). In zeroed memory that is all packets with the id 0.
* When the set cannot grow, the rest of the burst is neither counted nor freed
  (flagging.c:93-99), and the loop goes on.
* Nothing keeps two runs of rss_ctl.py apart: one can change the selection between the
  other's two writes (rss_ctl.py:58). `RssCtl` has one run at a time.
* bonding takes `-m` and overwrites it (bonding.c:224).
* hairpin's own `-s`, `-q`, `-d` and `-p` replace the common ones, and `-m`, `-c`, `-b`, although in
  the table of options, are rejected (flow/hairpin/argparse.c:41-71).
* flagging lets a queue id equal to the number of queues pass, and its main returns 0 when it
  refuses a greater one (flagging.c:128); its `long_options` have no terminator
  (auxiliary.c:123-129).
* transmit checks the port of `-i`, not the queue (transmit/argparse.c:80).
* hairpin passes when nothing was sent (all chunks given up), and never reads the second port.
* After a Ctrl-C the generator stays on: `__del__` sets `enabled` of the switch, not
  of its generator (RXMode.py:33). The same holds when the application cannot be started, as the
  generator is enabled before (RXMode.py:71, 76), and for a negative `-t`. An exception inside
  `__del__`, as by a Ctrl-C or a missing dpdk-hugepages.py, skips the rest of it.
* `-t 0` is accepted by measure.py and raises ZeroDivisionError after the first measurement
  (Mode.py:160).
* The mempool is sized for one port with 32 queues before the command line is read
  (common_args.c:55): more ports, larger rings, bursts or caches need a `-m` of their own.
* A row covers what was counted up to the last line, not the sleep alone: packets of the
  time the child takes to stop are divided by the nominal time (Mode.py:117).

## 4. Proofs

`WorkerJobsProofs` proves, from `WorkerCoresAssumption` (there is a worker) and
`SettingsAssumption` (ports and queues are natural numbers) alone, for any number of
workers and any settings:

| Theorem | States |
|---|---|
| `TypeCorrect` | `Spec => []TypeOK` |
| `Invariance` | `Spec => []IInv`, the inductive invariant |
| `Exclusive` | `Spec => []QueuesExclusive` |
| `PollsExisting` | `Spec => []PollsExistingQueue` |
| `NoQueueLeftOut` | `Spec => []AllQueuesServed` |
| `Balanced` | `Spec => []BalancedLoad` |
| `ArgumentsStable` | `Spec => ArgsStable` |
| `Refinement` | `Spec => ImplementsPartition` |

None of the safety properties is inductive: that two workers' cursors differ says
nothing about the next range main computes. The strengthening is
`IInv == TypeOK /\ MainInv /\ LcoresInv /\ CoverInv /\ IndexInv`. `Prefix(k)` is the number
of queues due to the first `k` lcores, `k * n + Min(k, r)`. `MainInv` says that `workers_d`
stands at the end of a prefix, `LcoresInv` that each launched lcore has the range between
two prefixes and that an lcore is launched exactly if that range is not empty, `CoverInv`
that every queue below the prefix went to some lcore, `IndexInv` that a cursor is inside its
lcore's range. The arithmetic is in four lemmas on `Shares` (a step of one lcore,
monotonicity, the total, port and queue of a number), so that the step proofs are case
distinctions over the actions. Exclusiveness then follows from monotonicity,
completeness from `Prefix(WorkerCores)` being the number of all queues, balance from the
step lemma, and the refinement from the fact that `OwnerOf` names the single owner.

`AppLifecycleProofs` proves, for any number of worker cores, any ports and queues and any
application, every failure branch and any moment of a signal:

| Theorem | States |
|---|---|
| `Invariance` | `Spec => []IInv`, the inductive invariant |
| `DeviceOutlivesWorkers` | `Spec => []WorkersHaveDevice` |
| `StatisticsReadable` | `Spec => []StatsReadable` |
| `NothingLeft` | `Spec => []NothingLeftBehind` |

It assumes of the settings what `WorkerJobs` assumes (`JobsAssumption`), and of the
applications (`AppsAssumption`) that they are among `AppKinds`, with two combinations left
out that no program has: an application that sets its port up in a function of its own does
not call `time_variables_init` (minimal_read, minimal_generate, basic, flagging);
and the one with a record of marks, flagging, is one of these and works in main. TLC
evaluates the assumption on the records of the model.

`WorkersHaveDevice` joins two models. What a worker polls follows from the invariant of
`WorkerJobs`, taken over by instance (`JP!IInv`): a step of main that is not one of the launch
sequence leaves the variables of `WorkerJobs` alone, and a step of the launch is one of
`WorkerJobs`, so its lemmas apply unchanged. `LaunchInv` ties the two program counters
together, `DeviceInv` says for each place of main which ports are configured, which queues set
up and which ports started, `MeasurementInv` the same for the statistics arrays. That
ports are stopped only when no worker runs is the conjunct on `main = "joined"`.

`MbufLoopsProofs` proves, from `LoopsAssumption` alone (natural numbers; a burst size below the
width of `nb_tx`, as both are a `uint16_t`; and receive rings
that the pool could fill, since device_setup fails otherwise), for any number of workers,
any pool, rings and bursts, and whatever the NIC does:

| Theorem | States |
|---|---|
| `Invariance` | `Spec => []IInv`, the inductive invariant |
| `Owned` | `Spec => []SingleOwner` |
| `Conserved` | `Spec => []NothingLost` |
| `PoolInvariance` | `Spec => []PoolInv`, the second inductive invariant |
| `PoolIsEnough` | `Spec => []PoolSuffices` |
| `TemplatesThere` | `Spec => []TemplateBehindFlag` |

The first two properties say that the places (`Where`) partition the pool's mbufs. Alone this is
not inductive: what an action moves depends on where the worker is (`Phase`: the
array is empty before an allocation or a reception, and nothing of it counts as
sent before sending) and on arrays and rings holding no mbuf twice (`Injective`).
`IInv` adds the two. One lemma, `MovePreserves`, shows that moving a set from one place to
another keeps a partition; then each action is shown to be such a move, and
`Receive` to be two. `Owned` and `Conserved` exclude loopback, where they are false (§3, findings).

`PoolSuffices` is about numbers: a sender never finds the pool empty if it has the size
of common_args.c's formula. `PoolInv` bounds every ring by its descriptors and every array by the
burst (`Sizes`), says that who only sends has no mbuf in a receive ring and who only receives asks
for none (`OneWay`), and that nobody has failed (`NeverShort`). When a worker asks for a burst, the
partition makes the free mbufs those of the pool that no ring or array holds, the bounds add up
over the workers (`Spread`: a set whose members all stand in `n` places of each worker has at most `n` members
per worker), and what is left by the formula is a burst more than the other lcores' caches can keep back.
`TemplateBehindFlag` needs the control state only: whoever gets no template clears the flag
before it enters its loop, nobody sets it again, and templates are freed on leaving the loop.

`MarkSetRssCtlProofs` proves of `MarkSet`, from `MarkSetAssumption` alone, for any set of marks, any
width of ids and counters, any initial size and growth, and any content of the memory
that the array is allocated over:

| Theorem | States |
|---|---|
| `TypeCorrect` | `Spec => []TypeOK` |
| `Invariance` | `Spec => []IInv`, the inductive invariant |
| `Distinct` | `Spec => []DistinctIds` |
| `Kept` | `Spec => RecordsKept` |
| `Counts` | `Spec => []CountInv`, the invariant of the counts |
| `Overcounting` | `Spec => []NeverOvercounts` |
| `Totals` | `Spec => []TotalsOnZeroedHeap` |

`IInv == TypeOK /\ Bounded /\ Accounted /\ DistinctIds`. `Bounded` says that a packet was counted once at
most, which keeps the true counts in their type as `received` is capped; `Accounted` that every packet
that arrived with an id is counted, dropped or still in `bufs`, which needs that taking the first
packet off a burst takes one from those with its id (`WithIdCount` and `WithIdTail`). `DistinctIds` needs
no more than the types: set_add looks for the id in every allocated slot, also in those not
in use, and makes a record only when none has it, so garbage can hide a mark (see §3) but can never produce a second record with one id. The lemma `SlotsStep`
states what each way through set_add does to the slots (those in use keep their ids; at
most one more is in use), and both theorems follow from it. Growing is a concatenation
whose first `max_size` slots are the old ones.

For the counts `CountInv` adds that a record in use has at most what arrived with its id
(`AtMost`) and, in zeroed memory, that the slots not in use have the id 0, the records in use
the true count modulo the counter's width, and that an id without a record was never counted
(`Zeroed`); with `Accounted`, `Totals` follows. set_add counts in the smallest slot that has the id; two lemmas say what it is
(`Found`, `Made`). In memory with arbitrary contents that slot may be one not in use: the packet is
then missing in the record made later, which is why only `AtMost` holds there.

`MarkSetRssCtlProofs` proves of `RssCtl`, for any number of channels, sizes of the tables, width
and number of the key's words, any set of command lines and any number of runs:

| Theorem | States |
|---|---|
| `RssInvariant` | `RssSpec => []RssInv`, the inductive invariant |
| `Applied` | `RssSpec => []ConfigurationApplied` |
| `Truthful` | `RssSpec => []DumpTruthful`: of what is printed (`Shown`), not only of what is read |

It assumes (`RssCtlAssumption`) that a command line has each option at most once, as `argparse`
leaves it, and that the channel and index of a reset or an edit are ones the device has: the tool
does not check them, and what the device does with others is not known. TLC evaluates it on
the command lines of the run. What is in the tables before a run is not assumed: earlier runs may have ended
anywhere.

`ConfigurationApplied` speaks of a run that has ended, and says nothing while it runs; it is not
inductive. `RssInv` says of the run started last, as long as it is not cut off (`Applying`): what
its command line asks for in a slot is either still the last write to that slot among the accesses to come
(`Leaves`), or no write to it is to come and the slot holds it (`Settled`). When nothing is to come only
the second is left. `Dumping` says the same of reading: writes come before reads, so what was read is
still in its slot, and what was not is still to be read. Both need that an access goes to the slot
it means, which is `InTurn`: only the last run is under way, and between a selection and its access
nobody else selects. `RssTypes` adds that a slot only holds what fits into it.

The rest is what a command line asks for and what it writes. `Leaves` and `Untouched` are
carried through concatenation (`Concatenated`), a fold of it (`FlattenLeaves`), one channel
(`ChannelWrites`), all that a configuration covers (`ConfigureWrites`), and the three parts of a command
line (`LineWrites`): edit over reset over configuration, the reset by 0 under the queues of
the range. Three definitions are loops: dealing out the queues (`RetaInTurn`), the words of the key
(`KeyAgain`) and the fold (`Flattened`). The library's induction theorems cannot be used for
them, so each is proved by exhibiting a function that satisfies the loop's equation and comparing by
a smallest difference (`UpTo`, from the well-foundedness of `<`). That the words of the key make its low words again is
`TwoDigits`: a number modulo a product is the quotient's remainder in front of the number's.

`MeasureProofs` proves, from `StatisticsAssumption` and `MeasureAssumption` (one to ten ports,
as the arrays of the statistics have ten entries; natural numbers), for any number of
packet sizes, any times, any pipe and any number of interrupts:

| Theorem | States |
|---|---|
| `Windowed` | `Spec => []WindowsAddUp` |
| `Clean` | `Spec => []CleanEnd` |
| `Rows` | `Spec => []RowsTruthful` |

`WindowsAddUp` is strengthened by the value between its reading and its printing: it lies
between the end of the last window and the counter, which runs on (`StatInv`). `CleanEnd`
speaks of the end only; `CleanInv` says for each place of the driver what is still to be
undone there, that `Len(rows) = measured`, and that the loop is only left with all sizes measured,
by an interrupt or by an exception, whose place (`aborted`) tells whether the generator ran.

`RowsTruthful` is about both processes and the pipe between them; `RowInv` has a part for each thing
that must not get mixed up. `Phase`: which phases of the child go with which of the driver, so that no
child of one row is alive in the next. `Current`: the generator has the length of the
running measurement and only its packets are counted; the pipe ends in a last line exactly if this
child printed one. `Summing`: there is a snapshot of the ports' counters at the SIGINT that the
counters have not fallen below; the child's sum, taken port after port while the NIC goes on
counting, is at least the snapshot's sum over the ports it has taken. `Written`: the same
for the rows already there. The sums are folds over a set of ports (`SumFunctionOnSet`), which the
prover's library has no theorems about. `MeasureProofs` proves what is needed (`SumEmpty`, `SumPick`,
`SumAdds`, `SumOfPorts`) by a smallest counterexample: strict inclusion is well founded on the
subsets of a finite set (`FS_StrictSubsetOrderingWellFounded`), and `WFMin` gives a smallest set on which
a claim fails, without an operator as a parameter.

`TableFillerProofs` proves, from `CommandLineAssumption` (command lines are sequences of options)
and `TableFillerAssumption` alone, for any command lines, any capacity, any width of
`ipc` and any refusals:

| Theorem | States |
|---|---|
| `Counted` | `Spec => []RulesCounted` |
| `Parsing` | `Spec => []CommandInv`, the inductive invariant of the parsers |
| `AsGiven` | `Spec => []SettingsAsGiven` |
| `Consistent` | `Spec => []AcceptedIsConsistent` |
| `PoolCovers` | `LcoreCount <= 843` implies `Spec => []PoolCoversRings` |

For `Counted`, the inductive invariant adds that the settings are final once the loop runs (`TableInv`), that
the number of rules is a number (`SettingsInv`: no option of the parser makes it something
else), and that every counted address in the table is positive and below `ipc` unless `ipc` is
zero, which is what makes the next address new until it has come round.

`CommandInv` is for all ten applications at once: after every turn of the loop a field of the
settings holds what the last option named for it gave, among those read so far, or the application's
default (`FieldsInv`), and the fields that are computed with are numbers (`NumbersInv`). One lemma per
application shows that each case of its `switch` writes the fields of its own option and no others,
which is the content of `SettingsAsGiven`; `HelpIsSet` compares the defaults with those of the help texts. `ChecksInv` says that what main() checked, or overwrote,
is still so, since nothing writes the settings after the loop. `PoolCovers` is arithmetic
on the defaults: the formula for the pool is over the number of lcores, except in bonding, which has a
pool of 524287 mbufs whatever the lcores (bonding.c:224). That covers 843 lcores at the most; DPDK is
built for 128 unless configured otherwise.

`HairpinTestProofs` proves, from `HairpinAssumption` alone (natural numbers; a packet count and a burst of
at least one that fit the width, as `packets_to_send` is a `uint16_t` and the burst size 32),
for any number of packets, retries and any width, whatever the NIC takes, loses, delays
or splits wrongly:

| Theorem | States |
|---|---|
| `Invariance` | `Spec => []IInv`, the inductive invariant |
| `Expected` | `Spec => []ExpectedIsSent` |
| `Passed` | `Spec => []PassedMeansAllRead` |
| `NeverFailed` | `Spec => []HealthyPasses` |

`IInv == TypeOK /\ CountersInv /\ ChunkInv /\ VerdictInv`. The test knows its packets only by
counting, so `CountersInv` says of every counter of the code which packets it counts: it is the
cardinality of the even, or odd, packets in a set of places. `expected_sw` counts those of the
chunk already, before they are sent, and gives back what the retries could not send; `sent_total` is
taken modulo its width, as the code computes it: the invariant needs no more than that the NIC's packets
agree with it up to a multiple of the modulus. `ChunkInv` says that the chunk is the packets
from `i` on, those before `sent` on the NIC and the others still in `temp_bufs`. Each step moves a set of packets
from one place to another; the lemmas say what that does to the cardinalities. `HealthyPasses`
follows since equal cardinalities of a finite set and its subset make them equal.

`PcapFilesProofs` proves, for any number of workers with any jobs, any threshold, burst and
packets, any length of the prefix, and wherever writes fail:

| Theorem | States |
|---|---|
| `Invariance` | `Spec => []IInv`, the inductive invariant |
| `Captured` | `Spec => []CaptureFaithful` |
| `Replayed` | `Spec => []ReplayFaithful` |

It assumes finitely many lcores and natural numbers (`PcapAssumption`), and that the jobs are non-empty
ranges of queues that do not overlap (`JobsAssumption`), which `WorkerJobs` is proved to give to
the lcores that it launches. Where the prefix leaves room for the port and the first queue of
every worker (`NumbersFit`, a condition in both properties; finding 5 is the rest), jobs
without a common queue make different names and a file has one writer, so that nothing is misplaced in it
(`WriteAtEnd`); `WriterInv` then says what
is in it by where the writer is: the first `SavedCount` packets of what it received. Nothing is claimed of a
file on which a write failed. Transmit starts from a capture that is header and whole records
(`SoundInv`); each worker's offset in it stays odd, that is between two records, and each queue was offered the packets
read so far, in order, one fewer for the queues the present packet has not come to (`ReaderInv`).

Model-checked only:

* All liveness (`EveryQueuePolled`, `StopEnds`, `EndsWithWorkers`, `StopEndsWorkers`, `ThresholdEnds`,
  `TestEnds`, `WaitEnds`, `FillEnds`): liveness under fairness is outside what the proof system handles here.
* The findings, which TLC refutes by a counterexample.

## 5. Not modelled

* `transmit`'s heap buffers (`pkt_data`, transmit.c:101,152): only the file and the packets.
* The mbufs of a burst that flagging leaves when its set cannot grow (flagging.c:96); its packets are counted in
  `MarkSet`'s `dropped`.
* How `getopt_long` splits words and abbreviates names, and numbers beyond the width of `int`, also by `atoi(optarg) * 1000`.
* Statistics: rates and times, which are arithmetic on a window; `print_queue_xstats`, which
  reads and prints; `print_stats_total`'s sums, of which nobody reads the lines. More than ten
  ports: `print_stats` indexes arrays of ten entries with every port the EAL knows
  (common_stats.c:144), which `StatisticsAssumption` excludes.
* The speeds of the measurement driver, its charts and its other commands (`nfb-eth`,
  hugepages are one flag).
* Flow rules of flow/basic and flagging, packet templates, traffic scripts, printing: data or
  output only.
* `rte_exit` is the end of the process; what DPDK cleans up inside is its own.

## 6. Plan

In this order.

1. flagging and transmit's buffers as further owners in `MbufLoops`.
2. `MbufLoops` with the settings of `CommandLine`: `PoolSuffices` for what the parser yields.
