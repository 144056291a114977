# Relativistic cache coherence in TLA+

A verification development for the RCC protocols of this repository: the SLICC
protocols `tardis-VI` and its variants Renew, Renew-Pred and RC
(`src/src/gems-2.1.1/protocols/tardis-VI*.sm`), the Ruby wrapper that connects them
to the GPU's cores (`src/src/gpgpu-sim/ruby_wrapper.cc`), and the memory side of a
shader core (`src/src/gpgpu-sim/shader.cc`, `src/src/abstract_hardware_model.cc`).
File names below are relative to `src/src/`.

## The system

A GPU has shader *cores* that run *warps*. Each core has a private L1; the lines
are spread over *banks* of a shared L2 with DRAM behind each bank. No cache is
ever invalidated. Instead

* a core has a logical clock `pts`; a line in an L1 carries a lease end `rts` and
  may be read while `rts >= pts`;
* a line in the L2 carries `rts` (the furthest lease handed out) and `wts` (the
  time of its last write). A read extends `rts`; a write is given the time
  `max(pts, wts, rts + 1)` and acknowledged at once;
* an acknowledgement or a data response moves the requesting core's clock to the
  `wts` it carries, which makes old leases expire;
* a line that leaves the L2 leaves only the bank's `mts` behind, a bound on the
  timestamps of everything that was evicted.

### Inventory

| part | state | operations | interacts with |
|---|---|---|---|
| L1 controller (`tardis-VI-L1cache.sm`) | line state, lease, TBE (lease, pending reads and writes), `pts` | load hit/miss, write-through, atomic, replacement, Data, Ack, DataAtomic | mandatory queue, request and response networks, Sequencer callbacks |
| delay queue of an L1 (same file, `MessageBuffer.C`) | responses held back, wake-ups | insert by `wts`, hand out when the scheduler is stalled | L1, event queue |
| L2 controller (`tardis-VI-L2cache.sm`) | entry (`rts`, `wts`, dirty), TBE (readers, `max_read_pts`, `max_write_pts`, written block), `mts` | GETS, write and atomic on a present, absent or fetching line; replacement; memory data | networks, DRAM |
| Renew variant (`tardis-VI-Renew-*.sm`) | as above | RENEW: a lease without data | L1, L2 |
| Renew-Pred variant (`tardis-VI-Renew-Pred-L2cache.sm`, `TCpredictor.C`) | lease per L2 line | longer with a read, short with a write | L2 |
| RC variant (`tardis-VI-RC-L1cache.sm`) | `lts`, `sts` in place of `pts` | as above, fence | L1, core |
| messages, buffers (`tardis-VI-msg.sm`, `ruby_clean/buffers`) | ordered queues | enqueue, deliver | controllers |
| MSHR table (`gpgpu-sim/ruby_wrapper.cc`) | per line: list of reads, set of writers; queue of ready lines | `is_ready`, `send_request`, `mark_ready`, `next_access`, `mark_skipped_write_done` | shader core, Sequencer |
| Sequencer (`ruby_clean/system/Sequencer.C`, `interfaces/GpusimInterface.C`) | request tables, outstanding count, callback queues | `makeRequest`, `readCallback`, `writeCallback` | L1, wrapper |
| shader core (`gpgpu-sim/shader.cc`, `scoreboard.cc`, `abstract_hardware_model.cc`) | per warp: `n_gmem`, `n_atomic`, SC fence, memory barrier, registers, stores under way; CTA barriers; operand collector, dispatch register | issue, coalesce, send, write back, barrier, exit, reuse of a context | MSHR table |
| DRAM (`gpgpu-sim/dram.cc`, `GpusimDramInterface.C`) | memory blocks | fetch, write back | L2 |
| VIP, RC-Renew, baselines (MESI, VI, cachelease), network simulators, functional simulator, profilers, SLICC | | | not modelled, see below |

What is hard: several warps of a core and several cores race on a line; writes are
acknowledged before a fetch returns; the L2 forgets the timestamps of single lines;
responses are merged, held back and drained one at a time; leases are compared with a
clock that moves in between; lanes are counted one way and given back another; warp
contexts are reused while answers may be on their way. The list is `hazards` in
`PROJECT.json`, each with its line and the properties that cover it.

What makes the parts correct:

* L2: a write gets a time after every lease and write before it, and is not lost
  (`LeaseRespected`, `StrictLease`, `WritesInOrder`, `NoLostWrites`), and time does
  not run away (`ClockGrowth`);
* L1: the clock covers what the core has seen; responses find what they expect
  (`ClockCoversAccesses`, `Assertions`, `RenewalExpired`), held back or not
  (`HeldCounted`, `ServedInOrder`), with data or without (`RenewSound`);
* MSHRs and Sequencer: each request is answered exactly once (`PendingCounted`,
  `EveryAccessDone`), and a warp never goes back to an older version of a
  line (`CoherentPerWarp`);
* core: one memory instruction at a time under SC (`OneAtATime`, `LanesCounted`),
  registers, barriers and contexts released neither early nor never (`RegistersHeld`,
  `MembarAfterWrites`, `BarrierHolds`, `CleanReclaim`, `EveryWarpExits`);
* the whole: `SequentialConsistency`, by way of `ImplementsMemory` and
  `WarpsSeeMemory`; for the RC variant `AcquireOrder` and `FencesOrder`.

## The modules

```
TardisNet <- RubyMSHR <- TardisL1 \
TardisNet <- TardisL2 ------------- RCC <- RCCProperties <- MC
             |                      |         |<- RCCSerial <- MCSerial   (implements LogicalMemory)
             |                      |         |<- RCCDelay  <- MCDelay
             |                      |         |<- RCCRenew  <- RCCPred <- MCRenew
             |                      RCCTypes <- RCCLeases <- RCCClocks     (proofs)
RCCClocks, RCCProperties <- RCCInFlight                                    (proofs)
RCCInFlight, RCCSerial <- RCCRefines <- RCCConsistent                      (proofs)
TardisL2, RubyMSHR <- RCCRelaxed <- MCRelaxed   (instantiates TardisL1 twice)
ShaderCore <- MCCore
ShaderCore <- ShaderCoreProofs                                             (proofs)
LogicalMemory <- LogicalMemoryProofs                                       (proofs)
```

* **TardisNet**: constants of the GPU, messages, buffers. Virtual network 0 is a
  FIFO from each L1 to each bank, merged in any order at the bank; virtual network 1
  a FIFO from each bank to each L1, of which the L1 consumes any head. The mandatory
  queue is declared unordered, but every request enters it with the same latency and
  `RANDOMIZATION` is off, so it is a FIFO.
* **RubyMSHR**: `n_gmem`, `mshr`, `ready` (callback queue and `m_current_response`),
  `skipL1` (`m_skipL1_callback_queue`) and the history `log` of completed accesses.
  `send_request` is `issue_warp` with its fence, `memory_cycle`, `is_ready` and
  `send_request`; `next_access` and `mark_skipped_write_done` are clients 5 and 6 of
  `ldst_unit::writeback`, and `AckTurn` the order in which it asks them. `ready` is one
  queue because the callback queue hands a line to `m_current_response` at least once per
  core cycle (`advance_time`; the interconnect's clock is the faster one by default and
  in the shipped configurations), so one is empty at a writeback only if both are.
* **TardisL1**: `pts`, `st`, `line`, `tbe`. One action per row of the transition
  table that differs in effect: `LoadHit` (S, SM), `LoadMiss` (I, I_I),
  `WriteThrough` (any state), `L1_Replacement`, `Data` (Data, Data_Done) and
  `WriteDone` (Ack, DataAtomic and their Done forms). `getState` reclassifies an
  expired S as I and an expired SM as I_I, as in the code.
* **TardisL2**: `l2st`, `l2`, `l2tbe`, `mts`, `dram`, and the history `wtimes` (the
  time told to the writer of each version). `GetsMiss`, `WriteMiss` (early
  acknowledgement), `AtomicMiss`, `GetsHit`, `WriteHit`, `L2_Replacement`, `MemData`,
  `MemDataAtomic`. Stalled events are disabled actions.
* **RCC**: composition, `Spec`, `FairSpec`, and the properties that are proved.
* **RCCProperties**: what the warps observe, what happens to a request on its way, the
  controllers' assertions, liveness. **MC**: instances.
* **LogicalMemory**: what the protocol promises, without caches: a sequence `acc` of
  accesses, each with a logical time. A write may be put at any time that no access to
  its line has passed, `Gap` ticks behind every read of an older version; a read at any
  time at which its version is in force, also after newer ones were written.
* **RCCSerial**: RCC with the history variables of the refinement. A write takes
  effect when the L2 applies it, a read when the writeback stage hands it to its warp;
  the time of a read is its core's clock when the L1 served or asked for it, or the
  time of the write it reads if that is later. `ImplementsMemory` is the abstract
  specification, `WarpsSeeMemory` ties its accesses to what the warps are told.
* **RCCDelay**: the L1 with its delay queue. The `Delay_` transitions are those of
  `TardisL1` instantiated with the queue in place of the response network; `wake`
  counts the wake-ups that will still look at the queue.
* **RCCRenew**: `GetsRenew` of the L2 and `Renew` of the L1, beside the transitions
  the variant shares with `tardis-VI`. **RCCPred** adds the predicted lease: a hit is
  that of RCCRenew with the line's own lease in place of the constant (an INSTANCE with
  `Lease` as a parameter), a fetch ends with it.
* **RCCRelaxed**: the RC variant. Loads and responses to them use `TardisL1` with
  `lts` as its clock, acknowledgements with `sts`; `WriteThrough` looks at one and
  sends the other; `Fence` joins them and puts the warp into the queue of client 7
  (`FenceDone`). A warp has several accesses in flight, so the
  memfetches (`Warps` of the modules below) are pairs of a thread and an instruction.
* **ShaderCore**: one core between its warps and Ruby. `IssueMem`, `IssueMembar`,
  `IssueBar`, `IssueExit` are the issue stage with `func_exec_inst`; `Coalesced` is
  `generate_mem_accesses`; `Dispatch`, `MemoryCycle`, `MembarCycle`, `Answer`,
  `FenceAnswer`, `RegisterWrite` the load/store unit; `Reclaim` and `Launch` the reuse
  of warp contexts by CTAs.
* **RCCTypes**, **RCCLeases** (writes and leases), **RCCClocks**, **RCCInFlight**,
  **RCCRefines**, **RCCConsistent**, **LogicalMemoryProofs**, **ShaderCoreProofs**:
  proofs.

An action is a whole SLICC transition (its action list, then `setState`), which the
generated controller runs without interruption. Operators named
`..._something` after a "Fault:" comment are deliberately wrong versions of the
definition that follows; the mutation entries of `PROJECT.json` use them to show
that each property can fail.

### What is abstracted

* In RCC a memfetch is its warp: under the fence a warp has one access in flight, and
  a memory instruction makes one access, so `n_gmem` is 0 or 1 where the code counts
  lanes. ShaderCore models the counting, with instructions of several accesses.
* A data block is a version number. The simulator computes values outside Ruby: a
  store never fills a `DataBlk`, `h_load_hit` hands none to the core, and the missing
  `dd_writeDataToL1Cache` in (I_I, Data) and (SM, Data) has no effect on timing. The
  version of a line is therefore the one its lease is about. (If the blocks were used,
  that omission would matter, above all with renewals, which extend the lease of a
  block that was never brought up to date.)
* A cache is one fully associative set and any line that may be evicted can be the
  victim; the code takes the LRU line and stalls when it is transient.
* `setState` writes one state to TBE and entry, so there is one state variable.
* A write-back reaches memory at the eviction: it enters the same DRAM queue as the
  later fetch of the line.
* Timestamps are unbounded (`ClockGrowth` says how fast they grow). Profiling,
  prefetching, byte masks and sizes are left out.
* Default configuration: writes do not stall at the MSHRs, acknowledgements on, L1
  used for global memory, fixed lease, no single-cycle fast path; the delay queue off
  except in RCCDelay.
* RCCDelay: whether a scheduler issues in a given cycle depends on arithmetic
  instructions, so a look at the queue finds it stalled or not.
* RCCRelaxed: loads write registers of their own.
* ShaderCore: Ruby is a set of accesses answered in any order; arithmetic, shared,
  constant and texture memory are left out; warps do not diverge (a predicate switches
  lanes off); a generic address turns out to be global; the operand collector is a set.
  The SC run has instructions with all lanes on, words of one access and static spaces,
  because the others break the counters it is about: predicated-off lanes are counted
  and never given back (run `core_predicated`), a double in local memory is counted
  once and given back twice, which the assert of `decrement_gmem_count` forbids, and a
  generic access is counted and sets no fence (`shader.cc` 600 looks at the static
  space). Under RC none of these counters is used, and `core_barrier` has all three.

## What TLC checks

Unless said otherwise an instance has two cores `c1`, `c2`, two lines `x`, `y` and
lease 1. "Ways" are the lines a cache (or bank) holds, `Prog` (`Code` for ShaderCore)
the accesses each warp may choose from; its length is the only bound on a behaviour,
with `MaxCtas` for the CTAs a core runs in turn.

| run | instance | properties | shows |
|---|---|---|---|
| `evict` | 1 warp per core, 1 bank, 1 way everywhere, any 2 accesses each, `Gap` 0 | `TypeOK` `LeaseRespected` `NoLostWrites` `WritesInOrder` `ClockCoversAccesses` `ClockGrowth` `ImplementsMemory` | with every access to the other line evicting the first, leases, versions and times stay consistent, atomics and early acknowledgements included |
| `merge` | 2 warps on `c1`, 1 on `c2`, 1 bank, 1 way, 1 MSHR that merges 2, `FairSpec` | `PendingCounted` `Assertions` `CoherentPerWarp` `EveryAccessDone` | no request is lost, repeated or met in a state the code asserts away, no merged load takes its warp back to an older version of the line, and every access ends |
| `sc` | 2 warps on `c1`, 1 on `c2`, 2 banks, no evictions, no merging, `Gap` 1 | `SequentialConsistency` `StrictLease` `RenewalExpired` `WarpsSeeMemory` `ImplementsMemory` | the protocol proper is a memory in logical time, hence sequentially consistent, also when a warp reads a line the other is upgrading (`SM`) |
| `delay` | as `sc` with delay queues, threshold 0; `c2` writes twice | `HeldCounted` `SequentialConsistency` `ServedInOrder` | responses that overtake each other in an L1 are neither lost nor misapplied |
| `renew` | RCCPred; 3 lines, 1 bank, 2 ways, 1 warp per core (4 and 3 accesses), leases 1, 2, 3 | `RenewSound` `LeaseRespected` | a lease without data is about the version the L1 has, and leases of changing length never reach past the next write |
| `core` | SC; 2 warps of a CTA, 2 lanes, 2 CTAs in turn | `LanesCounted` `OneAtATime` `CleanReclaim` `MembarAfterWrites` | lanes, fences and contexts with accesses answered in any order |
| `core_barrier` | RC; 3 warps of a CTA, one exits early | `RegistersHeld` `BarrierHolds` `EveryWarpExits` | registers and CTA barriers are released in time, and neither early |
| `relaxed` | RC variant, 3 lines, 2 banks, up to 2 instructions waiting for Ruby, a second thread on `c2` that runs a fence | `AcquireOrder` | fences order loads and atomics before them and everything after them |
| `sc_evict` | 1 bank with 1 line, `c2` writes three times | `SequentialConsistency` | **violated**, see below |
| `sc_merge` | 2 warps on `c1` with merging, 2 banks, no evictions; `c2` passes a message | `SequentialConsistency` | **violated**, see below |
| `core_predicated` | SC; a load with a lane switched off | `EveryWarpExits` | **violated**, see below |
| `relaxed_fence` | RC variant, stores around a fence | `FencesOrder` | **violated**, see below |

Why the bounds are enough for the cases of interest: two lines and one way make each
access to the other line an eviction; two cores make a reader with an old lease and a
writer; store-buffering and message-passing shapes need two accesses per warp and two
lines; a merged read needs two warps on one core and a limit of two; a renewal whose
line was evicted in between needs a third line; two lanes on one word, in one segment
or in two make conflicting atomics, one access and two. Lease 1 is the smallest that
gives a lease beyond the write.

**Consistency.** `SequentialConsistency` does not mention timestamps: `log` records for
each completed access the version it read or wrote; program order and the order of
versions must be acyclic, which is stated as "every set of completed accesses has a
first one". `AcquireOrder` and `FencesOrder` say the same of the RC variant with the
order of fences in place of program order; `FencesOrder` takes stores before a fence
into account and `AcquireOrder` does not.

**Refinement.** `ImplementsMemory` (`LogicalMemory!Spec`) is checked with `Gap` 1 where
nothing is evicted and with `Gap` 0 where lines are. The difference is the finding
`sc_evict`: a write may then share its tick with a read of the older version, and
`LogicalMemory` is sequentially consistent for `Gap` 1 (proved below) but not for 0.

**Deadlock** is checked except in four runs. In `merge`, `core_barrier` and
`core_predicated` a request or warp that is stuck has to show as a violated liveness
property. In `delay` a behaviour may really stop: a held response is put into the
queue with one wake-up (`MessageBuffer.C` 370); if the scheduler issues in that cycle
the port triggers nothing, no other wake-up is scheduled (`StateMachine.C` 465), and
without later traffic to the L1 the response is never handed out. TLC shows it as a
deadlock when `CHECK_DEADLOCK FALSE` is taken from `delay.cfg`.

**Fairness.** The event queue wakes up a controller in each cycle it has a message,
the network and DRAM advance each cycle, and the writeback stage polls its clients
each cycle: weak fairness of `L1Step`, `L2Step`, `Network`, `Dram`, `Writeback`.
Clients 5 to 7 do not set `serviced_client`, so the arbiter starts at client 5 at the
latest and always asks for reads (5) before acknowledgements (6) and fences (7): that is
the guard `AckTurn` of `WriteAck`, and its weak fairness says that acknowledgements are
served once reads stay away. Warps need not issue. `CoreFairSpec` only
assumes that a core that can take a step takes one: its program is finite, so every
behaviour is, and no scheduler's choice can starve a warp for ever.

### Findings

* **`sc_evict`**: a write to a line that is absent from the L2 (or being fetched) is
  timed `max(max_write_pts, mts)` (`tardis-VI-L2cache.sm` 454, 597), and `mts` is the
  `rts` of evicted lines (620). It can get exactly the last tick of a lease that is
  still live, where a hit would take `rts + 1`. `LeaseRespected` (not past the write)
  holds, `StrictLease` does not, and with it `SequentialConsistency` fails.
  `README.md:3` says that "SC ordering can still be maintained".
* **`sc_merge`**: `do_access` (`ruby_wrapper.cc` 867) merges a load with a load of the
  line that another warp of the core has under way, whatever the warp has seen since
  that load was served. While the old data of `x` is on its way from its bank, `c2`
  writes `x` and then `y`; a warp of `c1` reads the new `y`, which comes from the other
  bank, and then joins its neighbour's load of `x`: it sees the flag and the old message,
  with no line evicted. `access_allowed` stalls such a merge only across the warp's own
  unacknowledged write to the same line (`ruby_wrapper.cc` 945-947). Within a line the
  order of one bank's responses and of the writeback clients suffices: `CoherentPerWarp`
  holds (run `merge`), and fails if acknowledgements are taken before reads (its mutant).
* **`core_predicated`**: under SC `checkExecutionStatusAndUpdate` (`shader.cc` 2903)
  adds a lane to `n_gmem` although its predicate has switched it off, and no access
  gives it back. The fence stays, and the next memory instruction of the warp is never
  issued.
* **`relaxed_fence`**: a fence of the RC variant is answered at once and joins the two
  clocks (`tardis-VI-RC-L1cache.sm` 760), while stores before it are unacknowledged and
  their times unknown: the issue stage's "all writes are complete" (`shader.cc` 683)
  only waits for registers. A store after the fence may get an earlier time than the
  one before it, and another core sees the flag and not the message.

## What is proved

For all sets of cores, warps, lines and banks, all leases, ways, MSHR sizes and
programs, from `CoreOfAssumption`, `BankOfAssumption`, `LeaseAssumption`,
`WaysAssumption`, `MSHRAssumption` and `ProgAssumption` (the functions have their types,
the lease is a natural number, a cache has a way and an MSHR entry takes a read):

* `TypeCorrect`: `Spec => []TypeOK`. One lemma per action.
* `WritesInvariant`: `Spec => []WriteInv`. `NoLostWrites` and `WritesInOrder` are not
  inductive: a write's time must also be bounded by what the next write will look at
  (the entry's `wts`; while the line is absent or fetched, `mts` or the TBE), a dirty
  TBE must hold the newest version, and requests must be at the bank of their line
  because `mts` is per bank. `LineInv` collects this per line, `Routed` the last part.
* `WritesKept`, `WritesOrdered`: `NoLostWrites` and `WritesInOrder` follow.
* `LeasesRespected`: `Spec => []LeaseRespected`, from `WriteInv`. `Keeps(x)` says a
  step keeps every lease on line `x` acceptable; one lemma per L2 action shows it, and
  the rest follows which leases appear in lines and responses.
* `LeasesStrict`: `Spec => []StrictLease` if the lines of each bank fit in it
  (`LinesFit`); `sc_evict` shows that the hypothesis is needed. The invariant, theorem
  `LeasesStayCovered`, has a part that is stronger where the lines fit: the line of a
  lease is never evicted, so its state stays V, and there the next write is a hit and
  takes `rts + 1`.
* `ClocksInvariant`: `Spec => []ClockInv`, and from it `ClocksCover`
  (`ClockCoversAccesses`). The versions in a warp's log come from lines, MSHR entries
  and responses, so the invariant says of each of these that its version was written
  at a time the core's clock has reached, or will have reached when the response with
  its `wts` is taken. Clocks and the histories of writes only grow (`Kept`).
* `FlightInvariant`: `Spec => []FlightInv`, about requests on their way. Each request
  has a name: the reads of a line by a core are one request (the MSHR merges them), a
  write is one of its own. `Held(id, s)` says at which stage a request is (mandatory
  queue, request network, bank queue, fetch, response network, writeback). No queue
  holds a request twice (`OnceEach`), no request is at two stages (`Single`), a request
  is somewhere exactly while an MSHR entry waits for it (`Awaited`), a warp waits once
  (`Busy`), the TBE of an L1 counts the requests beyond it (`Counted`), and that of a
  bank holds an atomic alone and a core's reads once (`TBEInv`). Each step moves a
  request (`Moved`), makes one or ends one.
* `AssertionsHold` (`Assertions`) and `PendingCounts` (`PendingCounted`) follow. The
  second turns the stages into numbers: there is a bijection between the requests held
  at a stage and the messages that `InFlight` counts.
* `ClocksGrowSlowly`: `Spec => []ClockGrowth`. A timestamp comes to a clock from a
  response, to that from a line or a fetch, to a line from a request or from `mts`, so
  the invariant `GrowthInv` (theorem `GrowthInvariant`) bounds them all. The bound must
  grow exactly in the steps that move time on, and those are not the ones in which
  `ClockGrowth` counts an access: the bank gives a request its time, the warp makes it
  before and sees it complete after. So `GrowthInv` counts the accesses that are answered
  (in the response network or back at the core, by `Held` of `FlightInv`) or complete;
  `LoadWork` and `WriteWork` never fall, a read that hits or a fetch that answers reads
  adds a load, a write that hits adds a write. That the sets counted are finite is part
  of the invariant, so the sets of cores, warps and lines need not be finite.
* `MemoryImplemented`: `SerialSpec => ImplementsMemory`, for `Gap = 0`, evictions
  included, and for `Gap = 1` with `LinesFit` (`GapOK`: the leases behind the reads are
  then strict), if loads are not merged (`NoMerge`: an MSHR entry takes one load, or a core
  runs one warp, as in `evict`). The hypothesis is needed: a merged load is given the
  logical time of the load it joins, which may be before its own warp's last access
  (`sc_merge`). Three invariants carry it, beside those
  above: readable lines have blocks (`LinesOK`); the time of a read under way is within
  the lease it asks for, is sent and is given (`AtInv`, theorem `ReadsInvariant`); the
  accesses performed are the versions of `wtimes` and reads within leases, and the
  access a warp has under way is not before the ones it has performed (`AccInv`: the
  core's clock covers those, or their acknowledgement is still on its way). Then each
  step of the system is a `Write` or a `Read` of the memory or leaves `acc` alone.
* `RenewalsExpired`: `Spec => []RenewalExpired`, the assertion of `jj_popL1RequestQueue`,
  without any hypothesis. The bank compares the lease in a request with its last write;
  what the invariant `RenewInv` (theorem `RenewInvariant`) traces is how an L1 can have a
  block it does not read: the lease ran out, or the line was given up when a write of the
  core's own was acknowledged, and then that write came at or after the end of the lease
  (`GivenUp`), which the GETS carries to the bank (`AskedFor`). The second case needs that
  the acknowledgement is for a newer version than the block it finds. Data and
  acknowledgements travel in one first-in first-out network, so that holds if it holds
  for the blocks sent before it (`AnswersNewer`); the histories are sorted (`Sorted`) and
  leases end by the next write (`LeaseRespected`). An upgrading line (`SM`) is read with
  the lease in its TBE, which is the block's (`LinesOK`).

For the abstract memory, from no assumption but `Gap = 1`:

* `SequentiallyConsistent`: `LogicalMemory!Spec => []SequentialConsistency`, for any
  warps, lines and number of accesses. The inductive invariant `OrderInv`: a
  warp's accesses do not go back in time; versions and times of a line's writes grow
  together; a read is after the write of its version, in `acc` and in time, and `Gap`
  ticks before every newer write. Then an access that must precede another has the
  smaller time, or the same time and the smaller place in `acc` (`BeforeIsEarlier`), so
  a set's first access is the one that is least in that order.

From these, what the warps of the GPU see:

* `AccessesConsistent`: with `NoMerge`, `LinesFit` and `Gap = 1`, the accesses `acc` of
  the system are sequentially consistent: it implements the memory, and the memory is.
* `LogFollowsMemory`: `SerialSpec => []LogInv`, without those hypotheses. For each warp
  there is a function from the positions of its log to those of `acc`, increasing, that
  leads from each entry to the same access of the same warp (`Follows`): a warp is told
  of its accesses once each and in order. To be inductive the invariant also speaks of
  the acknowledgements in the response network and at the core (`Owed`): they are about
  an access in `acc` that comes after those in the log. That an entry made by a read
  or an acknowledgement leaves nothing owed is `FlightInv` (a warp has one access under
  way, which is held once).
* `WarpsConsistent`: with the same hypotheses as `AccessesConsistent`,
  `SerialSpec => []SequentialConsistency`, the property of run `sc`, which mentions no
  timestamp: an order that has no cycle on `acc` has none on the logs.

`SerialSpec` is `Spec` with history variables: each of its actions is one of `Next`
with the new values of `acc` and `at` (`StepOfRCC` is the direction that is proved).
`Gap` is a parameter of the abstract memory alone, so `Gap = 1` restricts no system. The
other two hypotheses do, and the runs `sc_evict` and `sc_merge` show what happens
without each.

For a shader core, from `CoreAssumption` (a warp has finitely many lanes, programs are
non-empty sequences of instructions, their last one and only that is an exit, a load
writes a register and a store none), for all warps, CTAs, lanes, registers and programs,
under SC and RC:

* `BarriersHold`: `CoreSpec => []BarrierHolds`. A warp at a barrier has been counted for
  it and has not passed it, so the invariant `BarInv` compares the barriers a warp has
  left behind (`Passed`): the running warps of a CTA have passed equally many, an exited
  one no more. When a barrier opens, at an arrival or at an exit, the warps at it are
  all the running warps of the CTA, and each passes one.
* `RegistersStayHeld`: `CoreSpec => []RegistersHeld`. The scoreboard releases a register
  when `m_pending_writes` returns to 0, so the invariant `RegInv` says what it counts:
  the accesses of the instruction not sent yet, those in Ruby and the answer at
  writeback. It needs that one instruction at a time writes a register (the scoreboard's
  own guard), that an access sent is not among the unsent ones, and that a dispatched
  instruction left with nothing to send waits for no answer.
* `LanesStayCounted`: `CoreSpec => []LanesCounted` if, under SC, the program is exact
  (`ExactCode`: no memory instruction has a lane that is counted and switched off, or a
  lane in two transactions). The hypothesis is needed: `core_predicated` is what happens
  without the first half, the assert of `decrement_gmem_count` without the second. An
  instruction is counted by its active lanes and given back mask by mask; `LanesNew`
  shows, with a bijection between lanes and pairs of access and lane, that the masks
  `generate_mem_accesses` makes have each lane once, for every way of coalescing and of
  splitting conflicting atomics. The invariant `LaneInv` then follows the accesses:
  `ItemInv` (warp and place in the program name an instruction, in the unit and by its
  accesses in Ruby, and no access is both sent and unsent: so an answer takes away one
  outstanding access), `CountInv` (the counters), `MembarInv` (a memory barrier is in
  one place) and `DoneInv` (what a warp can still have after its exit).
* `ReclaimStaysClean`: `CoreSpec => []CleanReclaim`, with the same hypothesis under SC
  and none under RC. `hardware_done` looks at stores, the scoreboard and the pipeline
  only. Loads are covered by their registers (`RegInv`), stores by their count, atomics,
  which may write no register, because `waiting` holds a warp with atomics back from its
  exit, fences in the same way.
* `StayOneAtATime`, `MembarsAfterWrites`: `OneAtATime` and `MembarAfterWrites` under SC
  for exact programs whose memory instructions name their space (`FencedCode`: a generic
  one sets no fence). The invariant `FenceInv` adds that the fence is up as long as
  lanes are outstanding; no lanes means no accesses because no mask is empty.

Only model-checked: `WarpsSeeMemory` (it counts with `SelectSeq`, whose argument is an
operator; `LogInv` says that a log is a subsequence of the warp's accesses, which is what
consistency needs, and not that none is left out), `CoherentPerWarp` (with merging, outside
`NoMerge`; without it it follows from `WarpsConsistent` where the lines fit), the
properties of RCCDelay, RCCRenew, RCCPred and RCCRelaxed, and the liveness properties,
which are beyond the prover.

## Not modelled

* The per-PC and oracle predictors of `tardis-VI-Renew-Pred`. (The default predictor
  type, `is_pred_fixed`, is refused by `tr_updateL2BlockRts` of that variant.)
* `tardis-VI-RC-Renew` (RCCRelaxed with the renewals of RCCRenew), `tardis-VIP` (a
  private state), and the options of the wrapper that make writes stall at the MSHRs,
  bypass the L1 or drop acknowledgements; the store buffer of TSO and the fast path.
* The two-level scheduler, whose issue step looks neither at the SC fence nor at
  pending writes (`shader.cc` 909); divergence, arithmetic, shared, constant and texture memory.
* Baseline protocols, network simulators, DRAM timing, the functional simulator, the
  drivers and parsers of GPGPU-Sim: third-party code beside the protocols. They make up
  most of the repository's lines, which is why the map covers a small share of them.
* Profilers and recorders observe; SLICC generates code.

## Plan

1. `AcquireOrder` of RCCRelaxed.
2. `LeaseRespected` for RCCPred, with the proof of `LeasesRespected` for a lease that
   varies per step, and `RenewSound`.
