# A verification project for the ml-kernel drivers

The repository carries the kernel side of an open firmware for a video link
(goggle and air unit): out-of-tree modules, overlay drivers, patches and the
build around them. This project models the drivers that make the running system:
`src/modules/artosyn_sdio.c`, which carries the IP tunnel, the command channel
and the mailbox between user space and the radio, in most detail; then the media
memory and its pools, the scaler, the DMA copies, the MPP devices, the camera
from the sensor to the capture node, the ISP's tables, the display, the clocks,
and the small controllers.

## Inventory

| part | state | operations | how it interacts | modelled in |
|---|---|---|---|---|
| **SDIO lifetime** (`artosyn_sdio.c` probe, remove, open, close, `artosyn_op_enter/exit`, `artosyn_quiesce`) | `removed`, `active_ops`, `refs`, `ndev`, the IRQ, the misc device | probe with five failure labels, remove, open, close, the bracket around read, write, poll, ioctl | the MMC core thread against any number of threads in the character device and the SDIO interrupt | `SdioGate` |
| **SDIO transmit** (`net_start_xmit`, `net_open/close`, `artosyn_do_write`, the worker, `send_data`, `send_cmd`) | `data_txq`, `cmd_txq`, `inflight`, `tx_read_acc`, `tx_write_acc`, `unacked_bytes`, the stop bit of the network queue | enqueue, pack, flush, drop, put back, drain on ifdown | network stack, writers, worker and interrupt share the queues; the host claim serialises the last two | `SdioTx`, `TxPipe` |
| **SDIO receive, commands** (`artosyn_sdio_recv`, read, poll) | `cmd_rxq`, `cmd_readers` | bounded queueing, short reads, blocking, polling that pumps the handler | interrupt against readers | `SdioCmdRx` |
| **SDIO receive, IP stream** (run recovery, `artosyn_rx_ip_stream`) | `partial_skb`, `hdr_carry` | split a read into runs, reassemble frames across transfers, resynchronise | interrupt only, but its state survives ifdown | `SdioRx` |
| **SDIO mailbox** (`ARSDIO_IOC_MSG_GET`, `_POST`) | `mailbox_msg`, `mailbox_valid` | latch, return and clear | interrupt against ioctl, no lock | `SdioMailbox` |
| **SDIO firmware and addresses** (`sdio_request_fw`, `sdio_rom_send`, the inetaddr notifier) | the upload offset, `ip_addr` | frames of four sizes, segments in order, jump, second probe | card that comes and goes, network stack | `CardLink` |
| **MMZ heap and OS layer** (`ar_osal.c`) | zones, blocks, user and kernel mappings, owners | allocate, free, map, release on close | every media module | `MmzHeap`, `MmzZones` |
| **Video buffers** (`ar_vb.c`) | pools, blocks, handles | create, destroy, get, release, self-test | on the heap | `VideoPool` |
| **Scaler** (`ar_scaler.c`, `ml_dmabuf_map.h`) | the engine, the batch, a mapping cache | submit, interrupt, timeout, suspend, remove | dma-bufs of other drivers | `ScalerEngine`, `ScalerJob`, `BufCache` |
| **DMA copies** (`ml_dmablit.c`) | channels, the batch | submit, callback, timeout, terminate | dmaengine | `DmaBlit`, `BufCache` |
| **MPP devices** (`ar_mpp_drv.c`, `ar_mpp_proc_ctrl.c`, `ar_sysctl.c`, `ar_sys.c`) | interrupt lines and subscribers; proc files and messages; services; time base | register, free, wait; create, write, show; suspend; stamps | interrupt, media daemon, other processes | `MediaIrq`, `UmapShuttle`, `SysctlArbiter`, `MppServices` |
| **Camera chain** (`ar-vif.c`, `ar-csi2.c`, `nt99235.c`) | clocks, power, runtime references, stream state, mode, controls | bring-up, undo, frame events, parameter writes, probe, remove | async subdevices, i2c, module parameters | `CameraChain`, `SensorControl` |
| **Capture node** (`ar-cvisp.c`) | vb2 queue, `buffer_list`, `held`, the ring | queue, tick, start, stop, probe, remove | the ISP's hook, V4L2 | `CaptureNode` |
| **ISP** (`ar-isp-main.c`, `ar-isp-tables.c`, `ar-isp-*.h`, the gate table) | register banks, pages, descriptors, statistics halves, parameters | configure, arm, latch, publish, veto, interrupt | user space through parameters and debugfs, the block itself | `IspFrame`, `IspStages`, `IspGates`, `SoftFloat`, `GainLadder`, `IspBanks`, `IspPages` |
| **Display** (`artosyn_vo.c`) | CRTC, planes, lock bracket, pending event | atomic commit, vsync | DRM helpers | `VoScanout` |
| **Clocks** (`clk-ar9311-cgu.c`) | CPU banks and mirror, 48 leaves, pixel PLL | rate, parent, gate, probe defaults | clock framework | `ClockUnit` |
| **Small controllers** (`spi-ar9301.c`, `artosyn_gpio.c`, `artosyn_adc.c`, `artosyn_protemp.c`, `artosyn_pwm.c`) | FIFOs, shadows, a result register, dividers | transfer, set, sample, apply | kernel subsystems | `QspiTransfer`, `BoardIo` |
| DSI host, panel, MMC glue, patches, scripts, test tools | none that a property here is about | | | not modelled, see below |

What is hard in them, with the line where it bites and the properties that
watch it, is the list of hazards in PROJECT.json.

## Modules

The exact lines of every definition are in the map of PROJECT.json. A step is
one access to state that somebody else may touch in between; what runs under one
lock, or on variables of one thread, is put together.

### The SDIO driver

| module | what it models | state | actions |
|---|---|---|---|
| `SdioGate` | one device from probe to remove, against the threads in `/dev/artosyn_sdio` | `phase` is the next step of the probe and remove thread, with a label for each `goto` target; `fd[f]` is where the thread of a descriptor is; `removed`, `active_ops`, `refs` and `dev->ndev` are the code's | one per step of probe, of each error path and of remove; open, close, the two halves of `artosyn_op_enter`, the exit, the fetch of `dev->ndev`, sleeping and waking |
| `SdioTx` | a bound device: network stack, writers, worker, interrupt, chip | the two queues, `inflight`, the credit accumulators and `unacked_bytes` are the code's; `host` and `pc` say who holds the host claim and where it is; `hand`, `batch` and `used` are the locals of `send_data` and `send_cmd` | one per access of `start_xmit`, `net_close`, `artosyn_do_write`, `send_data`, `send_cmd`; the events of the interrupt; the chip's grants and 0xEE reports |
| `TxPipe` | what a transmit path promises: a lossy pipe in order, nothing twice | `queue`, `delivered` | accept, drop one, transfer a batch that may fail, purge the youngest |
| `SdioCmdRx` | commands from the chip to the readers | `cmd_rxq`, `cmd_readers`; a frame is a number with the parts already read; `woken` holds the entries of `cmd_wq` woken since their thread registered | fetch, the measured drop of the oldest, queue, wake; read with its wait loop, dequeue and short or failed copies; poll with the handler it runs |
| `SdioRx` | the IP stream from the chip to `netif_rx` | runs with their payload as symbols `<<frame, byte>>`; `hdr_carry`, `partial` (`partial_skb`), `left` (`partial_skb_left`) | fetch with run recovery, dispatch, and one action per branch of `artosyn_rx_ip_stream` |
| `SdioMailbox` | one mailbox channel | `mailbox_msg`, `mailbox_valid` and, for each side, the accesses still to be made, in any order | latch, load, clear, return |
| `CardLink` | the card from its ROM loader to sdio0: upload, jump, second identity, addresses | `card` and `bound` are the two sides, `segment` and `off` the upload's position, `rom` the frames taken, `ip_addr` the code's | insert, remove, probe, one frame of `sdio_rom_send`, its failure, the notifier's two events |
| `MCSdio*` | instances for TLC | | |
| `SdioGateProofs`, `SdioTxProofs`, `SdioRxProofs`, `SdioCmdRxProofs` | theorems and their lemmas | | |

The definitions marked as mutants in comments are the code with one plausible
mistake. No specification uses them; PROJECT.json names, for each property, the
one that breaks it.

How the parts meet. The gate is checked by itself, with an operation reduced to
what it uses: the function from the gate on, the net_device from the fetch of
`dev->ndev` on, and a sleep in between. The other modules take its result for
granted and model a device that stays bound. `SdioTx` and `SdioCmdRx` share
`cmd_wq`: a sent command wakes readers too, which `SdioCmdRx` has as `WriteCmd`
and `SendCmd`, and `SdioTx` has the handler run by a `poll()` as an `IrqEnter`.
`SdioTx` is composed with `TxPipe` twice, by the two instances `DataPipe` and
`CmdPipe`, whose mappings are written out at the end of the module.

Choices that are not line by line, and why they lose nothing:

* `QuiesceDrain` waits for `active_ops = 0`. The code waits on a completion with
  a timeout and reads the counter again in any case, so the completion decides
  only how soon the step happens.
* `wait_event_interruptible` is a register step, a look at the condition and a
  sleep. In `SdioTx` the look and the sleep are one step: a waiter that has
  registered is woken by any later `wake_up`, which is the same as sleeping
  after it and looking again.
* In `SdioRx` the chip queues runs only while the handler is out and the
  interface changes only while the handler is between two runs. `Fetch` alone
  looks at what the chip has queued and `Dispatch` alone at the flag, so moving
  either step to just before that look changes no other step.
* Lengths are bytes in `SdioTx`, where the fit test, the block round-up and the
  staging buffer decide; frames are symbols in `SdioRx`, where cutting decides.
* In `SdioMailbox` the accesses of one side to two plain variables have no
  order, so each side has a set of accesses still to be made.

### The other drivers

| module | what it models | how its state corresponds to the code |
|---|---|---|
| `MmzHeap` | one zone of `ar_osal.c` and the processes that use it: allocation, free, mmap, fork, munmap, the registry of user mappings and its counts | `mmb_list` in order, `g_user_maps` with its references, `vmas` as the kernel holds them |
| `MmzZones` | the list of zones: the `mmz=` parameter, the device tree, the default; lookup by address; kernel mappings | `g_zone_list`, `map_kref` of each block, and of each mapping another module holds the page it was asked for |
| `VideoPool` | `ar_vb.c` on a zone of `MmzHeap` (extended): pools, blocks, handles | `g_pools` with the grants of each block |
| `MediaIrq` | `ar_mpp_drv.c`: engines, lines with their depth of masking, rings of events, the handler against register, free, wait and close | `engines`, `line`, `depth`, `fds` with their rings, `handler` between its two steps |
| `UmapShuttle`, `SysctlArbiter`, `MppServices` | the messages of `ar_mpp_proc_ctrl.c`; the services of `ar_sysctl.c`; the stamps of `ar_sys.c`, and the three side by side | the structures of each, and what each caller holds after it dropped a lock |
| `BufCache` | `ml_dmabuf_map.h`: the cache of mappings of an open file, with the calls of `ar_scaler.c` and `ml_dmablit.c` that resolve several buffers through it | `cache` in order with direction and age, what a call resolved so far |
| `ScalerEngine` | `ar_scaler.c`: a call under the lock, the engine, its interrupt, the timeout's reset, suspend, resume, probe, remove | `sc_at` is the step of the call, `regs` the registers that decide, `done` the completion |
| `ScalerJob` | what the checks of an operation admit and what its descriptor makes the engine touch | an operation with its segments; fields cut to the number of values they have in the descriptor |
| `DmaBlit` | `ml_dmablit.c`: a batch from submission to its end, the callback, terminate and synchronize | `slot` is the completion on the caller's stack, `tx` what each channel has, `turn` for the rotation |
| `CaptureNode` | `ar-cvisp.c`: vb2 queue, frame tick, ring, start and stop, probe and remove | `buffer_list`, `held`, `armed`, `next` are the code's; `vb2` is the core's |
| `CameraChain` | STREAMON down to the sensor and back: `ar-cvisp.c`, `ar-vif.c`, `ar-csi2.c`, `nt99235.c` | `up_at` is the step of the call; clocks, references and streaming flags of each driver |
| `SensorControl` | `nt99235.c` by itself: modes, formats, controls, module parameters, exposure commits, faults | `chip` holds the registers with their group hold, `pc` where each caller is |
| `IspFrame` | `ar-isp-main.c`, `ar-isp-tables.c`: the double buffers of statistics and of the tone page | indices and descriptors of the code, `partial` and `feeding` say which halves are being written |
| `IspStages` | the order of replayed and derived writes, with parameters stored meanwhile | what each bank, descriptor and page was last written from |
| `IspGates` | `vendor-tables/ar-isp-gates.h` in full, the veto that applies it, the report that judges it; the file through which a page is fed | one gate register as a set of bits; the feeders' positions |
| `SoftFloat`, `GainLadder`, `IspBanks`, `IspPages` | the arithmetic from the tuning file to the registers: rounding, band walks, packing, curves | operators; `latch` is what is derived |
| `VoScanout` | `artosyn_vo.c` under the atomic helpers: pipe, planes, addresses, lock bracket, vsync, flip event | `shadow` and `scanned` registers against `cur`, the state that was committed |
| `ClockUnit` | `clk-ar9311-cgu.c`: the CPU clock with two banks and a mirror, the table of 48 leaves, leaves in one register, the pixel PLL | `cpu`, `crg`, `leaf` and `pll` are registers; `cpu_op` and `snap` operations under way |
| `QspiTransfer` | `spi-ar9301.c` against an engine with two FIFOs | the FIFOs, the engine's progress, what the caller's buffer has |
| `BoardIo` | `artosyn_gpio.c`, `_adc.c`, `_protemp.c`, `_pwm.c` | registers and their shadows; the converters' result registers |
| `MCDevices`, `MCPeripherals` | instances of the above for TLC | the first state picks the driver that moves |
| `EngineProofs` (copies, scaler, mapping cache, heap and pools), `CameraProofs` (chain, sensor, double buffers, capture node, display), `DeviceProofs` (interrupts, scaler jobs, zones, services) | theorems and their lemmas | `SequenceFacts` has the lemmas on taking an element out of a sequence that several of them cite |

These drivers share no state that a property here is about, so one run holds
many of them: the state space is the sum of theirs, not the product, and each
property is asked of the driver that moves. Where drivers do share state they
are in one module: pools and heap, the four drivers of the camera chain, the two
users of the mapping cache. `MCDevices` and `MCPeripherals` extend the modules that
theorems are about, so that run and theorem speak of the same definition, and
instantiate the others.

What surrounds a driver is part of its module as far as the code relies on it,
and marked external in the map: the vb2 core, the atomic helpers, the clock
framework's locks, dmaengine's callback, the kernel's calls of a `vm_ops`.

**What the instances take for granted.** Each is a named constant, or a guard
with a comment. Where the code itself does not keep it, the other value of the
constant shows what happens (the disagreements, below).

* `SdioMailbox`: one thread calls `MSG_GET` (`OneGetter`); the ioctl takes no lock, so
  two could load the same message.
* `MmzHeap`: a process frees and unmaps only its own blocks (`Owned`).
* `MediaIrq`: one thread for each descriptor (`OneEach`); a client enables its line once for
  each event and registers again only with no event pending.
* `CaptureNode`: a tick ends before a STREAMOFF that overlaps it (`PromptTick`).
* `IspFrame`: the block is configured before it runs (`Overlap = FALSE`).
* `CameraChain`: no driver is unbound while the input is up (`Unplug = FALSE`),
  frames are counted by the interrupt (`Polling = FALSE`).
* `VoScanout`: the vsync interrupt is prompt, a blanked plane does not flip, a
  plane keeps its bank (`PromptIrq`, `BlankFlips`, `BankSwaps`).
* `ScalerEngine`: not bound again under open files (`Rebind = FALSE`).
* `ClockUnit`: the leaf table is looked at with the pixel PLL at its boot rate;
  the PLL's own ramp is checked in small numbers.
* `SensorControl`: exposure commits do not overlap, the format is not changed
  while streaming, a probe does not fail after a bring-up (`Overlapping`,
  `LiveFormat`, `LateFail`); the parent stops the stream before a remove.
* `CardLink`: one address at a time (`Secondary = FALSE`), a well-formed image,
  a host that notices each removal.
* `QspiTransfer`: no word arrives after its transfer gave up (`Late = FALSE`),
  the engine stops its clock at a full or empty FIFO.
* `BoardIo`: each line has one client, pins keep their voltage, the temperature
  code moves at most twice in a burst, probes are sequential.
* `UmapShuttle`: one thread in MSG, no CLOSE while an ioctl has the entry
  (`CloseInFlight = FALSE`).
* `MmzZones`: a module unmaps before it leaves; `anony` has its default.
* `IspStages`: `tables` is set at load, one debugfs file is written at a time.
* `IspGates`: nothing else writes a gate register between two vetoes, which is
  why one register can be looked at by itself.

## Runs

| run | instance | what it shows |
|---|---|---|
| `gate` | 3 descriptors, every error path of probe | operations keep the function and the net_device they use, on all paths but the failure of `register_netdev`; the interrupt is released before what it uses; the context is freed with its last reference; every teardown ends |
| `gate_register_error` | the same | violated: the net_device is freed under an operation when `register_netdev` fails |
| `tx_data` | 3 packets (one not plain IPv4), grants of 1 and 8 blocks, cap 2, ifdown, failing writes | `inflight` is exact at every step, no grant is overspent, the data path is a `TxPipe` |
| `tx_cmd` | 2 writers, 4 commands (one too long for `tx_buf`), grants of 1 and 255 blocks | a sleeping writer has a wake-up coming, the command path is a `TxPipe` |
| `tx_drains` | 3 packets that overflow `tx_buf`, cap 1, a window smaller than a packet | queued packets leave although the window closes after each; a stopped network queue is started again |
| `tx_overspend` | packets of 40000 bytes, grants of 255 blocks | violated: one grant is spent more than once |
| `tx_writer_forgotten` | a writer and ifdown | violated: ifdown empties `cmd_txq` and wakes nobody |
| `cmdrx` | 1 reader, 4 frames of 2 reads each, limits 1 and 2 | bounded backlog, reads that go on where they stopped, a blocked thread returns |
| `rx_stream` | 4 frames in runs of 1 and 4 bytes, merged reads, unknown types, losses, ifdown | without a loss the stream is cut exactly; what a loss costs is bounded |
| `devices` | 17 drivers, next table; 900 823 states | 16 properties, next table |
| `peripherals` | 10 parts, table after that; 1 768 711 states | 7 properties |
| `isp_page_overwritten` | the ISP configured anew while it runs | violated: the half of the tone page that the descriptor names is written |

In `devices`:

| driver | instance | property: what it says |
|---|---|---|
| heap and pools | 4 pages, blocks of 0 to 2 pages, alignments 0 to 3, 1 process, 2 pools of 2 blocks, failing registrations | `HeapSound`: the memory of two handles, and of two pools, never overlaps; a request for which there is a gap is met; a count pins what is still mapped |
| interrupt forwarder | 1 line, 2 slots, 2 descriptors with a thread each, rings of 2, masking depth 2 | `InterruptsForwarded`: a handler never queues to a descriptor that is gone; a line is disabled once for each event on its way and each enable the client owes, so no event is lost, made up, or leaves masked a line that nobody will enable |
| mapping cache | 3 entries, 4 buffers | `EnginePinned`: what the engine uses is mapped, in a direction that serves, whatever later lookups of the call evicted |
| scaler | 2 threads, single and batch operations | `OwnOpRan`: success means its own operation ran; `EngineQuiet`: nothing of a call outlives it, and no register is touched without clock or memory |
| DMA copies | 2 callers, 3 channels | `BlitsIsolated`: no callback writes a completion that is gone, success means the bytes moved, channels are left clean and take turns |
| capture node | 4 buffers, depth 2, ring of 2 | `BuffersKept`: no buffer is lost, had twice or overtaken, and none stays with the driver after a stop or a failed start |
| ISP double buffers | 5 flips | `StatsCoherent`: an accepted reading is whole and of one frame; `FetchedHalfStable`: the fetched half is not written |
| camera chain | each step may fail | `ChainBalanced`: up or down as a whole; `ReadsAlive`: no register access without clock and power |
| display | 2 buffers, 2 formats | `ScanoutTrue`: between commits the controller scans out exactly while the pipe is on, its registers unlocked; a plane programmed since the enable is on screen, and a bank that emits is that of a plane still on; a flip event comes after the latch |
| clocks | the real parents and dividers of the CPU, 7 registers of the real leaf table, with a camera and without; a small PLL | `ClocksSteady`: the CPU's clock always runs, at the old rate before the flip and at the new one after, and no parent and divider give a closer one; no leaf undoes another in its register; the table is sound; the camera's leaves run at the vendor's rates; a rate that can be had exactly is; the PLL moves in small steps inside its band |
| sensor | 4 modes, 3 boards, 3 calls, 1 failing write | `SensorTrue`: the sensor exposes with a pair that was set, one that fits the mode, and stays powered and held only while it should; every offered size can be set |
| firmware and addresses | blocks of 8 and frames of at most 14, 3 images, 2 faults, 2 insertions, 2 addresses | `CardBoots`: a card boots with the whole of one upload; frames have a wire length the bus takes; headers are rebuilt with the address the interface has |
| small controllers | FIFOs of 2 words and 3 transfers; lines 22, 23, 44 beside 0 and 43 of the bootloader; 2 channels, 2 readers; codes 254 to 258 in bursts of 8; 150 MHz pulses | `ControllersTrue`: a transfer that succeeds moved its own bytes; a line drives what its client asked; a reading is of its own channel; a burst's code was there; a pulse is what `get_state` reports |

In `peripherals`:

| part | instance | property: what it says |
|---|---|---|
| mailbox | 3 messages, 1 getter, failing copies | `ReturnedOnce`: no message is returned twice or after a newer one |
| ISP stages | 2 ladders, 2 switches, 2 tone pages, 2 stores, any buffer and the file missing | `TablesHonoured`: the driver's own oracle agrees after every configure and arm, no descriptor is left at the vendor's memory, a page holds the selection recorded for it |
| ISP gates, fed page | every gate register; files of size 0, 131072 and 1048576; 2 vetoes from 4 boot words. 2 feeders, pages of 2 pieces, writes of 1 to 3 | `TablesHonoured`: a veto settles and keeps what no gate owns, one that only counts finds what the report finds; a page fed from start to end is whole |
| ISP arithmetic | significands of 6 bits, all pairs of them; 2 ladders; 8 widths, 7 strengths; curves with leaps and falls | `GainsBlended`: every operation rounds once, a gain inside a band gets its record untouched, a blend lies between its ends. `BanksBuilt`: no bit has two sources, no field spills, curves join |
| process messages, services, time | 2 entries, 2 threads, 4 writes; 3 names, 3 descriptors, 2 priorities; words that wrap at 32, 7 calls | `ServicesHonest`: what was written last is with the daemon, on its way or pending, and reported once; the active count is exact and owners are open; stamps never decrease |
| zones | 8 pages, 4 parameters, 2 device trees, 2 mappings, of which a block counts 2 at most (`MaxKref`) | `MapsBalanced`: a page mapped by address stays in one block, mapped once and counted, and nothing outlives the module |
| scaler jobs | fields of 4 to 64 values, 3 segments, sides with dimensions past their fields | `JobsTrue`: what the engine touches lies in the buffers named, ratios carry their sign, the clock follows the last frequency |

**Why these bounds are enough to show what they show.** `gate` needs two threads
for the race of one inside the driver and one entering it while teardown drains;
the third lets the descriptors of an earlier device overlap with both. In the
transmit runs one packet fits a block, one fits the grant only alone and one
never fits the small grant, so that each branch of the fit test is taken; a cap
of 1 or 2 is reached with 3 packets, and 255 blocks of grant against 64 KiB of
`tx_buf` is the real ratio. `cmdrx` has limits of 1 and 2 in place of 64 and
1024: the code compares the length with the limit and does nothing else with it,
and 4 frames fill the larger one twice. In `rx_stream` a header of 3 bytes has
the two interior cut positions a header can have for this code (before and after
the length is known), runs of one byte cut everywhere, runs of 4 hold the end of
one frame and the start of the next, and two payload bytes mimic the marker with
and without a plausible length behind it.

In `devices`, 4 pages hold two blocks with a gap of each size between and around
them, and an alignment larger than a block rounds past the next one. A cache of
3 entries with 4 buffers evicts in the middle of a call. Three DMA channels tell
"the next one" from "not the last one"; two cannot. Four buffers are one more
than the driver holds at depth 2, so the tick finds the list empty and full.
Five flips let a reader that sleeps through a whole turn of the double buffer
come back to the half it left. Two callers of the scaler or of a batch are the
one in the call and the one that queues on its lock, which is all that state
tells apart (the proofs lift the number). CPU and leaf clocks have their real
rates, parents and dividers; the frames of an upload are the real four kinds
with lengths just below, at and past each boundary. The FIFO of 2 words stands
for 64: the code compares levels with zero and with the number of words left.
GPIO lines lie on both sides of a bank's edge.

In `peripherals`, small floats keep guard, sticky and tie of the real format:
the products, sums and quotients of 6-bit significands round in each direction,
to even and over a carry, and RoundPack is the same text for every width. Gate
registers do not affect each other, so all of them are covered one by one. The
descriptor's fields are cut as the real ones are, in the same order of widths.

Each loss in `rx_stream` costs at most the frames that start within one
maximum length of it: the half frame parked before the loss is completed with
other bytes, and goes up the stack as one packet with a fresh checksum. That is
what the code does; the property bounds it and does not deny it.

**Fairness.** Every liveness run states it next to its specification:

* `SdioGate`: the teardown thread and a thread inside the driver that is not
  asleep keep running (weak fairness). Nothing is assumed about wake-ups,
  removals or use. `TeardownCompletes` has the premise that operations stop
  being started: `active_ops` is sampled, and a user who enters and leaves the
  gate for ever can be inside at each sample.
* `SdioTx`: driver threads run (weak). The host claim is contended, so the
  worker and the handler get it under strong fairness, as `mmc_claim_host`
  queues its waiters; the handler reads the events it was raised for (strong,
  because the loop may leave and come back). The chip goes on granting and
  reporting, as the comments on credit and 0xEE describe it; without a chip that
  does, no driver could send.
* `SdioCmdRx`: the interrupt is served and threads inside the driver run (weak).
  Nothing is assumed about what the chip sends or users do.

`devices` and `peripherals` state no fairness and check safety only; that a
masked line has somebody to enable it, or that an engine is quiet when the lock
is free, is stated as an invariant instead.

### Where the code and its own text disagree

The four violation runs are the findings of PROJECT.json: the net_device freed
under an operation when `register_netdev` fails (`artosyn_sdio.c:2045`), the
grant spent again after a flush in the middle of a batch (`:1165`), the writer
nobody wakes at ifdown (`:1458`), and the page written by a configure while the
block fetches it (`ar-isp-tables.c:1487`). The passing properties are stated so
that they hold beside these: `OpResourcesBehindGate` excepts exactly the three
phases of that path, `tx_data` takes grants that `tx_buf` can hold, `tx_cmd`
leaves the interface up, and the ISP of `devices` is configured before it runs.

Others were met on the way. Those with a constant's name are reproduced by
giving that constant its other value; the rest were seen while the definition
was written, and the model has the behaviour unless its module says otherwise.

*SDIO.* With two readers the rest of a short read wakes nobody, so
`ReaderNotForgotten` of `SdioCmdRx` holds for one reader only, and a reader that
loses the race for a frame gets `-EIO`. `poll()` runs the handler only when
nothing at all is ready, so a pending `EPOLLOUT` keeps it from replacing a missing
interrupt. A mailbox message latched between the load and the clear of `MSG_GET`
is wiped; `MSG_POST` reports success when its second channel succeeds after the
first failed (1789-1795). An old 0xEE report reopens the window. The stop of the
network queue can come after the last wake-up. A desync that ends in a parked
frame is not counted. A whole segment of 489 to 499 bytes goes out as 513 to 523
bytes, past the rule of 395-399. Deleting one of two addresses clears `ip_addr`
(`Secondary`).

*Memory.* The comment that a mapped block is never freed (`ar_osal.c:535-538`)
does not survive a fork, or a registration that fails: `MappedIsPinned` of
`MmzHeap`. Overlapping zones in `mmz=` alias pages, and an unmap by address then
hits the other zone's block. `hil_mmb_free` ignores `map_kref`. In `ar_vb.c`
`VB_DESTPL` frees a pool whatever was granted from it, `VB_RLSBLK` asks no owner,
and the self-test forgets its block.

*Engines.* `ar_scaler.c` sets `dead = false` in a new probe (1155), which revives
descriptors that the gate of 1276-1280 was to stop (`Rebind`). More than 8
channels give a burst of 0, a dimension of 2^31 or a ratio of 2^20 outgrows the
conversion of 311-326, a frequency of 0 is not programmed again after a
reset, and the ioctls on physical addresses skip the bounds. `ml_dmablit.c`
promises a rotation of channels (165-169) that failing preparations undo.

*MPP.* `REGISTER` publishes its slot before `request_irq`; two waiters on one
descriptor lose a wake-up. In `ar_mpp_proc_ctrl.c` a message is used after the
lock was dropped (`CloseInFlight`), two getters deliver a write twice, a failing
copy blanks or loses a pending message, a creation whose handle cannot be copied
leaves its entry, and a wait whose condition is `false` ignores wake-ups. In
`ar_sysctl.c` registering again changes the owner, and the state stays at suspended
after the last service left. In `ar_sys.c` stamps stay frozen after a sync to a
smaller base, and for good once 64 bits wrap.

*Camera.* A tick that overlaps STREAMOFF keeps a buffer that vb2 had back
(`PromptTick`; `ar-cvisp.c:792`). A remove of `ar-vif.c` while the input is up
leaves clock and interrupt on, and `ar-csi2.c:630` refuses to stop without its
sensor (`Unplug`). In `nt99235.c` the error path of probe powers off a second time
what its bring-up had unwound (1500-1502 against 1272-1277; `LateFail`); two
commits share the group hold without a lock (817-820; `Overlapping`); the active
format may change while streaming (`LiveFormat`); `apply_live` sets controls
without the handler's lock (870-873); a start commits the module parameters, not
the controls; a failing gain write releases the hold with half of the pair; the
exposure range stays that of the mode at probe; the 4-lane 1080p mode is listed
but cannot be set; and a parameter written between the registration and
`nt99235_bound` waits for the next start.

*ISP.* Configured while it runs (`Overlap`), the statistics of an accepted
reading may be of two frames (`ar-isp-main.c:1072-1078`). With `tables=0` the
output arm still points descriptors at the driver's buffers (567-600). The de3d
words of `ar-isp-de3d.h:27-30` are not those of `ar-isp-tables.c:681-695`; its
geometry underflows for widths below 128 that are no multiple of 16. A -1 stored
to a gain between check and use selects the last band. `ar_isp_f32_q16` clamps at
65536, its comment at 32768. Two gates own the bypass bit of 0x1800 under
different flags, so a veto never settles there; the bits of ltm at 0x2800, marked
as unknown and not to be written, are written through another gate's flag. The
page file publishes holes: its fill is the highest position written.

*Display.* The addresses of a frame are latched as its comments say only while
the interrupt is prompt (501-508; `PromptIrq`), a blanked plane does not flip
(`BlankFlips`) and a plane keeps its bank (`BankSwaps`).

*Clocks.* `cgu_sensor_mclk0` has gate, mux and divider, so the probe gives it
operations without a parent to set, although comments say that its mux can be
(268-297): setting 24 MHz changes nothing, and only the camera defaults select
the oscillator. A request of 0 for the CPU reaches a branch that cannot be taken.
A rate of 0 for the encoder matches `audio_pll_clk`, whose rate is not known and
reads 0. The gate-and-mux operations serve no leaf.

*Small controllers.* A word that arrives after a transfer gave up is reported as
the next one's (`Late`). The direction shadow of a GPIO bank starts as all inputs,
so the first line that is made an output turns around the ones that the bootloader
drove, which `artosyn_gpio.c:148-156` means to preserve. Sample counts of 4 to 7
drop no outlier, and the underflow that a comment of `artosyn_protemp.c` puts
below 260 is below 259. A register that `dw_mci-artosyn.c:57` says is not written
is set by the converters' probes.

## Proofs

`tlapm` checks the eight proof modules; they hold for every value of the
constants that satisfies the named assumptions next to their declarations, and
the hypothesis of the theorem where it has one.

| theorem | says | assumptions |
|---|---|---|
| `GateTypeOK`, `ContextIsPinned` | types; `refs` counts exactly probe and the open descriptors, and the context lives as long as `refs` is not zero | `Fd` is finite |
| `IrqIsSafe` | the interrupt is claimed only while the net_device and the function exist | the same |
| `OpsKeepTheirResources` | `OpResourcesBehindGate` | the same |
| `InflightIsExact` | `inflight` counts exactly the packets in the driver, and no more than the cap are queued | lengths, limits |
| `CreditIsKept` | `WithinCredit` | also that no grant exceeds `tx_buf`, without which `tx_overspend` refutes it |
| `NoWriterForgotten` | `WriterNotForgotten`, for any number of writers | the interface stays up (`~IfDown`), without which `tx_writer_forgotten` refutes it |
| `DataIsAPipe`, `CmdIsAPipe` | `DataInOrder`, `CmdInOrder`: each of the two paths implements `TxPipe` | lengths, limits |
| `NoFrameOverwritten` | `OneParked` | none |
| `ReceiveTypes`, `StreamIsConserved` | types; `StreamConserved`, for any frames, any split into runs and any payload that looks like a header | frames are longer than a header and at most `MaxSize`, a length field claims what it says (`ClaimAssumption`) |
| `FramesResume` | `Resynchronises`, whatever is lost and whatever was parked then | the same |
| `MessagesAreReturnedOnce` | `ReturnedOnce`, for any number of messages, with copies that fail or not | one thread in `MSG_GET` (`OneGetter`) |
| `CmdRxTypes`, `BacklogIsBounded` | types; the backlog bound for any number of readers | `Reader` is finite, the limits are ordered |
| `ReadsAreInOrder` | `ReadsInOrder`, for any frames, parts and limits | one reader (`OneReader`), as the property has it |
| `BlitsAreIsolated` | `BlitsIsolated`, for any number of callers and of channels | at least one channel |
| `OwnOpIsRun`, `EngineIsQuiet` | `OwnOpRan`, `EngineQuiet`, for any number of threads, with timeouts, resets, suspend and remove | not bound again under open files (`~Rebind`) |
| `RunsArePinned` | `EnginePinned`, for any number of clients and of buffers | the cache holds more than a batch can look up (`CacheHoldsBatch`), as the `static_assert` of `ar_scaler.c` has it |
| `JobsStayInside` | `JobsInside`, `DividerFollows`: the parts of `JobsTrue` on addresses and clock, for any dimensions and widths of fields | a full batch has room in its block (`JobAssumption`: 255 descriptors of 0x100 bytes in 0xff00) |
| `JobsAreTrue` | `JobsTrue`: also the part on ratios | also that a dimension is below 2^31 and less than 2^20 times the one it is scaled to (`RatiosFit`), which the driver does not check |
| `InterruptsAreForwarded` | `InterruptsForwarded`, for any number of lines, slots and descriptors | a ring has a place for each line (`RingHoldsTable`: `MPP_RING_SZ` is 64, `MAX_ENGINES` 32), one thread for each descriptor (`OneEach`) |
| `BuffersAreKept` | `BuffersKept`, for any number of buffers, depth and ring | a tick ends before a STREAMOFF it overlaps (`PromptTick`) |
| `ChainIsBalanced`, `ReadsAreAlive` | `ChainBalanced`, `ReadsAlive`, whichever steps fail | no driver is unbound while the input is up (`~Unplug`) |
| `HeapIsSound` | `HeapSound`, for a zone of any size, any processes, pools and requests, with forks and whichever registrations fail | page counts are naturals, names tell processes, pools and the self-test apart (`HeapAssumption`, `PoolAssumption`, `NameAssumption`) |
| `MapsAreBalanced` | `MapsBalanced`, for any parameter, device tree, default, names and number of mappings; as the run says it, where no two zones were made of the same pages | pages are naturals, a zone has only pages of memory, and there is memory for the default (`ZoneAssumption`) |
| `ServicesAreHonest` | `ServicesHonest`, for any number of process files, threads and writes, any services, priorities and descriptors, any bases, clock steps and word size | handles are not zero, service names are finite, a priority exists (`UmapAssumption`, `ArbiterAssumption`, `TimeAssumption`); one thread in MSG (`OneListener`), no CLOSE while an ioctl has the entry (`~CloseInFlight`) |
| `ScanoutIsTrue` | `ScanoutTrue`, for any buffers and formats | the interrupt is prompt, no format is set on a dark pipe, no commit swaps the planes of a bank (`PromptIrq`, `~BlankFlips`, `~BankSwaps`) |
| `SensorIsTrue` | `SensorTrue`, for any modes, boards and values, and any number of failed writes | one commit at a time, the format set only while the stream is stopped, no probe that fails after its bring-up (`~Overlapping`, `~LiveFormat`, `~LateFail`); the table, the boards and the values are as `SensorAssumption` has them |
| `StatsAreCoherent`, `FetchedHalfIsStable` | `StatsCoherent`, `FetchedHalfStable`, for any number of flips | configured before it runs (`~Overlap`), without which `isp_page_overwritten` refutes the second |

The inductive invariants of the SDIO modules stand at the end of each
component's module, those of the receive stream, of the mailbox and of the other
drivers in the proof modules.

* **Gate.** `OpResourcesBehindGate` alone does not survive a step: nothing in it
  says that no operation is inside when teardown frees things. `Inv` adds what
  each phase knows: `Counted` (`active_ops` is the number of threads between
  increment and decrement), `Teared` (from the end of the drain on, `removed` is
  set and nobody is past the gate) and `Held` (which resources exist in which
  phase). The step that matters is `QuiesceDrain`: with `Counted`,
  `active_ops = 0` empties the gate, and since `removed` was set before, a
  thread that enters later bails out. Counting lemmas (`CountUp`, `CountDown`,
  `CountSame`, `CountZero`) carry the cardinality arguments.
* **In-flight count.** `InflightInv` adds that a packet counted below the cap
  keeps that admission until it is queued, whatever the worker takes out
  meanwhile; `Queues` gives the types of what moves.
* **Credit.** `Budget` says that an unconsumed grant is unspent, that packing
  happens only with credit, and that what is packed, padding included, fits the
  grant. With grants of at most `tx_buf` the fit test then excludes the flush in
  the middle of a batch (`NoOverflow`), the one step that breaks the property.
* **Wake-ups.** `WriterNotForgotten` holds as long as somebody owes the wake-up:
  `Promised` is a command in the queue, or a drain with one in its hand or in the
  aggregate. `send_cmd` ends that only in a step that wakes (`WokenUp`), every
  other step keeps it and lets nobody fall asleep in front of an empty queue
  (`PromiseKept`). `Packed` says that `used` is zero exactly when the aggregate is
  empty, which decides whether a drain ends in a flush, and `StaysUp` that the
  purge of ifdown, which wakes nobody, never comes.
* **Pipes.** The refinement mapping (`DataQueue`, `CmdQueue`) puts what is in the
  aggregate and in the hand in front of the queue, so that packing and putting
  back are stutters of `TxPipe`. `Packed` says that the aggregate and the hand are
  of the function that packs, and empty elsewhere, so that a flush transfers or
  loses a batch of one pipe only, and `Wired` types what was delivered. Each
  action of `SdioTx` then has its step of `TxPipe`, or a stutter.
* **Parking.** `Parking` says which of the two parking places is empty at each
  stage of `artosyn_rx_ip_stream`.
* **Stream.** The stream is the join of the frames, and frame f begins at byte
  `Cut(f)` of it. `Windows` says that what is queued, read and still to be walked
  are windows of the stream, in order and behind the last loss, so a byte is known
  by its place. `Clean` is the case without a loss: the frames out are the stream
  up to a cut, and what is parked and walked begins there (`AtFrame`), so each
  header read is the header of a frame and each end the next cut. `Synced` is the
  case with losses. The walk is in step with the frames (`InStep`), or looks for a
  marker, or has parked a header that is none (`Misled`), or fills a frame that is
  none (`Misread`), and each of these says how many bytes later at most the walk
  looks again. `WalkInStep` is the main lemma: a walk in step stays so over
  every kind of run; `MarkerFound` is how it gets there, since a marker behind the
  last loss can only be the first byte of a frame. `Resynchronises` alone does
  not survive a step: it looks between runs only and says nothing of what is parked.
* **Mailbox.** `Latched` says that a number the handler has still to store is newer
  than whatever a getter has, returned or in its hand, so a number is stored once.
  `Loaded` says of what the getter loaded that it is newer than everything returned
  before, and that it stays in `mailbox_msg`, or gives way to a newer one, until the
  getter stores its cleared byte. So the next load finds zero or something newer,
  whichever of the two stores came first.
* **Backlog.** `Limited` says that, past the test for room, one place is left
  even if every reader puts back the frame in its hand; `Hands` ties the frame in
  the hand to the copy and `Counted` `cmd_readers` to the open descriptors. A
  dequeue moves one frame from the queue to a hand and a short read moves it back,
  so the sum that `BacklogBounded` bounds grows only when the handler queues.
* **Order of reads.** `QueueOrdered` says that the frames of the queue, and the
  one in the hand in front of them, were fetched in that order, and that only the
  first can be read in part; `StreamOrdered` that the reader was given nothing
  newer than what is in the hand or in front of the queue. What the handler drops
  is the front, so a gap opens between frames only. Where a frame that was put
  back is dropped, the reader has its first bytes and never the rest.
* **Blits.** Only one caller is past the lock, but a callback runs whenever it
  likes. `OneDescriptor` says that at most one channel has a descriptor and it is
  the current batch's, `SlotHeld` that a callback under way has its completion
  still on a stack, `MovedBefore` that a completion is set only after the bytes
  moved, and `Rotation`, with how long ago each channel was enabled, that the
  cursor is at the one longest idle. `CursorGoesRound` is the arithmetic of the modulus.
* **Scaler.** `Handshake` is the argument: with `OneAnswer`, the answer to the
  operation in the engine is in exactly one place, latched in the status, with
  the handler, or counted in the completion; and between operations it is nowhere
  (`Clean`), since a timeout resets the engine and waits for the handler before
  the lock is dropped. `Lifetime` ties registers and memory to probe and remove,
  `Fetched` the list that a batch runs from to the caller.
* **Jobs.** The bounds are checked on whole pictures, the engine walks a rectangle
  with what its fields keep of the numbers. A field keeps a number or makes it smaller
  (`FieldShrinks`), rows, columns, stride and channels alike, so each byte it
  addresses comes before one of the picture that was checked (`ByteInPicture`).
  The induction is short: only the divider needs it, which a reset takes from a
  `frequency` that is zero or the last rate.
* **Cache.** A lookup moves its entry to the newest place. `Recent` says that
  there is an n such that all that the call resolved is among the n newest
  entries and n plus the lookups still to do is at most `2 * BatchMax`. A hit or a
  miss makes n one larger and the rest one shorter; an eviction takes the oldest
  of `Entries`, which are more, so it never reaches the n newest. The property
  itself does not survive a step, for it says nothing of the order of entries.
* **Heap.** `Sound` is the zone: the list is in address order without overlap
  (`Ordered`), and a block is pinned at most once for each registered mapping of it
  (`Pinned`). That the walk finds a gap whenever there is one (`WalkIsComplete`)
  needs no induction: with the first block above a free range the walk has come to a
  gap that is large enough, so it never stops behind that range. Counts of mappings are compared by injections,
  since adding or deleting an entry moves the indices of those behind it
  (`PinAdded`, `PinDropped`). `HandlesApart` does not survive a step: nothing in it
  says that a process cannot free the block of a pool. `Backed` and `TestBacked` do,
  by the name that each block carries: an operation takes out blocks of one name
  only (`Keeps`), so those of the other pools stay. Two pools have blocks of
  different names, so different blocks, so disjoint ones (`PoolsApart`), and an
  address leads back to the one pool around it.
* **Zones.** The balance of one block says nothing of a step that takes another one
  at the same page, so `Placed` and `ZonesApart` say that a page lies in one block
  at most (`OneBlock`), and `Backed` that a held page lies in one at all. Then an
  unmap finds the very block that the mapping was made of, and `RefsCounted` moves by
  one holder. A block is freed or its zone destroyed only at a count of zero, which
  `RefsCounted` turns into no holder (`FreeKeeps`). `Remapped` needs no such premise:
  whatever block an unmap hits, its remap goes with `kvirt`, so also where zones
  alias nothing outlives the module. What a zone has free is a count of the pages of
  its blocks, mapped one to one into its own (`UsedFits`).
* **Services.** A message is the number of a write. `Numbered` orders what was
  received, what is pending and what was written last, and `TakenOut` puts what the
  one listener has in its hand between them, so a number is received once and none
  is passed over (`AllReported`); with two listeners the older of two messages in
  their hands can come last. `InsideLive` keeps an entry that an ioctl found. For the
  arbiter `Shelved` says that a node is in the bucket of its own priority, once: then
  one unlink takes out all of it, and the count moves by the active ones among those
  unlinked. What a walk keeps of a list (`WithoutFacts`) is proved by induction along
  the list. For the time base, the base was read off the same clock, which never
  falls behind it, and a sum can be reduced at any point of it (`RemainderSum`), so
  the wrap of an offset is undone by the wrap of the sum.
* **Interrupts.** `Requested` and `Knows` say what a thread still knows of a slot
  after it dropped `reg_lock`: nobody but the descriptor's own thread can take its
  slot away, so between look-up and `free_irq`, `disable_irq` or `enable_irq` the
  line stays requested for that slot. `Handlers` says that a handler under way has
  the owner of its slot, or that slot's last owner waits for it in `free_irq`; with
  `Shut` and `Gone` its descriptor is still there. `Single` says that a ring holds
  each line at most once and not one whose handler is about to add it: the line is
  masked meanwhile. So the events are fewer than the lines, by the pigeonhole
  principle there is room (`RoomInRing`), and the handler never drops one.
  `Accounted` is then the property, with at most one event and one handler.
* **Buffers.** `Conserved` says where each buffer is at any moment: the vb2 queue
  is what is done, then what the tick has in its hand, what the block holds from
  the oldest to the newest, and `buffer_list`, each once. A frame tick moves
  buffers through these without changing the whole sequence, which is the reason
  that none is lost or overtaken. `Owned` adds that the states of vb2 agree with
  it, and `Armed` that the block points to the newest of those it holds.
* **Chain.** `Staged` says of each device which step of the call has it on, and
  so what the undo has to turn off; `Held` says the same of the runtime references
  and clocks that a register access needs. Every failing step goes to the label
  that undoes exactly what `Staged` says is on.
* **Sensor.** A commit is six writes, and `LeftOf` says which of them a caller has
  still to make of which pair. `Carried` says what the sensor's held registers have
  of that pair so far, so that the release, the last of the six, makes exactly the
  pair live (`WriteDone`, `WriteSettles`). `ExposureSettled` does not survive a step:
  nothing in it says what a commit under way brings. `Settling` says it: while a
  stream starts or runs, the pair that is live, or will be when the commit ends, fits
  the mode and is what the parameters or the controls say, or a parameter write is
  before its own last commit (`Told`). `Power` ties the commits to a powered sensor,
  and the lock to a bound one; the hold is on only inside a commit, or `stuck`
  (`Holding`). A mode changes only without a stream, so what fits stays fitting.
* **Display.** A commit makes its calls in order, and the invariant says at each
  what the earlier ones have written. `Words` follows START through the two
  writers of the control word, the lock bracket that writes back what it remembers
  and the enable: a bracket may write START on a dark pipe only if this commit
  enables the pipe next. `Emitting` allows a bank to emit for a plane that is on, or
  for one that is `Pending` its disable; two planes share a bank, so it is the order of
  the planes that keeps the disable of one from blanking the other. `Latching` says
  that from the update of the primary on its address registers hold the new buffer,
  so that a frame that starts after the event is armed scans that one out.
* **ISP.** `Phases` says that the descriptor and the index of the page agree once
  the block runs, and that a feed writes the other half; `Flipping` that the half
  named to readers is not the one armed and holds a whole frame, except between
  the two writes of the handler; and `Reading` what a reader may have copied at
  each look: as long as its sequence word is current, both of its halves are the
  one named, so a word that has not moved at the end proves the copy whole.

`SequenceFacts` states once what taking an element out of a sequence does to its
order and its members: `RemoveAt` and `RemoveFirst` are defined with folds or
choices, and the provers are given their values rather than their text. It also
derives induction as a fact about sets of numbers (`NatSets`) from the
well-foundedness of `<` on them. The library's induction theorems take an operator,
which the provers here cannot instantiate; a set they can, and so the join of the
frames, a recursive function, has its values, its lengths and its cuts by proof.

Only model-checked: liveness and fairness, which are beyond the prover; and of
`devices` and `peripherals` every property without a theorem above. The floats, the
packing and the band walks among these are compared with a reference over the values
they can take, and the table of clock leaves is a finite search that TLC settles
outright. The upload of `CardLink` is written with a recursive operator, which the
prover does not take.

## What is not modelled

* Of the SDIO driver: the video packet classifier (its result is discarded),
  statistics and module parameters changed while the driver runs (`UnackedMax` is
  a constant), checksums, `MSG_POST` and the register ioctls (single accesses
  under the claim), the delayed worker (the code never queues it), and what
  memory is reclaimed at remove. The chip is external: it is modelled from how
  the driver reads its registers.
* `ml_mmzheap.c`, which exports blocks as dma-bufs: one call each into the heap,
  without state of its own. Time zone and position in `ar_sys.c` are stored and
  returned as they are.
* The DSI host and the panel: register sequences of one thread, checked against
  nothing but the hardware. The D-PHY's values and the detection in `ar-csi2.c`.
* The MMC glue: when its callbacks run is decided by a controller driver that is
  not in this repository; the same goes for the patches.
* The recorded register and tuning tables, black levels and lens shading as
  values: what is modelled is which record is taken, how it is blended and packed,
  and in which order it is written.
* Scripts, analysis and test tools: no part of the running system.
* The kernel underneath: queues of `sk_buff`, lists and completions are atomic
  under their locks, the MMC core serialises probe and remove, and
  `misc_deregister` excludes `misc_open`. Weak memory order is taken into account
  only in `SdioMailbox`, where the code has plain accesses and no lock.

## Plan

Done: the SDIO driver with its proofs; heap, zones and pools; the two engines and
the cache they share; the MPP devices; the camera from the sensor to the capture
node; the ISP's frames, stages, gates and arithmetic; display, clocks and small
controllers; proofs for the receive stream, the copies, the scaler, its jobs and its cache, the heap
with its zones and the pools, the camera chain, the sensor, the capture node, the ISP's double
buffers, the display, the interrupt forwarder and the services of the media daemon.

Left, in order of weight:

1. Proofs: the controllers of the board (`ControllersTrue`).
2. Liveness of the media drivers: a queued buffer is filled while frames come, a
   flip event arrives while the pipe is on, a batch ends.
3. The DSI host with the panel, and the detection in `ar-csi2.c`.
4. The camera chain, the capture node and the ISP's double buffers in one
   composition, with one frame driving all three.
