# TLA+ models of lspci's topology code and the h1a_ee EEPROM tool

This directory holds TLA+ models of the repository's C sources and the TLC
configurations that check them. It covers two programs:

- `src/lspci.c`: lspci from pciutils. The models cover its tree mode (`-t`)
  and its bus-mapping mode (`-M`).
- `src/unnamed/part_000`: `h1a_ee`, a tool built on the same code. It finds
  Adnacom H1A adapters, brings them to D0, and loads or saves their EEPROM
  through a memory-mapped controller. It can also hot-reset a device whose
  EEPROM is missing or blank.

## 1. The system

### Components, their state and their operations

| Component | Source | State | Operations |
|---|---|---|---|
| Config-space cache | `lspci.c` 112-142; `part_000` 452-552 | per device: `config[]`, `config_cnt`; in h1a_ee also `present[]` and `config_bufsize` | `config_fetch`, `get_conf_byte/word/long`, `check_conf_range` |
| Device registry | `lspci.c` 63-110, 145-195 | list `first_dev` | `scan_device`, `scan_devices` (pushes on the front), `sort_them` using `compare_them` |
| Topology builder | `lspci.c` 1408-1549 | `host_bridge` and the bridge chain, each bridge's `child` list and bus list, each bus's device list | `grow_tree`: list bridges, choose parents, create secondary buses, `insert_dev` every device |
| Tree renderer | `lspci.c` 1551-1654 | `line[256]` | `show_forest`, `show_tree_bridge`, `show_tree_bus`, `show_tree_dev` |
| Bus-mapping prober | `lspci.c` 1669-1740, 1804-1822 | `bus_info[256]`: `exists`, per-bus `bridges` claims (newest first) | `do_map_bus` (probes dev × func, with `func_limit`), `map_bridge` (pushes a claim on the front, clamps `first > last`) |
| Topology validator | `lspci.c` 1742-1802 | `bus_info[].guestbook`, `.via`, each claim's `bug` | `map_bridges` (a root walk per bus that exists and has not been seen), `do_map_bridges` (recursive guarded walk) |
| EEPROM controller protocol | `part_000` 279-421 | the controller's status/control register | `check_for_ready_or_done` (unbounded poll), `eep_data`, `eep_read/write(_16)`, `eep_init` |
| EEPROM file load/save | `part_000` 1516-1763 | the file buffer, `offset`, `four_byte_count` (uint8_t), `rc` | `EepromFileLoad`, `EepromFileSave` |
| Device list and recovery | `part_000` 1195-1470, 1765-1818, 1946-2013 | list `first_adna`, `NumDevices`, PCI power state | `adna_dev_list_init`, `adna_d3_to_d0`, `eep_process`, `adna_populate_parent`, `adna_hotreset`, main's second check |

### How the components interact

- **Tree mode.** `main` runs `scan_devices`, then `sort_them`, then
  `show_forest`. `show_forest` calls `grow_tree`, and the renderer walks the
  structure it builds.
  - The builder reads each device's config header from the cache.
  - It depends on the registry being sorted: `insert_dev` only appends.
  - It depends on child lists being newest first: `insert_dev` takes the
    first child whose range holds the bus.
- **Bus-mapping mode.** `map_the_bus` probes every bus with `do_map_bus`,
  then validates the table with `map_bridges`. The validator sees only what
  the prober left in `bus_info`.
- **h1a_ee.** It runs the registry scan with a filter for Adnacom devices,
  builds its own list, powers devices up, and runs `eep_process` on the
  device the user picked. When the EEPROM is missing or blank, it hot-resets
  the device through its parent, rescans, and runs `eep_process` again.
  `eep_process` calls `EepFile`, which does what `ProcessCommandLine` left
  in `EepOptions`: `-s` saves, `-w` saves to learn the serial number and
  then loads, `-w` with `-n` loads with the number given.

### Where the hard behaviours are

The hazards below are listed in `PROJECT.json` at the line where each bites.

- **Order dependence.**
  - Child lists are newest first, and `insert_dev` takes the first matching
    child.
  - Tail insertion relies on the earlier sort.
  - Validator verdicts depend on the order of root walks.
- **Unsigned arithmetic.**
  - `host_bridge` has primary and subordinate `~0`, so its width is 0.
  - A bridge with `primary > subordinate` wraps to a huge width.
- **Adversarial hardware tables.**
  - Cyclic, duplicate or self-referencing bridge claims, which the validator
    walks recursively.
  - Secondary numbers that collide.
  - Capability lists that loop or run past the 256-byte space.
- **Fixed buffers.** lspci's `config[256]` receives the `-xxxx` read of
  4096 bytes, and the renderer's `line[256]` has no bound.
- **h1a_ee.**
  - Polling with no timeout.
  - 8-bit counters against 32-bit sizes.
  - Verify failures that are not reported.
  - A device number that is stale after hot reset.
  - Dropped status values.

### Properties that make each component correct

- **Registry:** after the sort, the list is in (domain, bus, dev, func) order.
- **Builder and renderer:**
  - On a consistent hierarchy, every device is printed exactly once, under
    the bridge that forwards to its bus.
  - Each bus lists its devices in slot order.
  - The spec adds two more: each bridge's parent is the tightest enclosing
    bridge, and each bus number has a single bus object.
- **Validator:**
  - No bus is walked twice.
  - Entered ranges nest.
  - Every claim gets exactly one verdict: entered, overlap or crossing.
  - The walk terminates on every table.
- **Prober:**
  - Every present function is found.
  - A failure on one device does not end the probe.
  - Clamped ranges are non-empty.
- **Config cache:**
  - After a successful fetch, every requested byte is present, and a failed
    fetch adds or loses nothing (spec §4.1).
  - No byte that is already present is read again (spec §4.1).
  - A read never goes past the buffer.
  - lspci prints and decodes only bytes it read from the device, and its
    capability walk ends.
- **EEPROM load and save:**
  - `-s` saves the EEPROM's image as it is.
  - `-w` without `-n` keeps the device's serial number.
  - On success, every EEPROM word equals the file word at the same index.
  - Every failure is reported.
  - The load ends.
- **Recovery flow:** only the adapter the user chose is written to or reset,
  a blank EEPROM is valid after recovery, and a failure reaches the exit
  status.

## 2. Modules

| Module | Models | State ↔ code |
|---|---|---|
| `DeviceRegistry` | `compare_them`, `scan_devices`, `sort_them` | Operators over a set of device records `[dom, bus, dev, func, cls, ht, pri, sec, sub]` |
| `ShowTree` | `show_forest` and the `show_tree_*` walk | A RECURSIVE operator returning the printed sequence of `[dev, up]`, where `up` is the `br_dev` of the bridge whose bus the device is printed on |
| `GrowTree` (+ `MCGrowTree`) | `main` tree path and `grow_tree` | `pacc` is the hardware; `first_dev` is the registry; `br[1]` is `host_bridge` and `br[2..]` is the chain; `child[b]` is b's child list; `bus` holds every `struct bus` with its owner; `out` is the rendered tree; `pc` is the phase |
| `MapBridges` | `map_bridges` and `do_map_bridges` | `exists`, `bridges`, `guestbook`, `via` and `bug` are the `bus_info` fields; `claim[c]` is a `struct bus_bridge`; `stack` holds the frames of the recursion; `i` is the root loop index |
| `MapBus` (+ `MCMapBus`) | `map_the_bus`, `do_map_bus`, `map_bridge`, and `scan_device` on the probe path | `hw` is the hardware (present functions, header kind and registers, the multi-function bit); `match` is what the `-d` filter accepts; `filter` is the `-s` filter; `pbus`, `pdev`, `pfunc` and `flimit` are the loops and `func_limit`; `exists`, `claim`, `bridges` and `bug` are the `bus_info` table it fills; `phase` is probing, mapped or dead |
| `CacheSpec` | the contract of spec §4.1 | `cached` is the set of cached bytes; `call` and `ok` are the last fetch and its result; `dead` is the fail-fast stop. It is written from the spec and serves only as the abstract side of a refinement |
| `ConfigCache` | h1a_ee's `config_fetch`, `scan_device` (its buffer set-up), `check_conf_range` and `get_conf_*` | `bufsize` and `present` are `config_bufsize` and `present[]`; `call`, `ok` and `req` are the last fetch, its result and the bytes it asked the hardware for; `dead` is `die()` |
| `LspciConfig` | lspci's `scan_device`, `config_fetch`, `show_device`, `show_verbose`'s dispatch, `show_caps` with its capability printers, and `show_hex_dump` for one device | `dev`, `root`, `verbose`, `machine` and `hex` are the device and the command line; `config_cnt` is `d->config_cnt`; `valid` is the cells of `d->config` (or past it) that hold data read from the device; `shown` is the cells `get_conf_*` read; `where` is the capability walk; `pc` is the step of `show_device` |
| `EepromLoad` | h1a_ee's `EepFile`: `EepromFileSave` and, for `-w`, `EepromFileLoad` from the buffer on, with `eep_write`, `eep_read`, `eep_write_16`, `eep_read_16`, `eep_data` and `check_for_ready_or_done` | `mode` is the command (`-w`/`-s`, with or without `-n`); `esize` and `omk` describe the EEPROM's image (its `EepSize` and its serial-number pair); `ssize`, `sbuf` and `saved` are the save's `EepSize`, `g_pBuffer` and the file it writes; `sn` is `EepOptions.SerialNumber`; `size`, `mk` and `isInit` are `FileSize`, the file's first 0x42 0x00 pair and `bIsInit`; `buf` is the load's `g_pBuffer`; `i`, `offset`, `fbc`, `rd` and `rc` are the locals; `script` holds the register accesses left of the `eep_*` call in progress; `eeprom`, `bufreg`, `busy`, `pend` and `wel` are the controller |
| `CommandLine` | h1a_ee's `ProcessCommandLine`, as operators | `Step` is one turn of its loop on one argument word, `Walk` the loop (`RECURSIVE`, stopping at an early return), `ProcessCommandLine` the loop and the checks after it; the result is a record of `EepOptions` and the status |
| `AdnaRecovery` | h1a_ee's `main` after the command line: `adna_pci_process`, the selection loop, `eep_process` (twice), `adna_populate_parent` and `adna_hotreset` | `prom` is each adapter's EEPROM and `loaded` the presence bits its switch latched; `present` is what the OS enumerates; `adna` is `first_adna` (number → address); `seen` is `seen_errors`; `num` is main's `num` and `typed` says whether a line set it; `first`, `second` and `file` are what the two checks and `EepFile` saw; `reset` and `touched` record what the tool did to the hardware; `code` is the exit status; `pc` is main's place |
| `BusMapping` (+ `MCBusMapping`) | `map_the_bus` end to end | `MapBus`'s variables plus the validator fields. The validator's actions come from `V == INSTANCE MapBridges`. A second instance, `Abs`, carries the refinement mapping |

### GrowTree actions

`GrowTree` has one action per statement of `main`'s tree path and per loop
of `grow_tree`:

- `ScanDevs`, `Sort`, `ListBridges`, `AssignParents`, `SecondaryBuses`,
  `InsertDevices` and `Render`.
- Each action computes its loop's effect with operators translated from the
  loop body: `BestFrom`, `SecondaryFrom` and `InsertFrom`/`InsertDev`.
- The program is sequential, so the phases run in a fixed order. What TLC
  explores is every hardware configuration in `Init`.
- The hardware is every set of at most `MaxDevices` devices on the addresses
  `Slots`. Each device is an endpoint or a PCI bridge whose bus-number
  registers are any values in `0..MaxBus`. Nothing ties a bridge's registers
  to its position, since lspci reads them from hardware.

### MapBridges state

- **Init is every probe table `do_map_bus` can leave.**
  - Up to `MaxClaims` claims, in probe order: buses in increasing order,
    each bus's list newest first.
  - Every claim has `first <= last`, because `map_bridge` has clamped it.
  - `exists` is any function that is true on every bus with a claim.
- **Recursion.** The C recursion is an explicit stack. One step handles one
  claim of the frame on top:
  - `CheckOverlap`, `CheckCrossing` or `Descend`;
  - `Return` when the frame's list is exhausted;
  - `MapRoot` and `MapSkip` are the root loop of `map_bridges`.
- **History.** `visits` is a history variable that counts calls per bus.

### MapBus and BusMapping

- **MapBus actions.** `MapBus` has one action per way a probe of one address
  can end:
  - `ProbeSkip`: filtered out, or vendor 0 or 0xffff.
  - `ProbeFiltered`: `scan_device` returns NULL.
  - `ProbeDie`: the header read fails and `die()` ends the program.
  - `ProbeEndpoint`.
  - `ProbeBridge`: `map_bridge`.
  - `NextDev`, `NextBus` and `EndProbe` advance the loops. `EndProbe`
    leads to `map_bridges`.
- **Uninitialised `b->bug`.** `map_bridge` never sets `b->bug`. The value
  the heap held is chosen in `Init` (`heap`), one byte class per
  allocation, from `HeapBytes`.
- **Refinement.** `BusMapping` composes the prober with the validator. It
  shows that the composition implements `MapBridges`, run on the table a
  correct probe of the hardware gives.
  - The reference `ExpectedClaims` is written from the spec (§4.2, §4.4),
    not from the code. It holds one claim per wanted bridge in address
    order, with inverted ranges clamped.
  - An auxiliary variable `expected` holds that table from `Init` on.
  - While the probe runs, the mapping presents this table to `Abs`. After
    the probe it presents the real one. Any difference is a step
    `MapBridges` does not allow.

### ConfigCache, CacheSpec and LspciConfig

- **Two caches.** The spec's cache, with a presence mask and a buffer that
  doubles, is h1a_ee's `config_fetch` (`part_000` 452-477). lspci's own
  `config_fetch` (`lspci.c` 112-118) has no mask. It takes a range ending
  below `config_cnt` as cached, reads any other range into the fixed
  `config[256]`, and `get_conf_*` reads the buffer with no check.
- **ConfigCache is an open component.** In h1a_ee, `config_fetch` is only
  called from `show_hex_dump`, which runs only when `opt_hex` is set, and
  nothing sets it. The module is therefore driven by every sequence of
  fetches and reads of ranges ending at or below `MaxEnd`, as a library
  component would be. `StdSize = 2` stands for 256 and `MaxEnd = 8` makes
  the buffer double twice.
  - Each fetch is `FetchCached` (the two trim loops leave nothing) or
    `FetchRead`: the buffer grows with `Grow`/`Realloc`, the gap is read,
    and the read's result is a free choice.
  - `GetConfDie` is `check_conf_range` meeting a byte that is not present.
  - `ImplementsCacheSpec` maps `present` to the set `cached` of
    `CacheSpec`.
- **LspciConfig follows the real callers.**
  - Bytes are cells of 64: the header is 1 cell, a CardBus header 2,
    `config[256]` 4, and a PCI Express space 8.
  - The device is any header type (normal, bridge, CardBus) and space
    size, with any ascending list of capabilities: PM, AGP, MSI, PCI-X,
    HyperTransport (primary link, secondary link or another type), one
    printed from its entry alone, or a broken id 0xff.
  - Each printer is an operator after its function (`ShowPm`, `ShowAgp`,
    `ShowMsi`, `ShowPcix`, `ShowHtPri`, `ShowHtSec`, `ShowHt`). It says
    what the function does after its first line. Below `-vv` it returns.
    Otherwise it fetches the registers after the entry and either returns
    when that fails (`checked`) or reads them anyway (`unchecked`, the two
    HyperTransport link printers). `show_pcix` does nothing for a CardBus
    header.
  - `show_device` runs `show_machine` (`-m`), `show_verbose` (`-v`) or
    `show_terse`. `show_verbose` walks the capabilities only for normal
    and bridge headers: `show_htype2` never calls `show_caps`, and reads
    the CardBus registers past byte 63 instead.
  - `HeaderRegs` is what `show_terse` and the start of `show_verbose`
    read: class, revision, prog-if, command and status, all in cell 0.
    `MachineRegs` is what `show_machine` reads past the header: a CardBus
    bridge's subsystem ids at 0x40 and 0x42 (cell 1).
  - `show_bases` is the recursive operator `ShowBases(bar, cnt, i)`. A
    slot of `bar` is what `get_conf_long` reads there, after 0xffffffff
    is taken as 0 and a flag-less OS address as the flag: `none`, `io`,
    `mem32` or `mem64`. The operator gives the regions printed, as
    `<<slot, kind>>`, and the slots read. `BarCount` is the `cnt` that
    `show_htype0`, `show_htype1` and `show_htype2` pass: 6, 2 and 1. Its
    reference is `LayoutRegions`, the PCI layout: a slot is a 64-bit
    region's upper half when the slot before is a lower half
    (`UpperHalf`, recursive), and a 64-bit region in the last slot is
    invalid. What the registers hold changes nothing else lspci does, so
    the layout is not a state variable. `BasesRegionsOK` and
    `BasesReadsOK` compare the two over all 4096 layouts of six slots, for
    each header type. They are constant, so TLC computes them once. The
    invariants require them for the shown device's header in every state
    after `show_verbose` has run.
  - The hardware is modelled after Linux sysfs, which lies outside
    `src/`. Root may read the whole space, anyone else only the header. A
    read past the readable end fails and stores the bytes before that
    end.
  - `Compliant` keeps every capability inside the 256-byte space. `Cyclic`
    lets the last entry point back into the list.

### EepromLoad

- **Bytes are tokens.** A byte is `<<kind, n>>`: file byte n, serial-number
  byte n given with `-n`, 0xff, 0x00, 0x42, the header's signature 0x5a or
  its byte count, old EEPROM byte n, or `Junk` for whatever lies past
  `g_pBuffer` or in memory `malloc` did not clear. A word is four of them, little-endian. A property can tell
  which file byte ended up where, and no values are enumerated.
- **The register protocol.** Each `eep_*` call is a short `script` of
  register accesses. `eep_write` writes the buffer, then `SET_WR_EN_LATCH`,
  then the write command. `eep_read` writes the read command, then reads the
  buffer.
  - `Access` runs the next access only when the controller is not busy.
    This is the poll of `check_for_ready_or_done` that the code places
    before every access.
  - A call returns (`Idle`) after its last poll.
- **The controller** is hardware, outside the repository. It is modelled
  after the command semantics the code's comments cite (sections 6.8.1 and
  6.8.2 of the switch's manual):
  - a command makes it busy until it completes;
  - a read copies the block into the buffer register;
  - `SET_WR_EN_LATCH` sets the latch;
  - a write stores the buffer if the latch is set, then clears the latch.
  - With `WriteFails`, a write may also leave the block unchanged
    (`CompleteWriteLost`).
- **The EEPROM image** (`OldImg`). Byte 0 is the signature `eep_init`
  writes. An initialised part has zeros in bytes 1..3 (`EepSize` 4);
  otherwise bytes 2..3 hold the register byte count and a serial-number
  entry (0x42 0x00 and four bytes) may start at `omk`. `EepSizes = {4, 10}`
  is the initialised part and a part with one 6-byte register entry.
- **`EepFile`** (`Init`, `ToLoad`). `-w ... -n` starts at the load's search;
  the other commands start with the save.
- **The save.** `SaveHeader` and `SaveSize` read block 0 and take
  `EepSize = 4 + (value >> 16)` (`HeaderSize`; any pair of bytes other than
  a header's, such as 0xffff from a stale buffer register, is the largest
  count). `SaveWord` and `SaveStore` are a turn of the word loop, and
  `four_byte_count` wraps as in the load. `SaveTail` and `SaveTailStore`
  are `eep_read_16`: a whole block read, its low two bytes stored, and a
  store past the allocation dropped. `SaveEnd` writes the file for `-s`,
  nothing when `-n` was given, and goes to the serial-number loop for `-w`.
- **The save's serial-number loop.** `CaptureStep`, `Capture`,
  `CaptureInit` and `CaptureEnd`. `i` is the same scaled `uint8_t`; a pair
  sets `SerialNumber[n] = g_pBuffer[i+5-n]`, and the initialised header at
  `i = 2` sets `bIsInit`. The load then puts `SerialNumber` back after the
  file's pair (`LoadSerial`), unless `bIsInit`.
- **The load.** `SearchStep`, `LoadSerial` and `SearchEnd` are the serial
  number search. Its index `i` wraps at `2^ByteBits`, for the code's
  `uint8_t`. A pair at the last byte, matched against whatever follows the
  buffer, is one of the choices. `WriteWord` and `VerifyWord` are one turn
  of the word loop; `four_byte_count` wraps at `2^WordBits`. `WriteTail`
  and `VerifyTail` handle the 16-bit remainder. `VerifyTail` leaves `rc`
  alone whichever way the compare goes, as the code does.
- **What is left out.** Opening, sizing and reading the file are left out,
  and so are the `EEP_FAIL` returns of `fopen` and `malloc` in the load and
  the save. So are the `-e` `ExtraBytes` adjustment and the progress output.

### CommandLine

- **Arguments are words** of a small alphabet: the options `-w`, `-s`,
  `-n`, `-e` and `-h`; `f`, the name of a file that exists; `sn`, a valid
  serial number; and `bad`, which is neither. `-v` changes nothing the
  model tells apart and is left out. `Argvs(4)` is every command line of up
  to four such words.
- **`Step`** follows the code's `if` chain: a pending file name (refused
  when it starts with `-`), a pending serial number (refused when it starts
  with `-` or is not 8 hexadecimal characters), then the options. After
  it, the last argument may not leave a file name or serial number pending.
  `-h` returns at once.
- **After the loop.** `-e` needs nothing more. Otherwise a file name must
  have been given. `-s` with `-n` only warns, and `-w` needs its file to
  exist.
- `EepromLoad` starts from the `EepOptions` of every command line main
  passes on (`Commands`). `SerialNumber` holds the last `-n`'s number,
  even when a later `-s` cleared `bSerialNumber`.

### AdnaRecovery

- **Adapters are addresses.** `Slots` are the upstream ports' addresses in
  address order. An EEPROM is `absent`, `blank`, `init` (`eep_init` wrote
  the signature) or `valid`. The switch reports the presence bits it latched
  at its last reset (`loaded`), not what the EEPROM holds now.
- **Actions.** `ParseCommandLine` is main's call of `ProcessCommandLine`,
  taken from `CommandLine` (instanced as `Cmd`): `Parses` keeps, for every
  command line of up to `MaxArgs` words, whether it succeeded and
  `bListOnly`. An error or `-h` is `exit(1)`. `AdnaPciProcess` is
  `adna_pci_process`, and with `-e` main's `goto __exit` after it: a scan (whose failed
  header reads drop adapters and count `seen_errors`), the numbering of
  `count_upstream` over the sorted list, and `save_to_adna_list`. No
  adapter left is `exit(-1)` (status 255). `Select` is the `fgets` loop:
  a number in range; cancel, out of range or not a number (`__exit`); or,
  with `StdinEOF`, `fgets` returning NULL at once, so `num` is whatever
  the stack held. `FirstCheck` and `SecondCheck` are `eep_process` and
  main's test of its status. `eep_process` scans again, looks the number up
  in `first_adna` and the address in the new list (`Target`), reads the
  presence bits (pcimem may fail), and runs `EepFile` or `eep_init`.
  `HotReset` is `adna_populate_parent` and `adna_hotreset` with the
  outcome of each of its three `adna_setpci_cmd` calls (`HotResetCmds`):
  - `D0_TO_D3` failing returns early;
  - `HOTRESET_ENABLE` failing is ignored: nothing is reset, and the switch
    keeps the presence bits it latched;
  - `HOTRESET_DISABLE` failing is ignored: the parent's secondary bus stays
    in reset, and the rescan does not find the adapter;
  - with both calls working, the switch latches its EEPROM again, and the
    rescan may lose the adapter.
- **The environment.** Every hardware failure is a constant that allows
  it: `ScanFails`, `ReadFails`, `SetpciFails`, `ResetLoses`, `FileFails`
  and `StdinEOF`. `EepFile`'s file I/O is only its result. The
  `--version` reply, which returns before the parse, is not modelled.

### Unsigned widths in GrowTree

- `UIntMax` stands for `~0u`. It is given the value 2^31 - 1, TLC's largest
  integer.
- A wrapped difference `sub - pri` with `sub < pri` is represented as
  `UIntMax - (pri - sub) + 1`. This lies above every unwrapped width, in the
  same order as the 32-bit results, so each comparison the code makes comes
  out the same.

## 3. Runs

| Run | Module / cfg | Checks | Bounds | Result |
|---|---|---|---|---|
| `map_bridges` | `MapBridges` / `MapBridges.cfg` | `TypeOK`, `VisitedOnce`, `EntryNested`, `WalkComplete`, `Termination` | buses 0..3, up to 3 claims | pass, about 1.07M states |
| `grow_tree` | `MCGrowTree` / `GrowTree.cfg` | `TypeOK`, `TreeFaithful`, `SlotOrder` | addresses 00:00, 00:01, 01:00, 02:00; up to 3 devices; bus registers 0..2 | pass, about 0.74M states |
| `map_bus` | `MCMapBus` / `MapBus.cfg` | `TypeOK`, `ProbeComplete` | buses 0..1 × devices 0..1 × functions 0..1; up to 3 functions; bus, slot and function-0 filters; `-d` filter; failing reads | pass, about 0.98M states |
| `bus_mapping` | `MCBusMapping` / `BusMapping.cfg` | `ImplementsValidator` | buses 0..2, functions 0..1, up to 3 functions, every register pair | pass, about 0.43M states |
| `config_cache` | `ConfigCache` / `ConfigCache.cfg` | `TypeOK`, `ReadInBuffer`, `ImplementsCacheSpec` | 256 bytes as 2; calls ending at or below 8; widths 1, 2 | pass, about 8K states |
| `lspci_config` | `LspciConfig` / `LspciConfig.cfg` | `TypeOK`, `ShownFetched`, `InBounds`, `BasesInSlots`, `BasesAreRegions`, `CapsTerminate` | every header type, space size and compliant ascending list of up to 3 of the 9 capability kinds; root or not; `-m` or not; verbose 0, 1, 2; `-x` levels 0, 1, 3 | pass, about 321K states |
| `lspci_xxxx` | `LspciConfig` / `LspciConfig_Xxxx.cfg` | `InBounds` | as `lspci_config`, with `-xxxx` | violation (finding) |
| `caps_cycle` | `LspciConfig` / `LspciConfig_CapCycle.cfg` | `CapsTerminate` | as `lspci_config`, with lists that may loop back | violation (finding) |
| `eeprom_load` | `EepromLoad` / `EepromLoad.cfg` | `TypeOK`, `WordsProgrammed`, `FileSaved`, `SerialKept`, `SerialWritten`, `LoadTerminates` | every command line of up to four arguments that reaches `EepFile`; an initialised EEPROM and a 10-byte one with or without a serial number; files of 0..10 bytes with the pair anywhere or absent; writes may be lost; 8-bit counters as 4 and 2 bits | pass, about 19K states |
| `eeprom_tail` | `EepromLoad` / `EepromLoad_Tail.cfg` | `FileProgrammed` | a 6-byte image, writes may be lost | violation (finding) |
| `adna_recovery` | `AdnaRecovery` / `AdnaRecovery.cfg` | `TypeOK`, `ChosenOnly`, `BlankRecovered`, `ListOnlyHarmless` | 2 adapters, every EEPROM content, every command line of up to 2 words, every failure allowed, stdin EOF | pass, about 2K states |
| `adna_exit` | `AdnaRecovery` / `AdnaRecovery_Exit.cfg` | `ExitReflectsResult` | as `adna_recovery` | violation (finding) |

### What the runs show

- **`map_bridges`.** The bounds cover every shape of bridge claims over four
  buses: self-claims, cycles, two claims on one target, crossing ranges, and
  nested ranges two levels deep. On all of them the validator walks each bus
  at most once. The ranges it enters nest. When the root loop ends, every
  existing bus has been walked, and each claim is either the one its target
  was entered through or carries exactly one bug tag. The walk always
  terminates.
- **`lspci_config`, base address registers.** `BasesAreRegions`: for
  every layout of the six slots, `show_bases` prints each region of the
  layout once, in slot order. It never prints a 64-bit region's upper
  half as a region, and it marks a 64-bit flag in the last slot invalid.
  `BasesInSlots`: it reads every slot and nothing past the last. On a
  bridge, slot 2 is `PCI_PRIMARY_BUS`. The `i >= cnt - 1` guard at
  `lspci.c` 309 is what keeps that slot out.
- **`grow_tree`.** Three devices on four addresses over buses 0..2 are enough
  for the key shape: two nested bridges with a device behind the inner one.
  TLC reaches it. They are also enough for bridges side by side and devices
  sharing a bus.
  - `TreeFaithful`: for every consistent hierarchy, the printed tree holds
    each device once, under the bridge that forwards to its bus.
  - `SlotOrder`: for every hardware, each bus lists its devices in slot
    order.
- **`map_bus`.** A probe that reaches `map_bridges` has discovered exactly
  the present functions the filters ask for. It holds under every bus,
  slot and function-0 filter, a `-d` filter, multi-function devices, and
  header reads that fail.
- **`bus_mapping`.** On every hardware of up to three functions over three
  buses, any bridge register pair included, lspci -M implements
  `MapBridges` on the table the hardware should give. This means:
  - the probe builds exactly that table: the claims with per-bus lists
    newest first, ranges clamped, `exists` right;
  - `map_bridges` then takes only `MapBridges` steps and terminates.

  The validator properties of `map_bridges` therefore hold for the tables
  the prober really produces.
- **`config_cache`.** Under every sequence of fetches and reads, with
  every read result:
  - `pci_read_block` only writes inside the grown buffer (`ReadInBuffer`);
  - h1a_ee's cache implements the spec §4.1 contract. A successful fetch
    leaves exactly its range added, and a failed one changes nothing. The
    realloc keeps every present flag. A fetch of present bytes needs no
    read. Only a byte that is not present makes `get_conf_*` die.
- **`lspci_config`.** The device can be any compliant one, with the user
  root or not, and any of `-m`, `-v`, `-vv`, `-x` and `-xxx`. lspci decodes only bytes
  it read (`ShownFetched`). It stays inside `config[256]` (`InBounds`),
  and it finishes the device (`CapsTerminate`).
- **`lspci_xxxx` (violation).** With `-xxxx`, `show_hex_dump` calls
  `config_fetch(d, 256, 3840)`. For root on a PCI Express device, this
  reads 3840 bytes into `d->config + 256`, past the end of
  `struct device`, and the dump then reads up to byte 4095.
- **`caps_cycle` (violation).** A capability at 0x40 that points to itself
  makes `show_caps` print it forever. The walk has no visited set and no
  bound.

- **`eeprom_load`.** In every interleaving of the tool's register accesses
  with the controller's completions, the following hold:
  - `-s` writes the EEPROM's image byte for byte (`FileSaved`): the header
    gives the size, each block lands at its offset, and the 16-bit remainder
    of a 10-byte image is kept.
  - `-w` without `-n` keeps the device's serial number (`SerialKept`): when
    the load succeeds, the four bytes after the file's pair are the
    device's, in its order. On an initialised part the save's loop sets
    `bIsInit` and the file's own number is kept.
  - `-w` with `-n` writes the number given (`SerialWritten`). This holds
    because the parse refuses a `-n` left without a value at the last
    argument; without that check `-w f -n` would write zeros.
  - A load that returns `EXIT_SUCCESS` has each aligned word of the
    buffer, with the serial number put in, at its block.
  - A lost write is caught by the verify.
  - Every load ends, given that the controller completes each command.
  - The sizes stay below both counter wraps (16 bytes for `i`, 16 for
    `four_byte_count`), so the run is about the protocol and the loops, not
    the widths.
- **`eeprom_tail` (violation).** A 6-byte image is a 4-byte header and one
  6-byte register entry, the shape `EepromFileSave` writes; such files are
  2 mod 4 long.
  - The write of its remainder to block 1 is lost, and the read-back
    returns the old word.
  - `EepromFileLoad` prints `ERROR W16` and jumps to the exit with `rc`
    still `EXIT_SUCCESS` (`part_000` 1624-1627). The 32-bit path sets
    `EEP_FAIL` instead.
  - A file that is 3 mod 4 long breaks the same property with no fault at
    all: `(uint16_t)value` drops its last byte.
- **`adna_recovery`.** Two adapters are enough for another adapter to
  take a number's place: the other may drop out of a re-scan or the reset
  may lose the chosen one. The run covers every EEPROM content and every
  failure. Over all of them:
  - `ChosenOnly`: the tool writes to and resets only the adapter `num`
    names in the list it printed. Each `eep_process` scans again, but it
    looks the number up in the stale `first_adna` and then the address in
    the new list. A missing address is NULL and `exit(-1)`, never another
    adapter.
  - `BlankRecovered`: a blank EEPROM that was initialised and reset reads
    valid at the second check and reaches `EepFile`. This needs `eep_init`
    before the reset and the reset before the second read.
  - `ListOnlyHarmless`: `h1a_ee -e` writes and resets nothing, and exits
    with the listing's status. The only thing between `-e` and the
    selection loop is the `bListOnly` test after `adna_d3_to_d0`.
- **`adna_exit` (violation).** Adapter 2 is picked, its EEPROM is valid,
  and `EepFile` fails. `main` treats every status other than
  `EXIT_SUCCESS`, `EEP_NOT_EXIST` and `EEP_BLANK_INVALID` as "nothing to
  do" and returns `seen_errors ? 2 : 0`, which is 0. The status of the
  second `eep_process` is never looked at, so a recovery that leaves the
  EEPROM missing also exits 0.

### Observations recorded without a run

TLC also showed the following while the modules were built. The runs were
not kept, to hold the run list to the questions above, but the traces are
easy to reproduce by stating the property:

- **The tightest parent (spec §4.2).** Take bridge A on bus 0 forwarding to
  1..2, and bridge B on bus 1 forwarding to 2. `grow_tree` makes the host
  B's parent, because `host_bridge` is first in the chain and its width
  `~0 - ~0 = 0` is beaten by no one. The printed tree is still right
  (`TreeFaithful`), because `insert_dev` meets B before A on the host's
  newest-first child list.
- **One bus per number (spec §3).** A bridge whose secondary is 0 gets a
  second bus 0 next to `host_bridge`'s. Two bridges with the same secondary
  each get a bus with that number.
- **Probe failures (spec §4.4).** One failing header read ends `lspci -M` in
  `scan_device`'s `die()` (the action `ProbeDie`). The spec says the
  device is skipped.
- **The 8-bit counters of `EepromFileLoad`.** Both wraps were seen with
  `EepromLoad`:
  - With `ByteBits = 3` and an 8-byte file without the pair,
    `LoadTerminates` fails. `i < FileSize` holds for ever, which for the
    real `uint8_t` means a file of 256 bytes or more.
  - With `WordBits = 1` and a 9-byte file, `WordsProgrammed` fails. The
    remainder goes to block `four_byte_count = 2 mod 2 = 0` and overwrites
    the first word, which for the real counter means a file over 1 KiB.
- **The save's loop wraps too.** With `ByteBits = 3`, `Modes = {"w"}` and
  `EepSizes = {10}`, an image without a serial-number entry makes the save's
  `uint8_t i < EepSize` loop run for ever (`LoadTerminates` fails); for the
  real counter that is an image of 256 bytes or more.
- **Ignored hot-reset results.** When `HOTRESET_ENABLE` fails, the second
  check reads the same blank bits again, runs `eep_init` a second time and
  exits 0 with no file written. `adna_exit` reports this through
  `ExitReflectsResult`, although TLC's shortest trace is a different path.
- **`-n` before `-s` then `-w`.** `-n sn -s f -w f` clears
  `bSerialNumber` but keeps `SerialNumber`. On a part with a serial entry
  the device's number wins; on one with none (not freshly initialised) the
  `-n` number is written.
- **`-s file -n sn` saves nothing.** `ProcessCommandLine` accepts it with
  the warning "Serial number parameter on Save command will be ignored",
  yet `EepromFileSave` then skips both branches, writes no file and returns
  `EXIT_SUCCESS` (`SaveEnd` with `mode = "sn"`). `-n` before `-s` is reset
  by `-s` and saves normally.
- **An odd `EepSize`.** With `EepSizes = {7}` and `-s`, `FileSaved` fails:
  the last byte is never read and the file gets uninitialised memory. A
  size of 1 mod 4 makes `eep_read_16` store a byte past the buffer. The
  tool's own images are 4 + 6n bytes, so only a corrupt header count does
  this.
- **Gap-only fetches (spec §4.1).** With bytes 0, 1 and 3 present,
  `config_fetch(0, 5)` asks the hardware for bytes 2..4 and re-reads 3. It
  trims only the two ends and reads the hull. In h1a_ee this never runs
  (see above), and re-reading a byte leaves nothing stale, so it is not
  listed as a hazard; it differs from the spec's gap-only reads.

- **Uninitialised bus tags (`lspci.c` 1672).** `map_bridge` never sets
  `b->bug`. A single bridge 00 → 01 is entered by the walk, yet the summary
  prints `<overlap bug>` when the heap byte happens to say so. The
  `map_bridges` run uses zeroed memory; its properties are about claims the
  walk rejects, which it always tags.
- **`lspci -M -s .1` (`lspci.c` 1716).** With the function filter
  `MCFilterFunc1` substituted for `FilterFuncs` in `MapBus.cfg`,
  `ProbeComplete` fails. Function 0 is skipped by the filter, so
  `func_limit` stays 1 and function 1 is never probed.
- **Stdin EOF in h1a_ee (`part_000` 1978).** With `ChosenOnly` strengthened
  to require a typed number, TLC gives: `fgets` returns NULL at once,
  `num` holds 2 from the stack, and adapter 2, which nobody picked, is
  initialised and reset. `num` is read uninitialised there, which is
  undefined behaviour; the model lets it be any small number.

The mutants in `PROJECT.json` show that each passing property depends on the
code it is about:

- a `Descend` without the guestbook test, without the `last` test, or
  without `via = b`;
- a `Return` one step late;
- `func_limit` never raised;
- a claim filed under its secondary bus;
- the clamp dropped;
- child lists appended instead of pushed on the front;
- `sort_them` skipped;
- the buffer doubled once instead of until the range fits, or grown by 256
  instead of doubled, and the realloc clearing every present flag;
- the capability walk advancing to the adjacent cell or not at all;
- `-xxx` asking for 256 bytes from `cnt`, or printing 256 bytes whether or
  not the fetch worked;
- the EEPROM verify that does not compare the word read back, the search
  index never advanced, and `offset` advanced by one byte instead of four;
- the save reading every word from the same block, and the serial number
  taken in file order instead of reversed;
- `ProcessCommandLine` without its check for a value left pending at the
  last argument;
- `count_upstream` numbering from 0, the device looked up by its number in
  the new list instead of `first_adna`, and the blank case without
  `eep_init`.

## 4. Fairness

Both programs are single-threaded and run to completion. Nothing else takes
steps and nothing waits for an event.

- `MapBridges`, `MapBus`, `BusMapping` and `LspciConfig` assume weak
  fairness of their next-state relation. This only says the program keeps
  running, and it is needed to check `Termination`, `CapsTerminate` and the
  fairness part of `Abs!Spec`.
- `EepromLoad` also assumes weak fairness of its next-state relation, which
  there covers the controller's completions too. This is an assumption
  about the hardware: a controller that stops completing commands hangs
  `check_for_ready_or_done`, which has no timeout. `LoadTerminates` shows
  that the code adds no hang of its own.
- `GrowTree`, `ConfigCache` and `AdnaRecovery` check only safety and have no fairness.
  The callers of the cache may stop calling at any time.
- The runs set `CHECK_DEADLOCK FALSE` because the program really stops at
  those points: `Done`, `pc = "done"`, `phase = "dead"`, or `die()` in
  `check_conf_range`. For `EepromLoad`, `pc = "done"` is the return of
  `EepFile`. For `AdnaRecovery`, `pc = "exit"` is main's return.

## 5. Not modelled, and why

- **Formatting.** Text formatting, name lookup and lspci's option parsing
  change no state the properties can tell apart (h1a_ee's parse is
  `CommandLine`, because it decides what `EepFile` does). `pcimem`'s mmap of
  the `/sys` resource file is one register access of `EepromLoad`. `show_device` and the printers
  are modelled only by which bytes they fetch and read, except
  `show_bases`, whose slot walk is modelled in full.
- **libpci.** The library is not in the repository. The order in which it
  lists devices (ascending address) is modelled from the spec as
  `PaccOrder`.
- **Multiple domains.** Only domain 0 is modelled. Bus mapping supports only
  domain 0 (`/* XXX */` at `lspci.c` 1713), and grow_tree's domain test is
  kept in its operators.
- **The line buffer** of the renderer. It is listed as a hazard.
- **libpci's cache after a realloc.** h1a_ee's `config_fetch` reallocates
  `d->config` without calling `pci_setup_cache` again, so libpci would keep
  a stale pointer. The function is unreachable in h1a_ee, and libpci is not
  in the repository.
- **`eep_init` and `eep_erase`.** They use the same register sequences as
  `eep_write`. Only the header `eep_init` leaves is modelled, as an
  initial image.
- **False 0x42 0x00 pairs.** The search takes the first pair anywhere. A
  register value, or a byte count of 0x42, can match before the serial
  entry. The model's register bytes are tokens distinct from 0x42, so this
  is listed as a hazard and not generated.
- **Writes past `g_pBuffer`** by the serial-number search, when the pair
  lies in the last five bytes. These are undefined behaviour; the model
  drops them and lists them as a hazard.
- **`adna_d3_to_d0` and `adna_set_d3_flag`.** Nothing in the repository
  calls `adna_set_d3_flag`, so no `bIsD3` is ever set and `adna_d3_to_d0`
  does nothing.
- **The setpci command** (`src/src/setpci.h` declares it and its command
  enum, which is `SetpciCmds`). Its body is not in the repository;
  `HotReset` models only each call's success or failure and the effect of
  the reset on the switch.
- **`pcidev_is_adnacom`'s vendor and device filter** and the list printing.
  `Slots` are the adapters that pass the filter.
- **h1a_ee's failed header read** in `scan_device` (the device is dropped
  and `seen_errors` counts it). `ConfigCache` starts from a device whose
  read succeeded.

## 6. Plan

The modules still to build, most important first:

1. **False pairs in `EepromLoad`.** Register bytes that may equal 0x42 or
   0x00, so the first-pair search meets a false match.
