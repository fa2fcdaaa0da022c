# A model of the keyboard bootloader

The bootloader of a MAX32650 keyboard receives images over USB (DFU) and
writes them to the flash: the application, or itself. This directory holds a
TLA+ model of it, TLC runs that check the model on small instances, and
proofs, checked by TLAPS, of theorems about it for every value of its
constants. Line numbers refer to the files of the repository; `usb.c` without
a directory is `src/usb/usb.c`, the other one is "device usb.c".

## 1. Inventory

| Component | State | Operations | Modelled in |
|---|---|---|---|
| DFU state machine (`dfu.c`) | `state`, `status`, `dirty` | one handler per state, `dfu_poll_state`, `dfu_init`, the replies and their callback | `Dfu`, `DfuDevice`, `Bootloader` |
| Download (`download.c`) | `page`, `first_page`, `overflow`, their counts, `count`, `page_waiting_to_flush`, `done`, `image_info` | start, stop, check_done, verify_header, block callback (interrupt), busy and manifest (main loop) | `DfuDownload` |
| Upload (`upload.c`) | `total_len`, `transmit_count` | start, next block, callback | `DfuUpload` |
| Flash driver (`flash_control.c`) | the flash, the loop variable | erase a page, program a page | `FlashControl` |
| USB requests (`device/.../usb/util.c`) | the one `struct usb_request` | read, write, ack, stall, completion callback | `DfuDevice`, `Dfu` |
| Main (`main.c`) | where it is | application or DFU mode, initialisation, the poll loop, jump | `Bootloader`, `PowerUp` |
| Header, checksum, jump (`bootloader.c/.h`) | `bootloader_shared.magic`, vector table, interrupts | CRC of an image, jump | `MemoryLayout`, `FlashControl`, `Checksum`, `Startup` (partly) |
| Memory layout (`memory_layout.h`, `linker.ld`) | - | address arithmetic, sections | `MemoryLayout`, `Startup` (partly) |
| Startup (`startup.c`) | RAM, vector tables, PRIMASK | copies and zeroes the RAM, replaces handlers, enables interrupts | `Startup` (partly) |
| USB device layer and registry (`usb.c`, device `usb.c`) | callback lists, events, connection, configuration | start, stop, registration, bus events, dispatch of requests | `UsbDevice` (partly) |
| Descriptors (`descriptors.c/.h`) | - | constant tables | `UsbDevice` (partly) |
| Utilities (`util.c`, device `util.c`) | `printf_buf` | log2, formatting, printing, CRC-32, delay | `Words`, `Console`, `Checksum` (partly) |
| Build (`insert_checksum.sh`, makefiles) | - | checksum of an image | `Checksum` (partly) |

How they interact:

- The USB interrupt runs `dfu_state_machine` once for every class request, and
  the callback of a transfer when it has ended. The main loop polls `state`
  and, when the interrupt has put it to `DOWNLOAD_BUSY` or `MANIFEST`, writes
  the flash. Both change the same `struct dfu` without a lock. Order is kept
  only by `state` and by the host, which is told to wait (`bwPollTimeout`).
- Both also print, into one `printf_buf`.
- The first page of an image is held back in `first_page` and written last.
  It carries the header that makes an image an image.
- DETACH ends the poll loop; `jump(BOOTLOADER_START)` runs the bootloader
  from the flash again, and its `main` starts the application.
- The bootloader runs from RAM, so it can erase its own image in the flash,
  and with it the vector table it was started from. It is lost if it is reset
  before a new one is there.
- The USB library calls `usb_event_callback` when the cable is plugged or
  unplugged or the host resets the bus, and `usb_enum_callback`, which follows
  a list of registered callbacks, for requests. DFU hears of requests only.

What is hard: the interrupt and the main loop interleave; the supply can fail
between any two steps; the flash can fail loudly or silently; transfers are
aborted or refused; blocks straddle pages; the host may stop anywhere, start
over, or send a block twice; events of the bus come in any order.
PROJECT.json lists each hazard at its line.

What makes the components correct:

- download: the stream of cells is neither lost, repeated nor misplaced
  (`StreamInOrder`), the first page comes last (`HeaderLast`), a reported
  completion is true (`CompletionIsTrue`), nothing is programmed that is not
  erased (`ProgramsErased`), no buffer is overrun (`TypeOK`);
- upload: device and host agree on what has been sent (`UploadInStep`);
- state machine and main loop: no request goes without an answer
  (`EverySetupAnswered`), DETACH never leads nowhere (`DetachSafe`), a busy
  device becomes responsive again (`BusyEnds`) after bounded work
  (`WorkShrinks`);
- the whole: `SafeUpdate`, and whatever has happened a patient host gets its
  application installed and started (`UpdateCompletes`);
- startup and USB: every exception has a handler (`ExceptionsHandled`), a host
  meets a device that is ready for it (`HostIsServed`), and the device follows
  its cable (`ConnectionFollowsCable`, `ConnectsToBus`);
- utilities: printing stays inside its buffer and ends (`InsideBuffer`,
  `TerminatorAhead`, `PrintingEnds`), numbers are whole (`NumbersWhole`), the
  checksum is the one the build inserts and tells an image from a damaged one
  (`ChecksumIsCrc`, `AcceptsExactlyIntact`).

## 2. Modules

    MemoryLayout        addresses, headers, what a cell of memory holds
      FlashControl      erase and program, step by step
        DfuDevice       struct dfu, the control endpoint
          DfuDownload   download.c
            DfuUpload   upload.c
              Dfu       dfu.c, the host, the end of transfers
                Bootloader             main.c, jump, reset, power; Init, Next, Spec
                  BootloaderProperties the properties
                    BootloaderRefinement   Bootloader implements SafeUpdate
                      MCBootloader         values for TLC
                    BootloaderProofs       theorems for every host
                      StreamProofs         for a host that waits: the stream
                        SafeUpdateProofs   the images, and the refinement
                          MCUpdate         TLC: what the theorems presume is met
                    Recovery               trouble, then calm and a patient host
                      RecoveryProofs       theorems
                      MCRecovery           with the values of MCBootloader
    SafeUpdate          what an update promises (abstract)

    Startup             the reset handler, vector tables, jump
      UsbDevice         usb_init, the registry, bus events
        PowerUp         main from power-up to the next program
          PowerUpProofs theorems

    Words               uint32_t, util_log2
      Console           util_vsnprintf, util_printf, two writers
        ConsoleProofs   theorems
        MCConsole       messages
      Checksum          util_crc32, calculate_image_crc32, insert_checksum.sh
        ChecksumProofs  theorems
        MCChecksum      images and damage
    Recursion           lemmas on functions defined by recursion over numbers

Each module EXTENDS the one above it. StreamProofs also EXTENDS
BootloaderRefinement, RecoveryProofs StreamProofs, MCUpdate
MCBootloader, and ConsoleProofs and ChecksumProofs EXTEND Recursion;
`BootloaderRefinement` instantiates `SafeUpdate`. The four groups share no
variables: `PowerUp` knows of updates only that they erase and complete the
bootloader and set and clear `dirty`, `Bootloader` only that a reset zeroes the
RAM, and both know of the checksum only what `Checksum` shows, that it tells an
image from anything else.

### The update (MemoryLayout to Bootloader)

- Variables have the names of the members of `struct dfu`. `pc` is the place
  of the main loop in the code, `address` and `windex` the arguments and loop
  variable of a flash_control call, `pending` and `req_len` the callback and
  length of `dfu.request`, `answer` what became of the last SETUP packet
  (acknowledged, stalled, a data stage, nothing). `file`, `sent` and
  `received` belong to the host.
- A request is one action: `Setup` with `dfu_state_machine` and the handler of
  the state, all of it, since the interrupt is not interrupted. The end of a
  transfer is another (`usb_util_endpoint_callback`).
- `dfu_download_busy` and `dfu_download_manifest` run in the main loop and can
  be interrupted. They are split at every flash_control call; programming at
  every cell; the preparation of the next page (download.c:132-136) at every
  assignment; and before the final change of `state`. What lies between two
  such points is one step. For a host that waits no request comes in between;
  for the others (run EarlyHost) it is a limit of the model at
  download.c:119-121 and 147-152.
- A cell of memory is 16 bytes, the unit of MXC_FLC_Write128. A cell of an
  image is the pair of its file and its offset, so that TLC sees any cell that
  is in the wrong place. Erased, half erased and zeroed cells are values of
  their own. A cell programmed twice, without an erase in between, is garbled.
- `count`, `transmit_count`, lengths and addresses are 32-bit words: sums go
  through `Word`, modulo `UINT32_MAX + 1`.
- The checksum is exact: it tells an image from anything that differs from it
  in the length bytes its header announces. A header with a length that ends
  before itself, or outside the flash, makes the computation run off the
  memory (`ChecksumEnds`).
- The bootloader runs if its whole image is in the flash (`BootloaderRuns`);
  of anything else nothing can be said, and the device counts as `dead`.
- `jump` and every reset lead to the startup code, which zeroes all variables
  but `bootloader_shared`. Power-up leaves anything there. The application is
  one step: it sets the magic and resets. Nothing in the code clears the
  magic, and neither does the model.
- The USB library is external. It calls a request's callback in a later
  interrupt, with success or (fault "usb") with an error and no data, may
  refuse a request, and ends a transfer before it reports the next SETUP.
- The host asks for any request at any time the mode permits and never for
  more than `TRANSFER_SIZE` (wTransferSize). It sends the blocks of a file in
  order, in any lengths, starts over, gives up, or ends the download early.

Faults are a constant. "flash": an erase or a program returns an error, or
goes wrong silently. "usb": see above. "power": the supply fails at any
moment, also inside an erase or between two cells. "early": the host does not
wait. Without "early" it waits until the main loop is back in its poll loop,
also after an aborted reply. That takes the 700 and 1200 ms of dfu.c:214, 299
to be enough. "repeat": the host believes its last block lost and goes on one
block earlier; nothing on the device looks at the block number.

`Recovery` adds `calm` and `session`. Until it is calm everything of `Next` may
happen, and it need never become calm. Then the faults are over (the flash
keeps what it has refused or garbled before) and a patient host is the only one
left. It reacts to the state the device is in: clears an error, aborts what is
half done, downloads its file from the beginning in blocks as long as possible,
asks for the status when it has to, and detaches the device. A transfer or a
flush that was under way when it became calm is completed first.

On the device BOOTLOADER_START is 0x10000000 and APP_START is twice that,
0x20000000, the start of the RAM. With it no application update can work
(finding of the run AsBuilt). The other runs take FLASH_START equal to
BOOTLOADER_SIZE: the same formula then puts the application right behind the
bootloader, where APP_SIZE and upload.c (which reads both images as one range)
presume it. The theorems hold for every layout.

### Power-up (Startup, UsbDevice, PowerUp)

- `pc` names the part of the reset handler, the function called by `main`, or
  the part of `jump` that comes next. The state is what decides where an
  exception leads: `boot` (is there a bootloader in the flash), `data` (is
  `.data`, and with it nearly all code, in the RAM), the RAM vector table, the
  VTOR, PRIMASK and the NVIC. Entries of the tables are kinds of handlers.
- The linker script puts `.isr_vector`, `.flash_isr` and the header into the
  flash and all other code into `.data`: therefore the second set of five
  handlers, and the five lines startup.c:89-93.
- The lists of request callbacks are modelled as the pointers they are: `head`
  is in `.bss`, the `next` members are in `.data`, and both are garbage before
  the reset handler has been there. `Links` follows them.
- `latched` are the events of the bus that wait, `events` those enabled. They
  are handled in any order. Of plugging and unplugging the library remembers
  the later one; that is an assumption about it.
- MXC_USB_Init or enum_init may fail. main does not look, and the device then
  polls without a host for ever; `ConnectsToBus` exempts it.
- DFU is cut down to a request that makes the main loop write, and DETACH,
  with the check of `dirty` in between. What the main loop writes may be for
  either region (`PollFlushes`): `dirty` is set, and the bootloader as it was
  or erased; or an update is complete and `dirty` cleared, and the bootloader as
  it was, if the application was updated, or whole.
- With the bootloader erased and `dirty` cleared by an application, DETACH is
  granted and `jump` sets VTOR to erased flash. That is finding 1; here the
  processor is then `lost`, and ExceptionsHandled exempts it as it exempts a
  device with no bootloader at its reset (`dead`).
- `usb_register_callback` and `usb_register_string_descriptor` are called by
  nothing and left out, and so is the loop over the lists of event callbacks,
  which are always empty.

### Utilities (Words, Console, Checksum)

- A word is the set of its one-bits. The arithmetic of C on words is defined
  from that (`Carried` brings the carries of a sum or product forward).
- `Console`: the main loop is at a part of its message, at a cell of a memcpy,
  or printing a character; the interrupt, which cannot be interrupted, formats
  and prints a message in one step between any two of these. Of a cell only
  whether it is the terminator is told apart. Numbers have values, since their
  length comes from `util_log2`.
- `Checksum`: one step per byte, with the eight turns of the inner loop in it.
  The reference is a long division of polynomials over the two-element field,
  written from the definition of the CRC and not from the code. What
  insert_checksum.sh puts into the file is computed by it. A byte that does not
  belong to the image follows it.

## 3. Runs

There is no bound on the number of requests, faults or updates: the state
spaces are finite and explored in full. Deadlock is not checked where a run may
really stop: a device without a bootloader stands still, a checksum is done,
and so on.

| Run | Instance | Checks | Shows |
|---|---|---|---|
| AppUpdate | pages of 4, app1, faults flash, power | StreamInOrder, HeaderLast, EverySetupAnswered, CompletionIsTrue, ImplementsSafeUpdate | an application update through flash and power failures |
| MixedUpdate | pages of 3, tiny, boot2, stray, faults usb, power | StreamInOrder, HeaderLast, CompletionIsTrue, ImplementsSafeUpdate | files for both regions, and for none, in any order, through USB failures |
| BootUpdate | pages of 3, boot2, all requests, faults flash, usb, power | TypeOK, DetachSafe, UploadInStep | the bootloader replaces itself and is read back while everything may fail |
| EarlyHost | pages of 2, app2, faults early, flash, power | TypeOK, WorkShrinks | a host that talks while the device is busy and the flash fails |
| Recovery | pages of 2, app2, faults flash, usb, power, repeat | TypeOK, ProgramsErased, BusyEnds, UpdateCompletes | the way back from any trouble |
| PowerUp | - | ExceptionsHandled, HostIsServed, ConnectionFollowsCable, ConnectsToBus | startup, the order of initialisation, the cable, the two jumps |
| Console | buffer of 12 | InsideBuffer, TerminatorAhead, NumbersWhole, PrintingEnds | two writers and one buffer |
| Checksum | images of 6 to 8 bytes | ChecksumIsCrc, AcceptsExactlyIntact | three chained calls against the definition |
| DirtyFlag | boot2 and app2, no faults | DetachSafe, violated | two files for two regions and one dirty flag |
| AsBuilt | addresses as in the header | ErasesOnlyFlash, violated | APP_START is in the RAM |
| ShortLength | short | BadAppLeadsToDfu, violated | an accepted header stops `main` at every start |
| Oversize | big | ImplementsSafeUpdate, violated | a bootloader longer than its region |

Instances of the update have transfers of up to two cells and a flash of four
pages, two for each region. So blocks straddle pages, a page takes several
blocks, and an image has up to two pages. The files are one of two pages with a
cell behind its length (app1), one of exactly a page (app2; with pages of two
cells one of a page and a half), one of less (tiny), two bootloaders, one file
without magic, one for no region (stray), one with a length that is too short
(short), one longer than a region (big). 32-bit counts wrap above all
addresses. Smaller pages make room for more actors: with pages of two cells
every interleaving of requests with the main loop can be explored, and
liveness be checked.

In MixedUpdate and Recovery a file fits its region and no run but DirtyFlag
offers complete images for both regions to a host that detaches: DetachSafe
holds as long as all files are for one region and fails as soon as there are
files for both, and ImplementsSafeUpdate holds for files that fit and fails for
one that does not. The pairs of runs locate the two flaws. In Recovery only an
application is offered, because a device that has lost its bootloader cannot be
recovered over USB.

ProgramsErased is checked for hosts that wait, among them one that sends blocks
twice. It is false for one that does not: it can begin a download while the
main loop writes the last one, and the main loop goes on with a count that is 0
again, and programs a page it has just written. Such a host breaks the protocol,
and the read-back of the flash driver reports a page that has become wrong.

ConnectionFollowsCable says what it says: with no event left to handle the
device is connected exactly while the bus has power, and configured only while
it is connected. It does not say by whom. If the cable is unplugged and plugged
again before the interrupt is taken, only the power is announced, and a
configuration of the host before stays until the next host resets the bus
(device usb.c:146-151), as it does before it enumerates.

EverySetupAnswered is checked for a host without UPLOAD, and without the fault
"usb" (a read or write the library refuses is not answered, and the result is
not looked at).

Console prints, with both conversions, zero, every power of two and all ones
below each bit, so that `util_log2` meets each highest bit alone and with
everything below it, among them -2^31; padding longer and shorter than the
number; messages that end before the buffer does and that do not fit. Checksum
has nothing, one byte or two behind the checksum, and changes one byte in each
of 255 ways, in each place, and two neighbours in eleven ways; one place is
behind the image.

Fairness:

- `RecoverySpec`: the main loop as a whole (`MainRuns`). It is a `do ... while`,
  interrupts are short, and the flash controller ends what it begins. The
  patient host and a transfer under way are fair only once it is calm, which
  is what calm means. Nothing is assumed of the hosts and faults before.
  `BusyEnds` is checked in the same run and does not depend on calm.
- `PowerSpec`: the main thread, and the interrupt for an event that waits. Not
  the cable, the supply or the host.
- `ConsoleSpec`: the main loop; the interrupt may come as often as it likes.

### Findings

1. `dirty` (download.c:193) is cleared by an update of the other region
   (DirtyFlag).
2. memory_layout.h:18 puts the application at the start of the RAM (AsBuilt).
3. bootloader.c:32 wraps for a header with too short a length, which
   download.c:40-42 accepts (ShortLength).
4. Nothing compares the length of an image with its region: a long bootloader
   overwrites the application (Oversize).

Observed while modelling, without a run of their own:

- dfu.c:337 leaves an UPLOAD of length 0 in dfuUPLOAD-IDLE unanswered.
- The first page is programmed vector table first (download.c:185): a power
  loss inside it leaves a bootloader that the hardware starts and that is not
  whole. Of an application main sees it, because the checksum fails.
- A host that comes back after a bus reset or an unplugged cable finds the
  download of the last one: nothing resets `dfu_state` but a reset of the
  processor. It has to abort it first, as the patient host does.
- util.c prints `%d` and `%u` in hexadecimal.
- descriptors.c:51 says "Detach timeout 1s" and has 60000 ms; dfu.c:434
  compares the configuration with an interface number. Nothing reads either.

## 4. Proofs

All theorems hold for all values of the constants that meet the named
assumptions of the modules (page-aligned flash, a header inside the first page,
transfers no longer than a page, addresses below `UINT32_MAX`; a buffer of two
cells or more; a checksum of four bytes inside the image) and what the theorem
itself presumes. Seven modules hold the theorems about the code, an eighth
lemmas they share.

### For every host (BootloaderProofs)

- `TypeCorrect`: `Spec => []TypeOK`. TypeOK is inductive: it says of `req_len`
  that a block under way fits the transfer buffer, of `page_count` and
  `overflow_count` that they stay in their buffers, and of `transmit_count`
  that it does not pass `total_len`. One lemma per function (`DownloadType`,
  `UploadBlockType`, `BusyType`, `ManifestType`, ...) shows that it keeps the
  part it touches. Nothing is assumed about when the host talks: this is the
  run EarlyHost for every size and every file.
- `UploadCorrect`: `Spec => []UploadInStep`. UploadInStep is not inductive: it
  says nothing while a block is on its way. `UploadCounted` adds that then the
  device has counted exactly the block the host is about to get. No handler
  but that of UPLOAD, and no step of the main loop, enters `UPLOAD_IDLE`.
- `SetupAnswered`: `EverySetupAnswered`, for a library that refuses nothing and
  a host without UPLOAD, as in the run. It goes through the nine handlers.
- `WorkShrinksCorrect`: `WorkShrinks`. `WorkLeft` counts the steps the main loop
  has left before it polls again, at most 9 and a page of cells for a flush, 7
  and two pages for a manifest. One lemma each for the flush, the manifest and
  the flash driver (`WorkInFlush`, `WorkInManifest`, `WorkInFlashControl`) shows
  that every step lowers it; interrupts leave pc and the loop variable alone.
  This is the half of `BusyEnds` that does not need fairness.

### For a host that waits (StreamProofs)

`HostWaits` says that "early" and "repeat" are not among the faults. It is
needed: a host that talks too early or sends a block twice gets something else
into the flash than its file.

`StreamInvariant`: `StreamInv` is inductive. `StreamInOrder` is not, because it
says nothing while the main loop writes. StreamInv has a part for each stretch
of the main loop (`PollOK`, `FlushOK`, `PrepareOK`, `TailOK`, `LastOK`,
`DoneOK`), and `ProtocolOK` says in which states and with which block under way
each stretch is reached. The core is `Collected(n)`: of what the host has sent,
the first n cells are in the flash, apart from those in `first_page`, then come
those in `page`, then those in `overflow`. A full page moves from `page` to the
flash, so the argument of `Collected` goes from `count` to `count + PAGE_SIZE`
before `count` does. There is a lemma for each step of the main loop, each
handler and each end of a transfer. The one of a block that arrives
(download.c:70-103) splits on whether it fills the page, and on whether the
header comes with it.

- `StreamCorrect`: `[]StreamInOrder`, from `PollOK`.
- `CompletionCorrect`: `CompletionIsTrue`, from `DoneOK` and `Written`.

### The images (SafeUpdateProofs)

`ImageInv` says of every cell of a first page that is in its place in the flash
that all of its image behind that page is in place too. It is inductive
together with StreamInv. An erase makes it weaker in its own region, by taking
the first page first, and the first page is programmed when `TailOK` and
`LastOK` have the rest in place. What needs an argument is the other region:
by `FlashChanges` a step that changes the flash is an `OwnChange`, inside the
region the file is for. The theorems presume:

- `RegionsApart`: the regions differ, and no file for the bootloader is longer
  than its region. The finding Oversize is what happens without. On the device
  APP_START is behind the end of the flash, and nothing is asked of the files.
- `DeliveredWhole`: the images the device is delivered with are whole.
- `LengthsCoverHeader` (refinement only): no header announces less than
  itself. The finding ShortLength is what happens without.
- `OneRegion` (DetachSafe only): all files the device accepts are for one
  region. The finding DirtyFlag is what happens without.

MCUpdate has TLC evaluate `HostWaits`, `RegionsApart`, `DeliveredWhole` and
`LengthsCoverHeader` in the instances of AppUpdate, MixedUpdate and BootUpdate.
`OneRegion` holds in the first and the last.

- `HeaderLastCorrect`: `[]HeaderLast`, from ImageInv.
- `DetachCorrect`: `[]DetachSafe`. `DetachInv` adds that in DFU mode the
  bootloader is whole or `dirty` is set and some file is for the bootloader;
  with OneRegion an update that clears `dirty` is then one of the bootloader.
- `SafeUpdateImplemented`: `Spec => ImplementsSafeUpdate`. `Init` implies the
  initial state of SafeUpdate (`AbstractInit`). `StepKinds` sorts the steps that
  change no image into restarts, main's choice (`AbstractStart`), the host's
  choice of a file, and stutters; a step that changes an image gives up the one
  in the region of the file, or commits the file there (`AbstractBecomes`).

### The flash being programmed, and the way back (RecoveryProofs)

`ProgramsErasedCorrect`: `Spec => []ProgramsErased` for every host that waits,
"repeat" included. `StreamInv` cannot be used: a block sent twice puts
something else into the flash than the file. `ErasedInv` is what of it does not
depend on the content. `Begun(count)`: once a page is flushed, the first page is
erased, and still erased when the other pages behind it are written
(`EraseKeepsBegun`, `CellKeepsAhead`). `Located`: the start address has been
looked at, before enough has arrived for a flush or a manifest (`BlockGathered`).
It also needs that a block read in `DOWNLOAD_SYNC` arrives there
(`BlockOnItsWay`), and that is where the host that does not wait breaks it.
`WritingErased` has the main loop's places between the erase and the last cell.

`RecoveryIsBootloader`: what the patient host does is what some host of
Bootloader may do, if that host may make these five requests
(`PatientRequests \subseteq HostRequests`), and the trouble is that of `Next`.
So `RecoverySpec => Spec`, and `RecoverySafe` (TypeOK and ProgramsErased)
follows. The run Recovery takes a smaller `HostRequests` to stay small, and
checks both properties itself.

### Power-up (PowerUpProofs)

`PowerInvariant`: `PowerInv` is inductive. `VectorsInv` says part by part which
of the vector tables is in use, what is in it and whether interrupts wait;
`BootInv` that the bootloader is whole wherever its flash is still needed, which
is before the RAM table is in use; updates happen after that, and a jump to an
erased bootloader does not get there but is `lost`;
`InterruptInv` when the USB interrupt is enabled and the library
up; `ListsInv` which callbacks are in their lists; `CableInv` that, as long as
the library is up, a difference between the connection and the cable is
announced by an event that waits. From it `ExceptionsHandledCorrect`,
`HostIsServedCorrect` (with `OneInList`, which follows the pointers of a list)
and `ConnectionCorrect`. PowerUp has no constants, so its run shows the same;
the proof says why.

### Words and printing (ConsoleProofs)

- `Log2IsHighest`: `util_log2` gives the highest bit of every word but zero.
  Smearing leaves the bits 0 to h, for the highest bit h (`SmearedIs`). A word
  stands for the sum of its powers of two (`Lowest`), and addition on paper
  keeps the sum of the columns modulo 2^32 (`CarriesKeepSum`). So the product
  with the De Bruijn number is 2^(h+1) times that number minus it, modulo 2^32
  (`ProductOfOnes`): 32 numbers are left, and the table has h at the highest
  five bits of each (`TableGivesBack`).
- `NumberOfNegated`: `~val + 1` is 2^32 minus val, and so is not zero for what
  is not zero, -2^31 included.
- `NumbersWholeCorrect`: `NumbersWhole`, for every number in every message. With
  the highest bit h the digits are h / 4 + 1 (`DigitsAre`), at most eight, so
  that sign and padding fit `int_buf` (`NumberFits`).

`ConsoleInv` adds to TerminatorAhead that the text built so far leaves room for
a terminator (`RoomLeft`), with the interrupt writing in between.
`InsideBufferCorrect` and `TerminatorAheadCorrect` follow for every size of the
buffer and every message. Of the formatting it takes only that a conversion is
one cell long at least, so that whatever fits leaves room (`PlacedFits`).

### The checksum (ChecksumProofs)

- `ChecksumIsCrcCorrect`: the shift register of util.c computes what the
  definition of CRC-32 says, for every length, place of the checksum and
  content. Eight turns of the register are one step of eight bits of the long
  division, reflected (`DivisionTurns`, `ByteDivided`); `CrcIsRegister` is the
  induction over the bytes; `ChecksumKeeps` shows that the three chained calls
  with the field erased in the middle are one call over the image.
- `DamageRefused`: damage to no more than four bytes in a row, all in the field
  of the checksum or all outside it, is seen (`BurstsOnly`). The argument goes
  backwards: turning the register can be undone, so two registers that differ
  before undamaged bytes differ after them, and a difference of up to 32 bits
  cannot cancel inside the burst (`TurnUndone`, `ByteUndone`, `BurstSeen`).
  Damage that straddles the edge of the field is in the run, and there is no
  theorem about it: the bytes beside the field are weighed by powers of x
  modulo the polynomial, which in a long image take every value, so that for
  some length it does cancel.
- `IntactAccepted`: what the build writes is accepted.

### Recursive functions (Recursion)

The number of a word, its carries, the lengths, the CRC and the division are
functions defined by recursion. Two things are shown about them once: that a
function with the step given as a function exists up to each number
(`RecursionDefined`), and induction, with the hypothesis as the set of the numbers it holds for
(`InductionUpTo`, from the least number outside the set). The library's
theorems take operators for both, which the provers cannot instantiate.

### Only model-checked

- `BusyEnds`, `UpdateCompletes`, `ConnectsToBus`, `PrintingEnds`: liveness
  under fairness is out of the prover's reach. Of `BusyEnds` the part that is
  safety, `WorkShrinks`, is proved; of `PrintingEnds` that a terminator is
  always ahead (`TerminatorAhead`).
- `AcceptsExactlyIntact` for damage that straddles the edge of the field.

## 5. Not modelled

- Clocks, caches, FPU and the pads (`init_system` behind `__enable_irq`,
  `jump_device`): registers without a condition on them.
- The NVIC beyond the one interrupt of the program; with it bootloader.c:48.
- Registration of callbacks for events and of further strings: never called.
- Contents of descriptors and replies, and of messages: data no property is
  about. `app_update`, `current_page`, `sequence_num`, `enumeration_complete`,
  `desc_index_status` and `verr` are never read.
- `util_us_delay`, whose length no property depends on; the makefiles.

## 6. What is left

What a next step could be:

1. What `HeaderLast` becomes without `HostWaits`. It is false for a host that
   repeats a block or talks too early. For the one that repeats, `ErasedInv` is
   what of `StreamInv` survives; for the one that talks too early, only the
   bounds of `TypeOK` are known to.
2. Finer steps at download.c:119-121 and 147-152 for a host that does not wait.
3. Bus events in the composition of `Recovery`, if `dfu.c` ever listens to
   them.
