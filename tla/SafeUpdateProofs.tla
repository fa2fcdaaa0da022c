--------------------------- MODULE SafeUpdateProofs ---------------------------
(***************************************************************************)
(* What an update does to the images in the flash: theorems about          *)
(* HeaderLast, DetachSafe and the refinement of SafeUpdate, for a host     *)
(* that waits and files that fit.                                          *)
(***************************************************************************)
EXTENDS StreamProofs

-----------------------------------------------------------------------------
(* What a device is used with.                                             *)

(* The files that can be in its flash.                                     *)
Known == Offered \cup ({InitialBootloader, InitialApp} \ {NoFile})

IsFor(f, base) == FileHeader[f].magic /\ FileHeader[f].start = base

(* The two regions differ, and no bootloader reaches into the application's*)
(* (or the application's is not in the flash, as on the device).           *)
RegionsApart ==
    /\ APP_START # BOOTLOADER_START
    /\ \/ FlashEnd <= APP_START
       \/ \A f \in Offered : IsFor(f, BOOTLOADER_START) => FileSize[f] <= FLASH_START

(* The length in the header of f ends where f and its region end.          *)
WithinRegion(base, f) ==
    base = BOOTLOADER_START => FileHeader[f].length <= FLASH_START \/ FlashEnd <= APP_START

FitsAt(base, f) ==
    /\ FileHeader[f].length <= FileSize[f] /\ base + FileHeader[f].length <= FlashEnd
    /\ WithinRegion(base, f)

(* The device has been delivered with whole images.                        *)
DeliveredWhole ==
    /\ FitsAt(BOOTLOADER_START, InitialBootloader)
    /\ InitialApp # NoFile => FitsAt(APP_START, InitialApp)

(* The length in a header counts the header too.                           *)
LengthsCoverHeader == \A f \in Known : FileHeader[f].length >= MINIMUM_SIZE

(* All files the device accepts are for the same region.                   *)
OneRegion ==
    \A f, g \in Offered : \A base, other \in Regions :
        IsFor(f, base) /\ IsFor(g, other) => base = other

-----------------------------------------------------------------------------
(* The images in the flash.                                                *)

RestInPlace(base, f) ==
    \A o \in PAGE_SIZE .. FileHeader[f].length - 1 :
        base + o \in FlashAddress /\ flash[base + o] = <<f, o>>

(* Wherever a cell of the first page of an image is in place, the rest of  *)
(* the image behind that page is, inside the region.                       *)
ImageInv ==
    \A base \in Regions, k \in PageIndex, f \in File :
        base + k \in FlashAddress /\ flash[base + k] = <<f, k>> =>
            f \in Known /\ WithinRegion(base, f) /\ RestInPlace(base, f)

(* In DFU mode the bootloader is whole, or the device knows it is not.     *)
DetachInv ==
    Connected =>
        \/ BootloaderRuns
        \/ dirty /\ \E f \in Offered : IsFor(f, BOOTLOADER_START)

-----------------------------------------------------------------------------
(* A step that changes the flash.                                          *)

InRegion(base, x) == base <= x /\ (base = BOOTLOADER_START => x < APP_START)

(* No cell of the first page is a cell of a file.                          *)
StartErased ==
    \A k \in PageIndex :
        image_info.start + k \in FlashAddress => flash[image_info.start + k][1] = NoFile

(* The first page is being written, with the rest in place.                *)
StartComing ==
    /\ \A k \in PageIndex : flash[image_info.start + k] \in {<<file, k>>, Blank, Torn}
    /\ RestInPlace(image_info.start, file) /\ WithinRegion(image_info.start, file)

OwnChange ==
    /\ Connected /\ Connected' /\ dirty'
    /\ Accepted /\ file \in Offered /\ UNCHANGED <<file, image_info>>
    /\ \A x \in FlashAddress : flash'[x] # flash[x] => InRegion(image_info.start, x)
    /\ StartErased' \/ (StartComing /\ StartComing')

(* A page that begins before the end of the file is in the file's region.  *)
LEMMA PageInRegion ==
    ASSUME TypeOK, RegionsApart, Accepted, Session,
           NEW c \in Nat, c % PAGE_SIZE = 0, c < sent
    PROVE  \A x \in FlashAddress :
               x \in image_info.start + c .. image_info.start + c + PAGE_SIZE - 1 =>
                   InRegion(image_info.start, x)
  <1>1. /\ image_info.start \in Nat /\ FlashAddress = FLASH_START .. FlashEnd - 1
        /\ FlashEnd \in Nat
    BY StartFacts, FlashFacts
  <1>2. CASE FlashEnd <= APP_START \/ image_info.start # BOOTLOADER_START
    BY <1>1, <1>2, SizeFacts DEF InRegion
  <1>3. CASE ~(FlashEnd <= APP_START) /\ image_info.start = BOOTLOADER_START
    <2>1. FileSize[file] <= FLASH_START /\ FileSize[file] \in Nat
      BY <1>3, FileAssumption, HostAssumption DEF RegionsApart, Session, Accepted, IsFor
    <2>2. c < FLASH_START
      BY <2>1, SizeFacts DEF Session, TypeOK, HostOK
    <2>3. c + PAGE_SIZE <= FLASH_START
      BY <2>2, AlignedFacts, FlashFacts, SizeFacts
    <2> QED
      BY <1>1, <1>3, <2>3, SizeFacts DEF InRegion, BOOTLOADER_START, APP_START
  <1> QED
    BY <1>2, <1>3

LEMMA CellsDiffer ==
    \A f \in File, n \in Nat : <<f, n>> # Blank /\ <<f, n>> # Torn
  BY FileAssumption DEF Blank, Torn

LEMMA LengthFacts ==
    ASSUME NEW f \in File
    PROVE  FileHeader[f].length \in 0 .. UINT32_MAX /\ FileSize[f] \in Nat
  BY FileAssumption DEF Header

(* A length that has come is the length of an image inside its region.     *)
LEMMA CompleteFits ==
    ASSUME TypeOK, RegionsApart, Accepted, Session, Complete
    PROVE  FileHeader[file].length <= sent /\ WithinRegion(image_info.start, file)
  <1>1. /\ file \in File /\ FileHeader[file].length \in Nat /\ FileSize[file] \in Nat
        /\ sent \in Nat /\ FileHeader[file].length <= sent /\ sent <= FileSize[file]
    BY HostAssumption, LengthFacts DEF Session, Complete, Accepted, TypeOK, HostOK
  <1>2. ASSUME image_info.start = BOOTLOADER_START, ~(FlashEnd <= APP_START)
        PROVE  FileSize[file] <= FLASH_START
    BY <1>2 DEF RegionsApart, IsFor, Accepted, Session
  <1> QED
    BY <1>1, <1>2, SizeFacts DEF WithinRegion

LEMMA LastComes == RegionsApart /\ StreamInv /\ pc = "firstProgram" => StartComing
  <1> SUFFICES ASSUME RegionsApart, StreamInv, pc = "firstProgram"
               PROVE  StartComing
    OBVIOUS
  <1>1. /\ TypeOK /\ Session /\ Accepted /\ Complete
        /\ \A k \in PageIndex : first_page[k] = IF k < sent THEN <<file, k>> ELSE Blank
        /\ \A o \in PAGE_SIZE .. sent - 1 :
               /\ image_info.start + o \in FlashAddress
               /\ flash[image_info.start + o] = <<file, o>>
        /\ \A k \in PageIndex :
               flash[image_info.start + k] \in
                   IF k < windex THEN {first_page[k], Torn} ELSE {Blank}
    BY DEF StreamInv, TailOK, LastOK
  <1>2. FileHeader[file].length <= sent /\ WithinRegion(image_info.start, file)
    BY <1>1, CompleteFits
  <1>3. RestInPlace(image_info.start, file)
    <2>1. FileHeader[file].length \in Nat /\ sent \in Nat
      BY <1>1, HostAssumption, LengthFacts DEF Session, TypeOK, HostOK
    <2>2. PAGE_SIZE .. FileHeader[file].length - 1 \subseteq PAGE_SIZE .. sent - 1
      BY <1>2, <2>1, SizeFacts
    <2> QED
      BY <1>1, <2>2 DEF RestInPlace
  <1>4. \A k \in PageIndex : flash[image_info.start + k] \in {<<file, k>>, Blank, Torn}
    <2> SUFFICES ASSUME NEW k \in PageIndex
                 PROVE  flash[image_info.start + k] \in {<<file, k>>, Blank, Torn}
      OBVIOUS
    <2>1. first_page[k] \in {<<file, k>>, Blank}
      BY <1>1
    <2> QED
      BY <1>1, <2>1
  <1> QED
    BY <1>2, <1>3, <1>4 DEF StartComing

LEMMA LastComesNext ==
    (RegionsApart /\ StreamInv /\ pc = "firstProgram" => StartComing)'
  BY LastComes, PTL

(* What is before the page at a is kept.                                   *)
LEMMA StartStaysErased ==
    ASSUME TypeOK, Accepted, UNCHANGED image_info, FirstPageErased,
           NEW c \in Nat, c >= PAGE_SIZE,
           \A x \in FlashAddress : x < image_info.start + c => flash'[x] = flash[x]
    PROVE  StartErased'
  <1>1. image_info.start \in Nat
    BY StartFacts
  <1>2. ASSUME NEW k \in PageIndex, image_info.start + k \in FlashAddress
        PROVE  flash'[image_info.start + k][1] = NoFile
    <2>1. image_info.start + k < image_info.start + c
      BY <1>1, SizeFacts DEF PageIndex
    <2>2. flash'[image_info.start + k] = Blank
      BY <1>2, <2>1 DEF FirstPageErased
    <2> QED
      BY <2>2 DEF Blank
  <1> QED
    BY <1>2 DEF StartErased

(* One step of an erase of the page c cells into the image.                *)
LEMMA EraseStep ==
    ASSUME TypeOK, RegionsApart, Accepted, Session, UNCHANGED <<file, image_info>>,
           Connected, Connected', dirty', flash' # flash,
           NEW c \in Nat, c % PAGE_SIZE = 0, c < sent, c > 0 => FirstPageErased,
           EraseBegins(image_info.start + c) \/ EraseSucceeds(image_info.start + c)
    PROVE  OwnChange
  <1> DEFINE a == image_info.start + c
  <1>1. /\ image_info.start \in Nat /\ a \in Nat /\ a % PAGE_SIZE = 0
    BY StartFacts, AlignedFacts
  <1>2. \A x \in FlashAddress : x \notin a .. a + PAGE_SIZE - 1 => flash'[x] = flash[x]
    BY <1>1, EraseOutcome
  <1>3. \A x \in FlashAddress : flash'[x] # flash[x] => InRegion(image_info.start, x)
    BY <1>2, PageInRegion
  <1>4. StartErased'
    <2>1. CASE c = 0
      <3>1. a = image_info.start
        BY <1>1, <2>1
      <3>2. PICK cell \in {Blank, Torn} : flash' = PageSetTo(a, cell)
        BY DEF EraseBegins, EraseSucceeds
      <3>3. ASSUME NEW k \in PageIndex, image_info.start + k \in FlashAddress
            PROVE  flash'[image_info.start + k][1] = NoFile
        <4>1. image_info.start + k \in a .. a + PAGE_SIZE - 1
          BY <1>1, <3>1, SizeFacts DEF PageIndex
        <4>2. flash'[image_info.start + k] = cell
          BY <1>1, <3>2, <3>3, <4>1, PageFacts DEF PageSetTo
        <4> QED
          BY <3>2, <4>2 DEF Blank, Torn
      <3> QED
        BY <3>3 DEF StartErased
    <2>2. CASE c > 0
      <3>1. c >= PAGE_SIZE
        BY <2>2, AlignedFacts, SizeFacts
      <3>2. \A x \in FlashAddress : x < image_info.start + c => flash'[x] = flash[x]
        BY <1>1, <1>2, FlashFacts, SizeFacts
      <3> QED
        BY <2>2, <3>1, <3>2, StartStaysErased
    <2> QED
      BY <2>1, <2>2
  <1> QED
    BY <1>3, <1>4 DEF OwnChange, Session

(* One cell of a page behind the first is programmed.                      *)
LEMMA ProgramStep ==
    ASSUME TypeOK, RegionsApart, Accepted, Session, FlashProgramCell,
           UNCHANGED <<file, image_info>>, Connected, Connected', dirty',
           count > 0, count % PAGE_SIZE = 0, count < sent, Behind(count),
           address = image_info.start + count
    PROVE  OwnChange
  <1>1. /\ image_info.start \in Nat /\ count \in Nat /\ count >= PAGE_SIZE /\ FirstPageErased
        /\ address \in Nat /\ PAGE_ALIGN(address) = address
    BY StartFacts, NextPageFacts DEF TypeOK, DownloadOK, Behind
  <1>2. /\ windex \in PageIndex
        /\ \A x \in FlashAddress : x # address + windex => flash'[x] = flash[x]
    BY <1>1, ProgramOutcome DEF FlashProgramCell
  <1>3. \A x \in FlashAddress : flash'[x] # flash[x] =>
            x \in image_info.start + count .. image_info.start + count + PAGE_SIZE - 1
    BY <1>1, <1>2, FlashFacts, SizeFacts DEF PageIndex
  <1>4. \A x \in FlashAddress : flash'[x] # flash[x] => InRegion(image_info.start, x)
    BY <1>1, <1>3, PageInRegion
  <1>5. \A x \in FlashAddress : x < image_info.start + count => flash'[x] = flash[x]
    BY <1>1, <1>3, FlashFacts, SizeFacts
  <1>6. StartErased'
    BY <1>1, <1>5, StartStaysErased
  <1> QED
    BY <1>4, <1>6 DEF OwnChange, Session

(* One cell of the first page is programmed.                               *)
LEMMA FirstProgramStep ==
    ASSUME RegionsApart, StreamInv, StreamInv', FlashProgramCell, pc = "firstProgram",
           UNCHANGED hostVars
    PROVE  OwnChange
  <1>1. /\ TypeOK /\ Accepted /\ Session /\ Complete /\ dirty
        /\ address = image_info.start /\ sent \in Nat
        /\ UNCHANGED <<pc, dirty, file, image_info>>
    BY DEF StreamInv, TailOK, FlashProgramCell, hostVars, downloadVars, TypeOK, HostOK
  <1>2. StartComing /\ StartComing'
    BY <1>1, LastComes, LastComesNext
  <1>3. image_info.start \in Nat /\ PAGE_ALIGN(image_info.start) = image_info.start
    BY <1>1, StartFacts
  <1>4. /\ windex \in PageIndex
        /\ \A x \in FlashAddress : x # image_info.start + windex => flash'[x] = flash[x]
    BY <1>1, <1>3, ProgramOutcome DEF FlashProgramCell
  <1>5. 0 < sent /\ 0 \in Nat /\ 0 % PAGE_SIZE = 0
    BY <1>1, SizeFacts, SizeAssumption DEF Complete, MINIMUM_SIZE
  <1>6. \A x \in FlashAddress : x \in image_info.start + 0 .. image_info.start + 0 + PAGE_SIZE - 1
                                    => InRegion(image_info.start, x)
    BY <1>1, <1>5, PageInRegion
  <1>7. \A x \in FlashAddress : flash'[x] # flash[x] => InRegion(image_info.start, x)
    <2>1. image_info.start + windex \in
              image_info.start + 0 .. image_info.start + 0 + PAGE_SIZE - 1
      BY <1>3, <1>4, SizeFacts DEF PageIndex
    <2> QED
      BY <1>4, <1>6, <2>1
  <1> QED
    BY <1>1, <1>2, <1>7 DEF OwnChange, Session, Connected

LEMMA FlashChanges ==
    ASSUME RegionsApart, StreamInv, StreamInv', [Next]_vars, flash' # flash
    PROVE  OwnChange
  <1>1. DownloadStep /\ UNCHANGED <<file, sent>> /\ UNCHANGED hostVars
    <2>1. MainStep
      BY DEF Next, usb_handler, Setup, usb_util_endpoint_callback, AppEntersBootloader,
             PowerCycle, Reset, vars
    <2> QED
      BY <2>1 DEF MainStep, jump, Reset, DownloadStep, hostVars
  <1>2. TypeOK
    BY DEF StreamInv
  <1>3. CASE BusyErase \/ BusyErased
    <2>1. /\ Collected(count) /\ page_waiting_to_flush /\ UNCHANGED image_info
          /\ Connected /\ pc' # "reset" /\ pc' # "app" /\ pc' # "dead"
          /\ pc' \in {"busyErase", "busyProgram", "busyAdvance"}
      BY <1>3 DEF StreamInv, FlushOK, BusyErase, BusyErased, CallErase, CallProgram, Connected,
                  downloadVars
    <2>2. Accepted /\ page_count = PAGE_SIZE
      BY <1>2, <2>1, WaitingPage
    <2>3. /\ Session /\ count \in Nat /\ count % PAGE_SIZE = 0 /\ count < sent
          /\ count > 0 => FirstPageErased
      BY <1>2, <2>1, <2>2, SizeFacts DEF Collected, Behind, TypeOK, DownloadOK
    <2>4. Word(image_info.start + count) = image_info.start + count
      BY <1>2, <2>1, <2>2, NextPageFacts DEF Collected
    <2>5. \/ EraseBegins(image_info.start + count)
          \/ EraseSucceeds(image_info.start + count)
      BY <1>3, <2>4 DEF BusyErase, BusyErased, CallErase, StreamInv, FlushOK
    <2>6. dirty'
      BY <1>3 DEF BusyErase, BusyErased, StreamInv, FlushOK
    <2>7. Connected'
      BY <2>1 DEF Connected
    <2> QED
      BY <1>1, <1>2, <2>1, <2>2, <2>3, <2>5, <2>6, <2>7, EraseStep
  <1>4. CASE ManifestFirst \/ ManifestFirstErased
    <2>1. /\ Accepted /\ Session /\ Complete
      BY <1>4, ManifestBegins DEF ManifestFirst, ManifestFirstErased, StreamInv, TailOK
    <2>2. /\ EraseBegins(image_info.start) \/ EraseSucceeds(image_info.start)
          /\ UNCHANGED image_info /\ dirty' /\ Connected
          /\ pc' \in {"firstErase", "tail"}
      BY <1>4 DEF ManifestFirst, ManifestFirstErased, CallErase, StreamInv, TailOK, Connected,
                  downloadVars
    <2>3. image_info.start + 0 = image_info.start
      BY <1>2, <2>1, StartFacts
    <2>4. 0 < sent /\ 0 \in Nat /\ 0 % PAGE_SIZE = 0
      BY <1>2, <2>1, SizeFacts, SizeAssumption DEF Complete, MINIMUM_SIZE, TypeOK, HostOK
    <2>5. Connected'
      BY <2>2 DEF Connected
    <2> QED
      BY <1>1, <1>2, <2>1, <2>2, <2>3, <2>4, <2>5, EraseStep
  <1>5. CASE ManifestTail
    <2>1. page_count # 0
      BY <1>5 DEF ManifestTail
    <2>2. pc = "manifest" /\ count # 0
      BY <1>5, <2>1 DEF ManifestTail, StreamInv, TailOK, HeldBack
    <2>3. /\ Session /\ Accepted /\ Collected(count) /\ count \in Nat /\ count < sent
      BY <1>2, <2>1, <2>2, ManifestBegins
    <2>4. count % PAGE_SIZE = 0 /\ FirstPageErased /\ dirty
      BY <2>2, <2>3 DEF Collected, Behind
    <2>5. Word(image_info.start + count) = image_info.start + count
      BY <1>2, <2>3, NextPageFacts DEF Collected
    <2>6. /\ EraseBegins(image_info.start + count) /\ pc' = "tailErase"
          /\ UNCHANGED <<dirty, image_info>>
      BY <1>5, <2>1, <2>5 DEF ManifestTail, CallErase
    <2>7. Connected /\ Connected'
      BY <2>2, <2>6 DEF Connected
    <2> QED
      BY <1>1, <1>2, <2>3, <2>4, <2>6, <2>7, EraseStep
  <1>6. CASE ManifestTailErased
    <2>1. /\ Session /\ Accepted /\ dirty /\ count > 0 /\ count % PAGE_SIZE = 0
          /\ Behind(count) /\ page_count \in 1 .. PAGE_SIZE - 1 /\ sent = count + page_count
          /\ address = image_info.start + count
      BY <1>6 DEF ManifestTailErased, StreamInv, TailOK
    <2>2. count \in Nat /\ count < sent /\ FirstPageErased
      BY <1>2, <2>1, SizeFacts DEF TypeOK, DownloadOK, Behind
    <2>3. /\ EraseSucceeds(image_info.start + count) /\ UNCHANGED <<dirty, image_info>>
          /\ pc = "tailErase" /\ pc' = "tailProgram"
      BY <1>6, <2>1 DEF ManifestTailErased, CallProgram, downloadVars
    <2>4. Connected /\ Connected'
      BY <2>3 DEF Connected
    <2> QED
      BY <1>1, <1>2, <2>1, <2>2, <2>3, <2>4, EraseStep
  <1>7. CASE FlashProgramCell
    <2>1. /\ pc \in {"busyProgram", "tailProgram", "firstProgram"}
          /\ UNCHANGED <<pc, dirty, image_info>>
      BY <1>7 DEF FlashProgramCell, Programming, downloadVars
    <2>2. Connected /\ Connected'
      BY <2>1 DEF Connected
    <2>3. CASE pc = "busyProgram"
      <3>1. /\ Collected(count) /\ page_waiting_to_flush /\ dirty /\ count > 0
            /\ address = image_info.start + count
        BY <2>3 DEF StreamInv, FlushOK
      <3>2. Accepted /\ page_count = PAGE_SIZE
        BY <1>2, <3>1, WaitingPage
      <3>3. Session /\ count % PAGE_SIZE = 0 /\ count < sent /\ Behind(count)
        BY <1>2, <3>1, <3>2, SizeFacts DEF Collected, TypeOK, DownloadOK
      <3> QED
        BY <1>1, <1>2, <1>7, <2>1, <2>2, <3>1, <3>2, <3>3, ProgramStep
    <2>4. CASE pc = "tailProgram"
      <3>1. /\ Session /\ Accepted /\ dirty /\ count > 0 /\ count % PAGE_SIZE = 0
            /\ Behind(count) /\ page_count \in 1 .. PAGE_SIZE - 1 /\ sent = count + page_count
            /\ address = image_info.start + count
        BY <2>4 DEF StreamInv, TailOK
      <3>2. count < sent
        BY <1>2, <3>1, SizeFacts DEF TypeOK, DownloadOK
      <3> QED
        BY <1>1, <1>2, <1>7, <2>1, <2>2, <3>1, <3>2, ProgramStep
    <2>5. CASE pc = "firstProgram"
      BY <1>1, <1>7, <2>5, FirstProgramStep
    <2> QED
      BY <2>1, <2>3, <2>4, <2>5
  <1> QED
    BY <1>1, <1>3, <1>4, <1>5, <1>6, <1>7
       DEF DownloadStep, dfu_download_busy, BusyProgrammed, BusyNextPage, BusyPublish,
           dfu_download_manifest, ManifestTailProgrammed, ManifestFirstProgrammed,
           ManifestPublish, FlashControlStep, FlashEraseFails, FlashProgramFails,
           ProgramSucceeds, EraseFails, ProgramFails

-----------------------------------------------------------------------------
(* The other region.                                                       *)

LEMMA RegionFacts ==
    ASSUME RegionsApart
    PROVE  /\ FLASH_START >= PAGE_SIZE /\ APP_START = BOOTLOADER_START + FLASH_START
           /\ BOOTLOADER_START = FLASH_START /\ APP_START > BOOTLOADER_START
  <1>1. 0 % PAGE_SIZE = 0 /\ 0 < FLASH_START
    BY SizeFacts DEF RegionsApart, APP_START, BOOTLOADER_START
  <1>2. 0 + PAGE_SIZE <= FLASH_START
    BY <1>1, AlignedFacts, FlashFacts, SizeFacts
  <1> QED
    BY <1>1, <1>2, SizeFacts DEF APP_START, BOOTLOADER_START

LEMMA OtherRegionKept ==
    ASSUME RegionsApart, OwnChange, NEW base \in Regions, base # image_info.start,
           NEW o \in Nat, base + o \in FlashAddress,
           base = BOOTLOADER_START => o < FLASH_START \/ FlashEnd <= APP_START
    PROVE  flash'[base + o] = flash[base + o]
  <1>1. image_info.start \in Regions /\ base \in Nat
    BY FlashFacts DEF OwnChange, Accepted
  <1>2. CASE base = BOOTLOADER_START
    <2>1. image_info.start = APP_START
      BY <1>1, <1>2 DEF Regions
    <2>2. base + o < APP_START
      BY <1>1, <1>2, RegionFacts, FlashFacts, SizeFacts
    <2>3. ~InRegion(image_info.start, base + o)
      BY <1>1, <2>1, <2>2, SizeFacts DEF InRegion
    <2> QED
      BY <2>3 DEF OwnChange
  <1>3. CASE base = APP_START
    <2>1. image_info.start = BOOTLOADER_START
      BY <1>1, <1>3 DEF Regions
    <2>2. ~InRegion(image_info.start, base + o)
      BY <1>1, <1>3, <2>1, SizeFacts DEF InRegion
    <2> QED
      BY <2>2 DEF OwnChange
  <1> QED
    BY <1>2, <1>3 DEF Regions

-----------------------------------------------------------------------------
(* ImageInv.                                                               *)

LEMMA DeliveredFlash ==
    ASSUME Init, NEW a \in FlashAddress
    PROVE  flash[a] =
               IF InitialApp # NoFile /\ a - APP_START \in 0 .. FileSize[InitialApp] - 1
               THEN <<InitialApp, a - APP_START>>
               ELSE IF a - BOOTLOADER_START \in 0 .. FileSize[InitialBootloader] - 1
                    THEN <<InitialBootloader, a - BOOTLOADER_START>> ELSE Blank
  BY InitialAssumption, FileAssumption DEF Init, Installed

(* Before the application's region, the bootloader or nothing.             *)
LEMMA DeliveredBootloader ==
    ASSUME Init, NEW o \in Nat, BOOTLOADER_START + o \in FlashAddress,
           BOOTLOADER_START + o < APP_START
    PROVE  flash[BOOTLOADER_START + o] =
               IF o < FileSize[InitialBootloader] THEN <<InitialBootloader, o>> ELSE Blank
  <1> DEFINE a == BOOTLOADER_START + o
  <1>1. a - APP_START < 0 /\ a - BOOTLOADER_START = o
    BY SizeFacts
  <1>2. FileSize[InitialBootloader] \in Nat
    BY InitialAssumption, LengthFacts
  <1>3. a - APP_START \notin 0 .. FileSize[InitialApp] - 1
    BY <1>1
  <1>4. flash[a] =
            IF a - BOOTLOADER_START \in 0 .. FileSize[InitialBootloader] - 1
            THEN <<InitialBootloader, a - BOOTLOADER_START>> ELSE Blank
    BY <1>3, DeliveredFlash
  <1> QED
    BY <1>1, <1>2, <1>4

(* From there on, the application or something out of place.               *)
LEMMA DeliveredApp ==
    ASSUME Init, NEW o \in Nat, APP_START + o \in FlashAddress
    PROVE  IF InitialApp # NoFile /\ o < FileSize[InitialApp]
           THEN flash[APP_START + o] = <<InitialApp, o>>
           ELSE flash[APP_START + o] \in
                    {Blank, <<InitialBootloader, (APP_START + o) - BOOTLOADER_START>>}
  <1>1. (APP_START + o) - APP_START = o
    BY SizeFacts
  <1>2. InitialApp # NoFile => FileSize[InitialApp] \in Nat
    BY InitialAssumption, LengthFacts
  <1>3. flash[APP_START + o] =
            IF InitialApp # NoFile /\ o \in 0 .. FileSize[InitialApp] - 1
            THEN <<InitialApp, o>>
            ELSE IF (APP_START + o) - BOOTLOADER_START \in 0 .. FileSize[InitialBootloader] - 1
                 THEN <<InitialBootloader, (APP_START + o) - BOOTLOADER_START>> ELSE Blank
    BY <1>1, DeliveredFlash
  <1>4. InitialApp # NoFile =>
            (o < FileSize[InitialApp] <=> o \in 0 .. FileSize[InitialApp] - 1)
    BY <1>2
  <1> QED
    BY <1>3, <1>4

LEMMA ImageInit ==
    ASSUME RegionsApart, DeliveredWhole, Init
    PROVE  ImageInv
  <1> SUFFICES ASSUME NEW base \in Regions, NEW k \in PageIndex, NEW f \in File,
                      base + k \in FlashAddress, flash[base + k] = <<f, k>>
               PROVE  f \in Known /\ WithinRegion(base, f) /\ RestInPlace(base, f)
    BY DEF ImageInv
  <1>1. base \in Nat /\ k \in Nat /\ k < PAGE_SIZE
    BY FlashFacts, SizeFacts DEF PageIndex
  <1>2. <<f, k>> # Blank
    BY <1>1, CellsDiffer
  <1>3. FileHeader[f].length \in Nat /\ FileSize[f] \in Nat
    BY LengthFacts
  <1>4. /\ FLASH_START >= PAGE_SIZE /\ APP_START = BOOTLOADER_START + FLASH_START
        /\ BOOTLOADER_START = FLASH_START /\ APP_START > BOOTLOADER_START
    BY RegionFacts
  <1>5. /\ FlashAddress = FLASH_START .. FlashEnd - 1 /\ FlashEnd \in Nat
        /\ FLASH_START \in Nat /\ PAGE_SIZE \in Nat /\ APP_START \in Nat
    BY FlashFacts, SizeFacts
  <1>6. CASE base = BOOTLOADER_START
    <2>1. base + k < APP_START
      BY <1>1, <1>4, <1>5, <1>6
    <2>2. flash[base + k] \in {<<InitialBootloader, k>>, Blank}
      BY <1>1, <1>6, <2>1, DeliveredBootloader
    <2>3. f = InitialBootloader
      BY <1>2, <2>2
    <2>4. FitsAt(base, f)
      BY <1>6, <2>3 DEF DeliveredWhole
    <2>5. ASSUME NEW o \in PAGE_SIZE .. FileHeader[f].length - 1
          PROVE  base + o \in FlashAddress /\ flash[base + o] = <<f, o>>
      <3>1. base + o \in FlashAddress /\ o \in Nat /\ o < FileSize[f]
        BY <1>3, <1>4, <1>5, <1>6, <2>4, <2>5 DEF FitsAt
      <3>2. base + o < APP_START
        <4>1. CASE FileHeader[f].length <= FLASH_START
          BY <1>3, <1>4, <1>5, <1>6, <2>5, <4>1
        <4>2. CASE FlashEnd <= APP_START
          BY <1>5, <3>1, <4>2
        <4> QED
          BY <1>6, <2>4, <4>1, <4>2 DEF FitsAt, WithinRegion
      <3>3. flash[base + o] = <<InitialBootloader, o>>
        BY <1>6, <2>3, <3>1, <3>2, DeliveredBootloader
      <3> QED
        BY <2>3, <3>1, <3>3
    <2>6. f \in Known
      BY <2>3, InitialAssumption, FileAssumption DEF Known
    <2> QED
      BY <2>4, <2>5, <2>6 DEF FitsAt, RestInPlace
  <1>7. CASE base = APP_START
    <2>1. (APP_START + k) - BOOTLOADER_START # k
      BY <1>1, <1>4, <1>5
    <2>2. <<InitialBootloader, (APP_START + k) - BOOTLOADER_START>> # <<f, k>>
      BY <2>1
    <2>3. InitialApp # NoFile /\ flash[base + k] = <<InitialApp, k>>
      BY <1>1, <1>2, <1>7, <2>2, DeliveredApp
    <2>4. InitialApp # NoFile /\ f = InitialApp
      BY <2>3
    <2>5. FitsAt(base, f)
      BY <1>7, <2>4 DEF DeliveredWhole
    <2>6. ASSUME NEW o \in PAGE_SIZE .. FileHeader[f].length - 1
          PROVE  base + o \in FlashAddress /\ flash[base + o] = <<f, o>>
      <3>1. base + o \in FlashAddress /\ o \in Nat /\ o < FileSize[f]
        BY <1>3, <1>4, <1>5, <1>7, <2>5, <2>6 DEF FitsAt
      <3>2. flash[base + o] = <<InitialApp, o>>
        BY <1>7, <2>4, <3>1, DeliveredApp
      <3> QED
        BY <2>4, <3>1, <3>2
    <2>7. f \in Known
      BY <2>4, InitialAssumption, FileAssumption DEF Known
    <2> QED
      BY <2>5, <2>6, <2>7 DEF FitsAt, RestInPlace
  <1> QED
    BY <1>6, <1>7 DEF Regions

LEMMA ImageNext ==
    ASSUME RegionsApart, StreamInv, StreamInv', ImageInv, [Next]_vars
    PROVE  ImageInv'
  <1>1. CASE flash' = flash
    BY <1>1 DEF ImageInv, RestInPlace
  <1>2. CASE flash' # flash
    <2>1. OwnChange
      BY <1>2, FlashChanges
    <2> SUFFICES ASSUME NEW base \in Regions, NEW k \in PageIndex, NEW f \in File,
                        base + k \in FlashAddress, flash'[base + k] = <<f, k>>
                 PROVE  f \in Known /\ WithinRegion(base, f) /\ RestInPlace(base, f)'
      BY DEF ImageInv
    <2>2. CASE base = image_info.start
      <3>1. image_info' = image_info /\ file' = file /\ file \in Known
        BY <2>1 DEF OwnChange, Known
      <3>2. ~StartErased'
        BY <2>2, <3>1, FileAssumption DEF StartErased
      <3>3. StartComing'
        BY <2>1, <3>2 DEF OwnChange
      <3>4. f = file
        BY <2>2, <3>1, <3>3, CellsDiffer, SizeFacts DEF StartComing, PageIndex
      <3> QED
        BY <2>2, <3>1, <3>3, <3>4 DEF StartComing
    <2>3. CASE base # image_info.start
      <3>1. k \in Nat /\ k < FLASH_START
        BY RegionFacts, SizeFacts DEF PageIndex
      <3>2. flash[base + k] = <<f, k>>
        BY <2>1, <2>3, <3>1, OtherRegionKept
      <3>3. f \in Known /\ WithinRegion(base, f) /\ RestInPlace(base, f)
        BY <3>2 DEF ImageInv
      <3>4. ASSUME NEW o \in PAGE_SIZE .. FileHeader[f].length - 1
            PROVE  base + o \in FlashAddress /\ flash'[base + o] = <<f, o>>
        <4>1. base + o \in FlashAddress /\ flash[base + o] = <<f, o>>
          BY <3>3 DEF RestInPlace
        <4>2. o \in Nat /\ o < FileHeader[f].length /\ FileHeader[f].length \in Nat
          BY LengthFacts, SizeFacts
        <4>3. base = BOOTLOADER_START => o < FLASH_START \/ FlashEnd <= APP_START
          BY <3>3, <4>2, SizeFacts DEF WithinRegion
        <4> QED
          BY <2>1, <2>3, <4>1, <4>2, <4>3, OtherRegionKept
      <3> QED
        BY <3>3, <3>4 DEF RestInPlace
    <2> QED
      BY <2>2, <2>3
  <1> QED
    BY <1>1, <1>2

(* If the host waits and the images fit their regions, no cell of a first  *)
(* page is in the flash without all that is behind that page: ImageInv     *)
(* (download.c:105-199).                                                   *)
THEOREM ImageInvariant ==
    ASSUME HostWaits, RegionsApart, DeliveredWhole
    PROVE  Spec => []ImageInv
  <1>1. Init => ImageInv
    BY ImageInit
  <1>2. StreamInv /\ StreamInv' /\ ImageInv /\ [Next]_vars => ImageInv'
    BY ImageNext
  <1> QED
    BY <1>1, <1>2, StreamInvariant, PTL DEF Spec

(* The first page of an image comes last (download.c:119-121, 185): no     *)
(* cell of it is in the flash without the rest of that image behind it.    *)
THEOREM HeaderLastCorrect ==
    ASSUME HostWaits, RegionsApart, DeliveredWhole
    PROVE  Spec => []HeaderLast
  <1>1. StreamInv /\ ImageInv => HeaderLast
    <2> SUFFICES ASSUME StreamInv, ImageInv, NEW base \in Regions, NEW k \in PageIndex,
                        base + k \in FlashAddress,
                        flash[base + k][1] # NoFile,
                        flash[base + k] = <<flash[base + k][1], k>>
                 PROVE  RestInPlace(base, flash[base + k][1])
      BY DEF HeaderLast, RestInPlace
    <2>1. flash[base + k][1] \in File
      BY CellFacts DEF StreamInv, TypeOK, FlashOK
    <2> QED
      BY <2>1 DEF ImageInv
  <1> QED
    BY <1>1, StreamInvariant, ImageInvariant, PTL

-----------------------------------------------------------------------------
(* What FileAt says of the cells.                                          *)

(* f is at base, with its header and all the header announces.             *)
Whole(base, f) ==
    /\ base \in FlashAddress /\ base + MINIMUM_SIZE - 1 \in FlashAddress
    /\ \A o \in BOOTLOADER_INFO_OFFSET .. MINIMUM_SIZE - 1 : flash[base + o] = <<f, o>>
    /\ \A o \in 0 .. FileHeader[f].length - 1 :
           base + o \in FlashAddress /\ flash[base + o] = <<f, o>>

HeaderCell == BOOTLOADER_INFO_OFFSET

LEMMA HeaderCellFacts ==
    /\ HeaderCell \in BOOTLOADER_INFO_OFFSET .. MINIMUM_SIZE - 1
    /\ HeaderCell \in PageIndex /\ HeaderCell \in Nat
    /\ BOOTLOADER_INFO_OFFSET .. MINIMUM_SIZE - 1 \subseteq PageIndex
  BY SizeAssumption DEF HeaderCell, MINIMUM_SIZE, PageIndex

LEMMA HeaderCellThere ==
    ASSUME NEW base \in Nat, base \in FlashAddress, base + MINIMUM_SIZE - 1 \in FlashAddress,
           NEW o \in BOOTLOADER_INFO_OFFSET .. MINIMUM_SIZE - 1
    PROVE  base + o \in FlashAddress
  BY SizeAssumption, FlashFacts, SizeFacts DEF MINIMUM_SIZE

LEMMA WholeIsFileAt ==
    \A base \in Nat, f \in File :
        FlashOK => (FileAt(base) = f <=> Whole(base, f))
  <1> SUFFICES ASSUME NEW base \in Nat, NEW f \in File, FlashOK
               PROVE  FileAt(base) = f <=> Whole(base, f)
    OBVIOUS
  <1> f # NoFile
    BY FileAssumption
  <1>1. CASE ~(base \in FlashAddress /\ base + MINIMUM_SIZE - 1 \in FlashAddress)
    BY <1>1 DEF FileAt, FlashHeaderFile, Whole
  <1>2. CASE base \in FlashAddress /\ base + MINIMUM_SIZE - 1 \in FlashAddress
    <2>1. FlashHeaderFile(base) = HeaderFile(flash, base)
      BY <1>2 DEF FlashHeaderFile
    <2>2. HeaderFile(flash, base) = f <=>
              \A o \in BOOTLOADER_INFO_OFFSET .. MINIMUM_SIZE - 1 : flash[base + o] = <<f, o>>
      BY HeaderCellFacts DEF HeaderFile, HeaderCell
    <2> QED
      BY <1>2, <2>1, <2>2 DEF FileAt, ChecksumMatches, Whole
  <1> QED
    BY <1>1, <1>2

LEMMA FileAtType ==
    \A base \in Nat : FlashOK => FileAt(base) \in File \cup {NoFile}
  <1> SUFFICES ASSUME NEW base \in Nat, FlashOK
               PROVE  FileAt(base) \in File \cup {NoFile}
    OBVIOUS
  <1>1. CASE ~(base \in FlashAddress /\ base + MINIMUM_SIZE - 1 \in FlashAddress)
    BY <1>1 DEF FileAt, FlashHeaderFile
  <1>2. CASE base \in FlashAddress /\ base + MINIMUM_SIZE - 1 \in FlashAddress
    <2>1. flash[base + BOOTLOADER_INFO_OFFSET] \in Cell
      BY <1>2, HeaderCellFacts, HeaderCellThere DEF FlashOK, HeaderCell
    <2>2. flash[base + BOOTLOADER_INFO_OFFSET][1] \in File \cup {NoFile}
      BY <2>1 DEF Cell
    <2> QED
      BY <1>2, <2>2 DEF FileAt, FlashHeaderFile, HeaderFile
  <1> QED
    BY <1>1, <1>2

LEMMA WholeIsFileAtNext ==
    (\A base \in Nat, f \in File : FlashOK => (FileAt(base) = f <=> Whole(base, f)))'
  BY WholeIsFileAt, PTL

LEMMA FileAtTypeNext ==
    (\A base \in Nat : FlashOK => FileAt(base) \in File \cup {NoFile})'
  BY FileAtType, PTL

(* The image of the other region is untouched.                             *)
LEMMA OtherFileKept ==
    ASSUME RegionsApart, OwnChange, ImageInv, FlashOK, FlashOK',
           NEW base \in Regions, base # image_info.start
    PROVE  FileAt(base)' = FileAt(base)
  <1>1. base \in Nat
    BY FlashFacts
  <1>2. ASSUME NEW f \in File
        PROVE  Whole(base, f)' <=> Whole(base, f)
    <2>1. CASE ~(base \in FlashAddress /\ base + MINIMUM_SIZE - 1 \in FlashAddress)
      BY <2>1 DEF Whole
    <2>2. CASE base \in FlashAddress /\ base + MINIMUM_SIZE - 1 \in FlashAddress
      <3>1. ASSUME NEW o \in BOOTLOADER_INFO_OFFSET .. MINIMUM_SIZE - 1
            PROVE  flash'[base + o] = flash[base + o]
        <4>1. base + o \in FlashAddress
          BY <1>1, <2>2, HeaderCellThere
        <4>2. o \in Nat /\ o < FLASH_START
          BY HeaderCellFacts, RegionFacts, SizeFacts DEF PageIndex
        <4> QED
          BY <4>1, <4>2, OtherRegionKept
      <3>2. ASSUME flash[base + HeaderCell] = <<f, HeaderCell>>,
                   NEW o \in 0 .. FileHeader[f].length - 1, base + o \in FlashAddress
            PROVE  flash'[base + o] = flash[base + o]
        <4>1. WithinRegion(base, f)
          BY <1>1, <2>2, <3>2, HeaderCellFacts, HeaderCellThere DEF ImageInv
        <4>2. o \in Nat /\ o < FileHeader[f].length /\ FileHeader[f].length \in Nat
          BY LengthFacts
        <4>3. base = BOOTLOADER_START => o < FLASH_START \/ FlashEnd <= APP_START
          BY <4>1, <4>2, SizeFacts DEF WithinRegion
        <4> QED
          BY <3>2, <4>2, <4>3, OtherRegionKept
      <3> QED
        BY <3>1, <3>2, HeaderCellFacts DEF Whole
    <2> QED
      BY <2>1, <2>2
  <1>3. /\ FileAt(base) \in File \cup {NoFile}
        /\ FileAt(base)' \in File \cup {NoFile}
    BY <1>1, FileAtType, FileAtTypeNext
  <1>4. \A f \in File : FileAt(base) = f <=> Whole(base, f)
    BY <1>1, WholeIsFileAt
  <1>5. \A f \in File : FileAt(base)' = f <=> Whole(base, f)'
    BY <1>1, WholeIsFileAtNext
  <1> QED
    BY <1>2, <1>3, <1>4, <1>5

LEMMA ErasedStartNoFile ==
    Accepted /\ FlashOK /\ StartErased => FileAt(image_info.start) = NoFile
  <1> SUFFICES ASSUME Accepted, FlashOK, StartErased, FileAt(image_info.start) # NoFile
               PROVE  FALSE
    OBVIOUS
  <1>1. image_info.start \in Nat
    BY FlashFacts DEF Accepted
  <1>2. PICK f \in File : FileAt(image_info.start) = f
    BY <1>1, FileAtType
  <1>3. Whole(image_info.start, f)
    BY <1>1, <1>2, WholeIsFileAt
  <1>4. /\ image_info.start + HeaderCell \in FlashAddress
        /\ flash[image_info.start + HeaderCell] = <<f, HeaderCell>>
    BY <1>1, <1>3, HeaderCellFacts, HeaderCellThere DEF Whole
  <1> QED
    BY <1>4, HeaderCellFacts, FileAssumption DEF StartErased

LEMMA ErasedStartNoFileNext ==
    (Accepted /\ FlashOK /\ StartErased => FileAt(image_info.start) = NoFile)'
  BY ErasedStartNoFile, PTL

LEMMA ComingStartOwnFile ==
    Accepted /\ FlashOK /\ StartComing => FileAt(image_info.start) \in {NoFile, file}
  <1> SUFFICES ASSUME Accepted, FlashOK, StartComing, FileAt(image_info.start) # NoFile
               PROVE  FileAt(image_info.start) = file
    OBVIOUS
  <1>1. image_info.start \in Nat
    BY FlashFacts DEF Accepted
  <1>2. PICK f \in File : FileAt(image_info.start) = f
    BY <1>1, FileAtType
  <1>3. Whole(image_info.start, f)
    BY <1>1, <1>2, WholeIsFileAt
  <1>4. flash[image_info.start + HeaderCell] = <<f, HeaderCell>>
    BY <1>3, HeaderCellFacts DEF Whole
  <1>5. flash[image_info.start + HeaderCell] \in {<<file, HeaderCell>>, Blank, Torn}
    BY HeaderCellFacts DEF StartComing
  <1>6. <<f, HeaderCell>> # Blank /\ <<f, HeaderCell>> # Torn
    BY HeaderCellFacts, CellsDiffer
  <1>7. f = file
    BY <1>4, <1>5, <1>6
  <1> QED
    BY <1>2, <1>7

LEMMA ComingStartOwnFileNext ==
    (Accepted /\ FlashOK /\ StartComing => FileAt(image_info.start) \in {NoFile, file})'
  BY ComingStartOwnFile, PTL

(* A step takes the image of one region away, or puts the file there where *)
(* there was none.                                                         *)
LEMMA FilesChange ==
    ASSUME RegionsApart, StreamInv, StreamInv', ImageInv, [Next]_vars,
           NEW base \in Regions, FileAt(base)' # FileAt(base)
    PROVE  /\ OwnChange /\ base = image_info.start
           /\ \/ FileAt(base)' = NoFile
              \/ FileAt(base) = NoFile /\ FileAt(base)' = file
  <1>1. FlashOK /\ FlashOK'
    BY DEF StreamInv, TypeOK
  <1>2. flash' # flash
    BY SameFlashSameFile
  <1>3. OwnChange
    BY <1>2, FlashChanges
  <1>4. base = image_info.start
    BY <1>1, <1>3, OtherFileKept
  <1>5. Accepted /\ Accepted' /\ image_info' = image_info /\ file' = file
    BY <1>3 DEF OwnChange, Accepted
  <1>6. CASE StartErased'
    <2>1. FileAt(image_info.start)' = NoFile
      BY <1>1, <1>5, <1>6, ErasedStartNoFileNext
    <2> QED
      BY <1>3, <1>4, <1>5, <2>1
  <1>7. CASE StartComing /\ StartComing'
    <2>1. /\ FileAt(image_info.start) \in {NoFile, file}
          /\ FileAt(image_info.start)' \in {NoFile, file'}
      BY <1>1, <1>5, <1>7, ComingStartOwnFile, ComingStartOwnFileNext
    <2> QED
      BY <1>3, <1>4, <1>5, <2>1
  <1> QED
    BY <1>3, <1>6, <1>7 DEF OwnChange

-----------------------------------------------------------------------------
(* DetachSafe.                                                             *)

(* dirty is cleared only where the file has just been written.             *)
LEMMA DirtyCleared ==
    ASSUME [Next]_vars, Connected, Connected', dirty, ~dirty'
    PROVE  pc' = "manifestPublish"
  <1>1. ~main /\ ~jump /\ ~AppEntersBootloader /\ ~PowerCycle /\ ~usb_handler /\ ~UNCHANGED vars
    BY DEF Connected, main, Dead, StartApp, EnterDfu, jump, Reset, AppEntersBootloader, PowerCycle,
           usb_handler, Setup, usb_util_endpoint_callback, vars
  <1>2. ~dfu_poll_state
    BY DEF dfu_poll_state
  <1>3. DownloadStep
    BY <1>1, <1>2 DEF Next, MainStep
  <1>4. ~dfu_download_busy /\ ~FlashControlStep
    BY DEF dfu_download_busy, BusyErase, BusyErased, BusyProgrammed, BusyNextPage, BusyPublish,
           FlashControlStep, FlashProgramCell, FlashEraseFails, FlashProgramFails
  <1>5. ManifestFirstProgrammed
    BY <1>3, <1>4 DEF DownloadStep, dfu_download_manifest, ManifestFirst, ManifestFirstErased,
                      ManifestTail, ManifestTailErased, ManifestTailProgrammed, ManifestPublish
  <1> QED
    BY <1>5 DEF ManifestFirstProgrammed

(* DFU mode is entered only by a bootloader that has been found whole.     *)
LEMMA DfuEntered ==
    ASSUME [Next]_vars, ~Connected, Connected'
    PROVE  BootloaderRuns /\ UNCHANGED flash
  <1>1. pc \in {"reset", "app", "dead"} /\ pc' \notin {"reset", "app", "dead"}
    BY DEF Connected
  <1>2. /\ ~jump /\ ~AppEntersBootloader /\ ~PowerCycle /\ ~usb_handler /\ ~UNCHANGED vars
        /\ ~dfu_poll_state
    BY <1>1 DEF Connected, jump, Reset, AppEntersBootloader, PowerCycle, usb_handler, Setup,
                usb_util_endpoint_callback, vars, mainVars, dfu_poll_state
  <1>3. ~DownloadStep
    BY <1>1 DEF DownloadStep, dfu_download_busy, BusyErase, BusyErased, BusyProgrammed,
                BusyNextPage, BusyAdvance, BusyCarry, BusyCount, BusyEmpty, BusyFlushed,
                BusyPublish, dfu_download_manifest, ManifestFirst, ManifestFirstErased,
                ManifestTail, ManifestTailErased, ManifestTailProgrammed,
                ManifestFirstProgrammed, ManifestPublish, FlashControlStep, FlashProgramCell,
                FlashEraseFails, FlashProgramFails, Programming
  <1>4. main /\ UNCHANGED flash
    BY <1>2, <1>3 DEF Next, MainStep
  <1> QED
    BY <1>1, <1>4 DEF main, Dead, StartApp, EnterDfu

LEMMA DetachNext ==
    ASSUME RegionsApart, OneRegion, StreamInv, StreamInv', ImageInv, DetachInv, [Next]_vars
    PROVE  DetachInv'
  <1> SUFFICES ASSUME Connected', ~BootloaderRuns'
               PROVE  dirty' /\ \E f \in Offered : IsFor(f, BOOTLOADER_START)
    BY DEF DetachInv
  <1>1. BOOTLOADER_START \in Regions
    BY DEF Regions
  <1>2. CASE FileAt(BOOTLOADER_START)' # FileAt(BOOTLOADER_START)
    <2>1. OwnChange /\ BOOTLOADER_START = image_info.start
      BY <1>1, <1>2, FilesChange
    <2> QED
      BY <2>1 DEF OwnChange, Accepted, IsFor
  <1>3. CASE FileAt(BOOTLOADER_START)' = FileAt(BOOTLOADER_START)
    <2>1. ~BootloaderRuns
      BY <1>3 DEF BootloaderRuns
    <2>2. Connected
      <3> SUFFICES ASSUME ~Connected PROVE FALSE
        OBVIOUS
      <3> QED
        BY <2>1, DfuEntered
    <2>3. dirty /\ \E f \in Offered : IsFor(f, BOOTLOADER_START)
      BY <2>1, <2>2 DEF DetachInv
    <2>4. dirty'
      <3> SUFFICES ASSUME ~dirty' PROVE FALSE
        OBVIOUS
      <3>1. Written'
        BY <2>2, <2>3, DirtyCleared DEF StreamInv, DoneOK
      <3>2. /\ file' \in Offered /\ IsFor(file', image_info'.start)
            /\ image_info'.start \in Regions
            /\ FileAt(image_info.start)' = file'
        BY <3>1 DEF Written, Accepted, IsFor
      <3>3. image_info'.start = BOOTLOADER_START
        BY <1>1, <2>3, <3>2 DEF OneRegion
      <3>4. FileAt(BOOTLOADER_START)' = FileAt(image_info.start)'
        BY <3>3
      <3>5. file' # NoFile
        BY <3>2, HostAssumption, FileAssumption
      <3> QED
        BY <3>2, <3>4, <3>5 DEF BootloaderRuns
    <2> QED
      BY <2>3, <2>4
  <1> QED
    BY <1>2, <1>3

(* A DETACH is granted only with a bootloader to go back to (dfu.c:186-194,*)
(* main.c:51-59), if all the files offered are for the same region: dirty  *)
(* is one flag for both.                                                   *)
THEOREM DetachCorrect ==
    ASSUME HostWaits, RegionsApart, DeliveredWhole, OneRegion
    PROVE  Spec => []DetachSafe
  <1>1. Init => DetachInv
    BY DEF Init, DetachInv, Connected
  <1>2. StreamInv /\ StreamInv' /\ ImageInv /\ DetachInv /\ [Next]_vars => DetachInv'
    BY DetachNext
  <1>3. StreamInv /\ DetachInv => DetachSafe
    BY DEF StreamInv, ProtocolOK, DetachInv, DetachSafe, Connected
  <1> QED
    BY <1>1, <1>2, <1>3, StreamInvariant, ImageInvariant, PTL DEF Spec

-----------------------------------------------------------------------------
(* The refinement of SafeUpdate.                                           *)

(* The length in the header of a known image leads the checksum to an end. *)
LEMMA KnownEnds ==
    ASSUME StreamInv, ImageInv, LengthsCoverHeader,
           NEW base \in Regions, FlashHeaderFile(base) # NoFile
    PROVE  ChecksumEnds(base)
  <1> DEFINE f == FlashHeaderFile(base)
  <1> DEFINE len == FileHeader[f].length
  <1>1. base \in Nat /\ base % PAGE_SIZE = 0 /\ FlashOK
    BY FlashFacts DEF StreamInv, TypeOK
  <1>2. /\ base \in FlashAddress /\ base + MINIMUM_SIZE - 1 \in FlashAddress
        /\ f = HeaderFile(flash, base)
    BY DEF FlashHeaderFile
  <1>3. /\ base + HeaderCell \in FlashAddress
        /\ flash[base + HeaderCell] = <<f, HeaderCell>>
    BY <1>1, <1>2, HeaderCellFacts, HeaderCellThere DEF HeaderFile
  <1>4. f \in File
    <2>1. flash[base + HeaderCell] \in Cell
      BY <1>1, <1>3 DEF FlashOK
    <2> QED
      BY <1>3, <2>1, CellFacts DEF Cell
  <1>5. f \in Known /\ RestInPlace(base, f)
    BY <1>3, <1>4, HeaderCellFacts DEF ImageInv
  <1>6. len \in Nat /\ len >= MINIMUM_SIZE /\ MINIMUM_SIZE > 0
    BY <1>4, <1>5, LengthFacts, SizeAssumption DEF LengthsCoverHeader, MINIMUM_SIZE
  <1>7. base + len - 1 \in FlashAddress
    <2>1. CASE len > PAGE_SIZE
      <3>1. len - 1 \in PAGE_SIZE .. len - 1
        BY <1>6, <2>1, SizeFacts
      <3>2. base + (len - 1) \in FlashAddress
        BY <1>5, <3>1 DEF RestInPlace
      <3> QED
        BY <3>2
    <2>2. CASE len <= PAGE_SIZE
      <3>1. base + PAGE_SIZE <= FlashEnd
        BY <1>1, <1>2, AlignedFacts, FlashFacts
      <3>2. /\ FLASH_START \in Nat /\ FlashEnd \in Nat /\ FLASH_START <= base
            /\ FlashAddress = FLASH_START .. FlashEnd - 1 /\ PAGE_SIZE \in Nat
        BY FlashFacts, SizeFacts
      <3>3. len > 0
        BY <1>6, HeaderSize
      <3> QED
        BY <1>1, <1>6, <2>2, <3>1, <3>2, <3>3
    <2> QED
      BY <1>6, <2>1, <2>2, SizeFacts
  <1>8. FlashHeader(base) = FileHeader[f]
    BY DEF FlashHeader
  <1> QED
    BY <1>6, <1>7, <1>8 DEF ChecksumEnds

(* main gets to its end from a whole bootloader.                           *)
LEMMA BootloaderGetsPast ==
    ASSUME StreamInv, ImageInv, LengthsCoverHeader, BootloaderRuns
    PROVE  ChecksumsEnd
  <1>1. FlashHeaderFile(BOOTLOADER_START) # NoFile
    BY DEF BootloaderRuns, FileAt, ChecksumMatches
  <1>2. FlashHeader(APP_START).magic => FlashHeaderFile(APP_START) # NoFile
    BY DEF FlashHeader, NoHeader
  <1> QED
    BY <1>1, <1>2, KnownEnds DEF ChecksumsEnd, Regions

LEMMA TargetFacts ==
    ASSUME RegionsApart, NEW f \in File
    PROVE  /\ IsFor(f, BOOTLOADER_START) => FileTarget[f] = "bootloader"
           /\ IsFor(f, APP_START) => FileTarget[f] = "app"
  <1> DEFINE h == FileHeader[f]
  <1>1. FileTarget[f] =
            CASE h.magic /\ h.start = BOOTLOADER_START                          -> "bootloader"
              [] h.magic /\ h.start = APP_START /\ APP_START # BOOTLOADER_START -> "app"
              [] OTHER                                                          -> "none"
    BY Zenon DEF FileTarget
  <1>2. ASSUME IsFor(f, BOOTLOADER_START)
        PROVE  FileTarget[f] = "bootloader"
    <2>1. h.magic /\ h.start = BOOTLOADER_START /\ ~(h.start = APP_START)
      BY <1>2 DEF IsFor, RegionsApart
    <2> QED
      BY <1>1, <2>1, Zenon
  <1>3. ASSUME IsFor(f, APP_START)
        PROVE  FileTarget[f] = "app"
    <2>1. h.magic /\ h.start = APP_START /\ ~(h.start = BOOTLOADER_START)
          /\ APP_START # BOOTLOADER_START
      BY <1>3 DEF IsFor, RegionsApart
    <2> QED
      BY <1>1, <2>1, Zenon
  <1> QED
    BY <1>2, <1>3

(* The variables of SafeUpdate.                                            *)
Image ==
    [r \in {"bootloader", "app"} |-> FileAt(IF r = "app" THEN APP_START ELSE BOOTLOADER_START)]

Mode == IF Connected THEN "dfu" ELSE pc

LEMMA ImageFacts ==
    /\ Image["bootloader"] = FileAt(BOOTLOADER_START)
    /\ Image["app"] = FileAt(APP_START)
    /\ DOMAIN Image = {"bootloader", "app"}
    /\ Image = [r \in {"bootloader", "app"} |-> Image[r]]
  BY DEF Image

LEMMA ImageFactsNext ==
    (/\ Image["bootloader"] = FileAt(BOOTLOADER_START)
     /\ Image["app"] = FileAt(APP_START)
     /\ DOMAIN Image = {"bootloader", "app"}
     /\ Image = [r \in {"bootloader", "app"} |-> Image[r]])'
  BY ImageFacts, PTL

LEMMA SameFlashSameImage == UNCHANGED flash => UNCHANGED Image
  <1>1. UNCHANGED flash =>
            /\ FileAt(BOOTLOADER_START)' = FileAt(BOOTLOADER_START)
            /\ FileAt(APP_START)' = FileAt(APP_START)
    BY SameFlashSameFile
  <1> QED
    BY <1>1, ImageFacts, ImageFactsNext

LEMMA AbstractInit == Init => Abstract!Init
  <1> SUFFICES ASSUME Init PROVE Abstract!Init
    OBVIOUS
  <1>1. FlashOK
    BY InitType DEF TypeOK
  <1>2. /\ FileAt(BOOTLOADER_START) \in File \cup {NoFile}
        /\ FileAt(APP_START) \in File \cup {NoFile}
    BY <1>1, FileAtType, SizeFacts
  <1>3. Image \in [{"bootloader", "app"} -> File \cup {NoFile}]
    BY <1>2, ImageFacts
  <1>4. file = NoFile /\ Mode = "reset"
    BY DEF Init, Mode, Connected
  <1> QED
    BY <1>3, <1>4 DEF Abstract!Init, Image, Mode

(* The steps that are Restart, Start and Offer, and those that may be      *)
(* GiveUp or Commit.                                                       *)
LEMMA StepKinds ==
    ASSUME StreamInv, [Next]_vars
    PROVE  \/ Reset
           \/ main /\ UNCHANGED <<flash, file>>
           \/ Connected /\ Connected' /\ UNCHANGED flash /\ file' \in File
           \/ UNCHANGED <<file, Mode>>
  <1>1. CASE MainStep
    <2>1. CASE DownloadStep
      <3>1. Connected /\ Connected'
        BY <2>1 DEF DownloadStep, dfu_download_busy, BusyErase, BusyErased, BusyProgrammed,
                BusyNextPage, BusyAdvance, BusyCarry, BusyCount, BusyEmpty, BusyFlushed,
                BusyPublish, dfu_download_manifest, ManifestFirst, ManifestFirstErased,
                ManifestTail, ManifestTailErased, ManifestTailProgrammed,
                ManifestFirstProgrammed, ManifestPublish, FlashControlStep, FlashProgramCell,
                FlashEraseFails, FlashProgramFails, Programming, CallErase, CallProgram, Return,
                Connected
      <3>2. UNCHANGED file
        BY <2>1 DEF DownloadStep, hostVars
      <3> QED
        BY <3>1, <3>2 DEF Mode
    <2>2. CASE dfu_poll_state /\ UNCHANGED hostVars
      <3>1. PollLeadsTo \in {"manifest", "busy", "stop", "poll"}
        BY Zenon DEF PollLeadsTo
      <3>2. Connected /\ Connected'
        BY <2>2, <3>1 DEF dfu_poll_state, Connected
      <3> QED
        BY <2>2, <3>2 DEF Mode, hostVars
    <2> QED
      BY <1>1, <2>1, <2>2 DEF MainStep, jump, hostVars
  <1>2. CASE usb_handler
    <2>1. Connected /\ Connected' /\ UNCHANGED flash
      BY <1>2 DEF usb_handler, Setup, usb_util_endpoint_callback, mainVars, Connected
    <2>2. file' = file \/ file' \in File
      BY <1>2, HostAssumption
         DEF usb_handler, Setup, HostDownload, HostUpload, HostRequest, hostVars,
             usb_util_endpoint_callback, DataArrives, ReplyTaken, BlockTaken, TransferFails
    <2> QED
      BY <2>1, <2>2 DEF Mode
  <1> QED
    BY <1>1, <1>2
       DEF Next, AppEntersBootloader, PowerCycle, vars, hostVars, mainVars, Mode, Connected

LEMMA AbstractStart ==
    ASSUME StreamInv, ImageInv, LengthsCoverHeader, main, UNCHANGED <<flash, file>>
    PROVE  Abstract!Start
  <1>1. UNCHANGED Image
    BY SameFlashSameImage
  <1>2. /\ Mode = "reset"
        /\ Mode' \in IF FileAt(BOOTLOADER_START) = NoFile THEN {"dead"}
                     ELSE {"dfu"} \cup IF FileAt(APP_START) = NoFile THEN {} ELSE {"app"}
    <2>1. CASE Dead
      <3>1. ~BootloaderRuns
        BY <2>1, BootloaderGetsPast DEF Dead
      <3> QED
        BY <2>1, <3>1 DEF Dead, Mode, Connected, BootloaderRuns
    <2>2. CASE StartApp
      <3>1. FileAt(APP_START) # NoFile
        BY <2>2 DEF StartApp, AppValid, FileAt, ChecksumMatches
      <3> QED
        BY <2>2, <3>1 DEF StartApp, Mode, Connected, BootloaderRuns
    <2>3. CASE EnterDfu
      BY <2>3 DEF EnterDfu, Mode, Connected, BootloaderRuns
    <2> QED
      BY <2>1, <2>2, <2>3 DEF main
  <1>3. /\ Mode' \in IF Image["bootloader"] = NoFile THEN {"dead"}
                     ELSE {"dfu"} \cup IF Image["app"] = NoFile THEN {} ELSE {"app"}
    BY <1>2, ImageFacts
  <1> QED
    BY <1>1, <1>2, <1>3 DEF Abstract!Start, Image, Mode

(* A change of what the flash holds gives up or commits one image.         *)
LEMMA AbstractBecomes ==
    ASSUME RegionsApart, StreamInv, StreamInv', ImageInv, [Next]_vars, Image' # Image
    PROVE  Abstract!GiveUp \/ Abstract!Commit
  <1> DEFINE r == IF image_info.start = APP_START THEN "app" ELSE "bootloader"
  <1>1. PICK base \in Regions : FileAt(base)' # FileAt(base)
    BY ImageFacts, ImageFactsNext DEF Regions
  <1>2. /\ OwnChange /\ base = image_info.start
        /\ \/ FileAt(base)' = NoFile
           \/ FileAt(base) = NoFile /\ FileAt(base)' = file
    BY <1>1, FilesChange
  <1>3. file \in File /\ file # NoFile /\ UNCHANGED file /\ Mode = "dfu" /\ Mode' = "dfu"
    BY <1>2, HostAssumption, FileAssumption DEF OwnChange, Mode
  <1>4. FileTarget[file] = r /\ r \in {"bootloader", "app"}
    BY <1>2, <1>3, TargetFacts DEF OwnChange, Accepted, IsFor, Regions
  <1>5. Image[r] = FileAt(base) /\ Image'[r] = FileAt(base)'
    BY <1>1, <1>2, ImageFacts, ImageFactsNext DEF Regions
  <1>6. \A other \in {"bootloader", "app"} : other # r => Image'[other] = Image[other]
    <2>1. \A b \in Regions : b # image_info.start => FileAt(b)' = FileAt(b)
      BY FilesChange
    <2> QED
      BY <1>1, <1>2, <2>1, ImageFacts, ImageFactsNext DEF Regions, RegionsApart
  <1>7. Image' = [Image EXCEPT ![r] = Image'[r]]
    BY <1>4, <1>6, ImageFacts, ImageFactsNext
  <1>8. CASE FileAt(base)' = NoFile
    <2>1. Image' = [Image EXCEPT ![FileTarget[file]] = NoFile]
      BY <1>4, <1>5, <1>7, <1>8
    <2> QED
      BY <1>3, <1>4, <2>1 DEF Abstract!GiveUp, Abstract!Becomes, Image, Mode
  <1>9. CASE FileAt(base) = NoFile /\ FileAt(base)' = file
    <2>1. Image' = [Image EXCEPT ![FileTarget[file]] = file]
      BY <1>4, <1>5, <1>7, <1>9
    <2>2. Image[FileTarget[file]] = NoFile
      BY <1>4, <1>5, <1>9
    <2> QED
      BY <1>3, <1>4, <2>1, <2>2 DEF Abstract!Commit, Abstract!Becomes, Image, Mode
  <1> QED
    BY <1>2, <1>8, <1>9

LEMMA AbstractNext ==
    ASSUME RegionsApart, LengthsCoverHeader, StreamInv, StreamInv', ImageInv, [Next]_vars
    PROVE  [Abstract!Next]_Abstract!vars
  <1>1. CASE Reset
    <2>1. UNCHANGED Image /\ file' = NoFile /\ Mode' = "reset"
      BY <1>1, SameFlashSameImage DEF Reset, Mode, Connected
    <2> QED
      BY <2>1 DEF Abstract!Next, Abstract!Restart, Image, Mode
  <1>2. CASE main /\ UNCHANGED <<flash, file>>
    BY <1>2, AbstractStart DEF Abstract!Next
  <1>3. CASE Connected /\ Connected' /\ UNCHANGED flash /\ file' \in File
    <2>1. UNCHANGED Image /\ Mode = "dfu" /\ Mode' = "dfu"
      BY <1>3, SameFlashSameImage DEF Mode
    <2> QED
      BY <1>3, <2>1 DEF Abstract!Next, Abstract!Offer, Image, Mode
  <1>4. CASE Image' # Image
    BY <1>4, AbstractBecomes DEF Abstract!Next
  <1>5. CASE UNCHANGED <<file, Mode, Image>>
    BY <1>5 DEF Abstract!vars, Image, Mode
  <1> QED
    BY <1>1, <1>2, <1>3, <1>4, <1>5, StepKinds

(* The bootloader implements SafeUpdate for a host that waits: whatever    *)
(* fails, and whenever the supply does, an update replaces one whole image *)
(* by the file it was given or loses it, and never touches the other       *)
(* (download.c, main.c).                                                   *)
THEOREM SafeUpdateImplemented ==
    ASSUME HostWaits, RegionsApart, DeliveredWhole, LengthsCoverHeader
    PROVE  Spec => ImplementsSafeUpdate
  <1>1. Init => Abstract!Init
    BY AbstractInit
  <1>2. StreamInv /\ StreamInv' /\ ImageInv /\ [Next]_vars => [Abstract!Next]_Abstract!vars
    BY AbstractNext
  <1> QED
    BY <1>1, <1>2, StreamInvariant, ImageInvariant, PTL
       DEF Spec, ImplementsSafeUpdate, Abstract!Spec

=============================================================================
