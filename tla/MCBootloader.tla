---------------------------- MODULE MCBootloader ----------------------------
(***************************************************************************)
(* Values for the constants of Bootloader, small enough for TLC: pages of  *)
(* four cells, transfers of up to two, the header in the third cell.       *)
(***************************************************************************)
EXTENDS BootloaderRefinement

MCFile == {"boot1", "boot2", "app1", "app2", "tiny", "nomagic", "stray", "short", "big"}

MCSize(f) == CASE f \in {"boot1", "app1"} -> 7    \* a page and most of another
               [] f = "boot2"             -> 6
               [] f = "app2"              -> 4    \* exactly one page
               [] f = "tiny"              -> 3    \* less than a page
               [] f = "big"               -> 9    \* more than BOOTLOADER_SIZE
               [] OTHER                   -> 5

MCFileSize == [f \in MCFile |-> MCSize(f)]

(* app1 has a cell behind the length its header announces; the length in   *)
(* the header of short ends before the header does.                        *)
MCFileHeader ==
    [f \in MCFile |->
        [magic  |-> f # "nomagic",
         start  |-> CASE f \in {"boot1", "boot2", "big"} -> BOOTLOADER_START
                      [] f = "stray"                     -> BOOTLOADER_START + PAGE_SIZE
                      [] OTHER                           -> APP_START,
         length |-> CASE f = "app1"  -> 6
                      [] f = "short" -> 1
                      [] OTHER       -> MCSize(f)]]

AllRequests == DfuRequest
DownloadRequests == DfuRequest \ {"UPLOAD"}

(* For an instance with pages of two cells and the header in the second.   *)
SmallSize(f) == CASE f \in {"boot1", "app1"} -> 4
                  [] f = "app2"              -> 3
                  [] OTHER                   -> 2

SmallFileSize == [f \in MCFile |-> SmallSize(f)]
SmallFileHeader ==
    [f \in MCFile |-> [MCFileHeader[f] EXCEPT !.length = SmallSize(f)]]

(* For an instance with pages of three cells and the header in the second. *)
MiddleSize(f) == CASE f \in {"boot1", "app1"} -> 5
                   [] f = "boot2"             -> 4
                   [] f = "app2"              -> 3
                   [] OTHER                   -> 2

MiddleFileSize == [f \in MCFile |-> MiddleSize(f)]
MiddleFileHeader ==
    [f \in MCFile |->
        [MCFileHeader[f] EXCEPT !.length = IF f = "app1" THEN 4 ELSE MiddleSize(f)]]

FewRequests == {"DOWNLOAD", "GET_STATUS", "CLEAR_STATUS"}

=============================================================================
