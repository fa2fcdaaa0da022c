----------------------------- MODULE MCChecksum -----------------------------
(***************************************************************************)
(* Images of Checksum: with nothing, one byte or two bytes before and      *)
(* behind the checksum, with one byte changed in any way, or two neighbours.*)
(***************************************************************************)
EXTENDS Checksum

Blank4 == <<Erased, Erased, Erased, Erased>>

MCFiles ==
    {head \o Blank4 \o tail :
        head \in {<<{0}, {3, 7}>>, <<{}, {}>>},
        tail \in {<<>>, <<{6}>>, <<{}, {1, 2, 4}>>, <<Erased, {7}>>}}

Changes == {{b} : b \in Erased} \cup {Erased, {0, 3}, {1, 2, 4, 7}}

AllChanges == SUBSET Erased \ {{}}

MCDamages ==
    {<<>>} \cup
    {[m \in {n} |-> change] : n \in 1 .. 9, change \in AllChanges} \cup
    {[m \in {n, n + 1} |-> change] : n \in 1 .. 8, change \in Changes}

=============================================================================
