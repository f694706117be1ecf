---------------------------- MODULE MCImageRepair ----------------------------
(* What the library writes, on small instances: an image in place            *)
(* (ImageRepair) or a cache beside its path (CacheContainer).  A behaviour is *)
(* of one of the two; the other's state stays as it began.                    *)
EXTENDS ImageRepair, CacheContainer, TLC

Symmetric == Permutations(Worker) \cup Permutations(CacheFile)

\* Caches of one and of two sections, and one whose metadata are too long to be saved.
SomePayloads ==
    {<<<<"x">>>>, <<<<"x">>, <<"y">>>>, <<<<"y">>, <<"x">>>>, <<<<"x", "y">>>>}

\* An empty file, one without sections, one with an empty section, one with too many,
\* and one whose lengths add up to its size when their sum wraps around.
SomeFound ==
    {<<>>, <<Header(0)>>, <<Header(1), Row(0, <<>>)>>,
     <<Header(4), Row(0, <<>>), Row(0, <<>>), Row(0, <<>>), Row(0, <<>>)>>,
     <<Header(3), Row(0, <<>>), Row(MaxWord, <<"x">>), Row(1, <<"x">>)>>}

SomeJunk == {Header(1), Row(1, <<"y">>), Chunk("x")}

\* Nobody verifies the image.
Unlisted == [w \in Worker |-> [Started EXCEPT !.pc = "done", !.captured = FALSE]]
ImageIdle ==
    /\ file = Missing /\ clock = 0 /\ changes = 0 /\ faults = 0
    /\ worker = Unlisted

MCInit == ContainerInit /\ (ImageIdle \/ (Init /\ visible = NoFile))
MCNext == \/ worker # Unlisted /\ Next /\ UNCHANGED containerVars
          \/ worker = Unlisted /\ ContainerNext /\ UNCHANGED vars
MCSpec == MCInit /\ [][MCNext]_<<vars, containerVars>>
=============================================================================
