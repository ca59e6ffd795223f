----------------------------- MODULE MCPipeline -----------------------------
(* Pipeline for TLC: the combinations of devices it is looked at in.        *)
EXTENDS Pipeline

\* Devices of these kinds, unclocked, one callback of two frames per block.
Devices(bi, bo, ci, co) ==
    [BlockingIn |-> bi, BlockingOut |-> bo, CallbackIn |-> ci, CallbackOut |-> co,
     synched_write |-> FALSE, BlockStart |-> FALSE, Host |-> "pipewire",
     Ratio |-> 1, BlockFrames |-> 2, EofBlock |-> 3, EofFrames |-> 1]

FileToFile         == Devices(TRUE, TRUE, FALSE, FALSE)
FileToCallback     == Devices(TRUE, FALSE, FALSE, TRUE)
CallbackToCallback == Devices(FALSE, FALSE, TRUE, TRUE)
CallbackToFile     == Devices(FALSE, TRUE, TRUE, FALSE)
AllToBoth          == Devices(TRUE, TRUE, TRUE, TRUE)
AllToFile          == Devices(TRUE, TRUE, TRUE, FALSE)
AllToCallback      == Devices(TRUE, FALSE, TRUE, TRUE)
FileToBoth         == Devices(TRUE, TRUE, FALSE, TRUE)
CallbackToBoth     == Devices(FALSE, TRUE, TRUE, TRUE)

-----------------------------------------------------------------------------
(* The passing run.  A blocking input ends in block 0, where nothing is behind   *)
(* it yet, or in block 3 or 4, when both buffers of both sides have been used    *)
(* again.  Left out are the blocks 1 and 2 (EofRaceConfigs), block 0 with a      *)
(* clocked output (the end falls into the blocks of silence), zero frames with   *)
(* JACK (JackEndConfigs), and callback inputs next to a blocking one with more   *)
(* than one callback per block and a callback output (MixedEndConfigs).          *)

FileConfigs ==
    {[FileToFile EXCEPT !.BlockStart = start, !.EofBlock = b, !.EofFrames = f] :
        start \in BOOLEAN, b \in {0, 3, 4}, f \in {0, 1}}

ClockedConfigs ==
    {[c EXCEPT !.synched_write = TRUE, !.EofBlock = b] :
        c \in {FileToFile, FileToBoth, AllToBoth}, b \in {3, 4}}

ToCallbackConfigs ==
    {[FileToCallback EXCEPT !.Ratio = 2, !.EofBlock = b, !.EofFrames = f] :
        b \in {0, 3}, f \in 0 .. 3} \cup
    {[FileToCallback EXCEPT !.Host = "jack", !.Ratio = 2, !.EofFrames = f] :
        f \in 1 .. 3}

CallbackConfigs ==
    {[CallbackToCallback EXCEPT !.Ratio = r, !.Host = h] :
        r \in {1, 2}, h \in {"jack", "pipewire"}} \cup
    {[CallbackToFile EXCEPT !.Ratio = 2, !.synched_write = w] : w \in BOOLEAN} \cup
    {[CallbackToBoth EXCEPT !.Ratio = 2]}

MixedConfigs ==
    {[c EXCEPT !.EofBlock = b, !.EofFrames = f] :
        c \in {AllToBoth, AllToCallback}, b \in {0, 3}, f \in {0, 1}} \cup
    {[FileToBoth EXCEPT !.Ratio = 2, !.EofFrames = f] : f \in {1, 2}} \cup
    {AllToFile}

AllConfigs ==
    FileConfigs \cup ClockedConfigs \cup ToCallbackConfigs \cup
    CallbackConfigs \cup MixedConfigs

-----------------------------------------------------------------------------
(* The runs that find something *)

EofRaceConfigs   == {[FileToFile EXCEPT !.EofBlock = 1]}
JackEndConfigs   == {[FileToCallback EXCEPT !.Host = "jack", !.EofFrames = 0]}
OverrunConfigs   == {CallbackToFile}
MixedEndConfigs  == {[AllToBoth EXCEPT !.Ratio = 2, !.EofBlock = 4]}
=============================================================================
