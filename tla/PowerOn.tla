-------------------------------- MODULE PowerOn --------------------------------
(***************************************************************************)
(* From power-on to the shell of the kernel: the kernel image is uploaded  *)
(* to the bootloader (Loader), which enters it with the tree firmware gave *)
(* it, and main sets the memory up (Boot).                                 *)
(***************************************************************************)
EXTENDS Boot, Loader

\* The tree lies in memory from the start; which one it is matters once main reads it.
PowerOnInit == LoaderInit /\ Init /\ blob = CHOOSE tree \in Blobs : TRUE

\* boot_kernel jumps to the image.  What the bootloader and the line hold is forgotten.
EnterKernel ==
    /\ loader = "booted"
    /\ loader' = "entered"
    /\ host' = "finished" /\ interrupts' = 0
    /\ to_loader' = <<>> /\ to_host' = <<>> /\ lost' = 0
    /\ line' = <<>> /\ word' = <<>> /\ received' = 0
    /\ blob' \in Blobs
    /\ UNCHANGED <<kernel_size, image, pc, walk, memory, initramfs, cells, initrd_begin, pageVars,
                   archiveVars>>

PowerOnNext ==
    \/ LoaderNext /\ UNCHANGED vars
    \/ EnterKernel
    \/ loader = "entered" /\ Next /\ UNCHANGED loaderVars

PowerOnSpec == PowerOnInit /\ [][PowerOnNext]_<<loaderVars, vars>> /\ LoaderFairness
===============================================================================
