-------------------------- MODULE DriverLoadProofs --------------------------
(* DriverLoad keeps its invariants whatever the number of processes that     *)
(* open the device.                                                          *)
EXTENDS DriverLoad, TLAPS

\* What the kernel has of the driver is known from where aesd_init or aesd_exit
\* is, but for the device: device_create may fail and the init succeed.
SetupKnown ==
    /\ "region" \in registered <=> pc \notin {"out", "alloc_region"}
    /\ "cdev" \in registered <=>
           pc \notin {"out", "alloc_region", "add_cdev", "undo_region", "free_region"}
    /\ "class" \in registered <=>
           pc \in {"create_device", "live", "destroy_device", "destroy_class"}
    /\ "device" \in registered => pc \in {"live", "destroy_device"}

\* The node devtmpfs made is there only as long as the device is.
NodeKnown == node = "devtmpfs" => pc \in {"live", "destroy_device"}

LoadInv == TypeOK /\ SetupKnown /\ NodeKnown /\ OpenHoldsTheModule

-----------------------------------------------------------------------------
LEMMA InitLoadInv == Init => LoadInv
  BY DEF Init, LoadInv, TypeOK, SetupKnown, NodeKnown, OpenHoldsTheModule,
         Setup, Loading, Exiting

\* A step of aesd_init.
LEMMA InitStepKeeps == LoadInv /\ (Insmod \/ InitStep) => LoadInv'
<1> SUFFICES ASSUME LoadInv, Insmod \/ InitStep PROVE LoadInv'
  OBVIOUS
<1> USE DEF LoadInv, TypeOK, SetupKnown, NodeKnown, OpenHoldsTheModule,
            Setup, Loading, Exiting, Trans, Registers, Unregisters
<1>1. CASE Insmod
  BY <1>1 DEF Insmod
<1>2. CASE AllocRegion \/ NoRegion
  BY <1>2 DEF AllocRegion, NoRegion
<1>3. CASE AddCdev \/ NoCdev
  BY <1>3 DEF AddCdev, NoCdev
<1>4. CASE CreateClass \/ NoClass
  BY <1>4 DEF CreateClass, NoClass
<1>5. CASE UndoCdev \/ UndoRegion
  BY <1>5 DEF UndoCdev, UndoRegion
<1>6. CASE CreateDevice \/ NoDevice
  BY <1>6 DEF CreateDevice, NoDevice
<1> QED
  BY <1>1, <1>2, <1>3, <1>4, <1>5, <1>6 DEF InitStep

\* A step of aesd_exit.
LEMMA ExitStepKeeps == LoadInv /\ (Rmmod \/ ExitStep) => LoadInv'
<1> SUFFICES ASSUME LoadInv, Rmmod \/ ExitStep PROVE LoadInv'
  OBVIOUS
<1> USE DEF LoadInv, TypeOK, SetupKnown, NodeKnown, OpenHoldsTheModule,
            Setup, Loading, Exiting, Trans, Registers, Unregisters
<1>1. CASE Rmmod
  BY <1>1 DEF Rmmod
<1>2. CASE DestroyDevice
  BY <1>2 DEF DestroyDevice
<1>3. CASE DestroyClass
  BY <1>3 DEF DestroyClass
<1>4. CASE DelCdev \/ FreeRegion
  BY <1>4 DEF DelCdev, FreeRegion
<1> QED
  BY <1>1, <1>2, <1>3, <1>4 DEF ExitStep

\* A step of a process, or of the hands that make and remove the node.
LEMMA OpenerKeeps ==
  LoadInv /\ (Mknod \/ RemoveNode \/ \E p \in Openers : Open(p) \/ Release(p)) => LoadInv'
<1> SUFFICES ASSUME LoadInv, Mknod \/ RemoveNode \/ \E p \in Openers : Open(p) \/ Release(p)
             PROVE  LoadInv'
  OBVIOUS
<1> USE DEF LoadInv, TypeOK, SetupKnown, NodeKnown, OpenHoldsTheModule,
            Setup, Loading, Exiting
<1>1. CASE Mknod \/ RemoveNode
  BY <1>1 DEF Mknod, RemoveNode
<1>2. ASSUME NEW p \in Openers, Open(p) PROVE LoadInv'
  BY <1>2 DEF Open
<1>3. ASSUME NEW p \in Openers, Release(p) PROVE LoadInv'
  BY <1>3 DEF Release
<1> QED
  BY <1>1, <1>2, <1>3

LEMMA NextKeeps == LoadInv /\ [Next]_vars => LoadInv'
<1> SUFFICES ASSUME LoadInv, [Next]_vars PROVE LoadInv'
  OBVIOUS
<1>1. CASE Next
  BY <1>1, InitStepKeeps, ExitStepKeeps, OpenerKeeps DEF Next
<1>2. CASE UNCHANGED vars
  BY <1>2 DEF vars, LoadInv, TypeOK, SetupKnown, NodeKnown, OpenHoldsTheModule
<1> QED
  BY <1>1, <1>2

LEMMA Invariance == Spec => []LoadInv
  BY InitLoadInv, NextKeeps, PTL DEF Spec

-----------------------------------------------------------------------------
\* aesd_init and aesd_exit are always at one of their steps, and the module has
\* one reference for each open file, whatever is opened while they run.
THEOREM TypeCorrect == Spec => []TypeOK
<1>1. LoadInv => TypeOK
  BY DEF LoadInv
<1> QED
  BY <1>1, Invariance, PTL

\* Whatever fails, and whoever opens the device, each registration rests on
\* those before it, and a module that is out has left none behind.
THEOREM SetupUndone == Spec => []NothingDangles
<1>1. LoadInv => NothingDangles
  BY DEF LoadInv, SetupKnown, NothingDangles, TypeOK, Setup, Loading, Exiting
<1> QED
  BY <1>1, Invariance, PTL

\* aesd_exit takes nothing away from a process that has the device open, and an
\* open file on code that is gone dates from an init that failed.
THEOREM ModuleHeld == Spec => []OpenHoldsTheModule
<1>1. LoadInv => OpenHoldsTheModule
  BY DEF LoadInv
<1> QED
  BY <1>1, Invariance, PTL

\* Without a node made by hand nobody gets in before aesd_init has ended.
THEOREM NobodyEarly == Spec => OpenOnlyWhenLive
<1>1. ASSUME LoadInv, NEW p \in Openers, Open(p), pc # "live" PROVE node = "mknod"
  BY <1>1 DEF LoadInv, TypeOK, NodeKnown, Open, Exiting
<1>2. LoadInv => [\A p \in Openers : Open(p) /\ pc # "live" => node = "mknod"]_vars
  BY <1>1
<1> QED
  BY <1>2, Invariance, PTL DEF OpenOnlyWhenLive
=============================================================================
