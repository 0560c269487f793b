----------------------------- MODULE DriverLoad -----------------------------
(* Loading and unloading the aesdchar driver (aesd_init and aesd_exit of     *)
(* aesdchar.c), one registration with the kernel at a time, while processes  *)
(* open and close the device.  What the kernel does is modelled from how the *)
(* driver uses it: a module whose files are open cannot be unloaded, an open *)
(* is refused once unloading has begun, and a module whose init failed is    *)
(* thrown out whatever is open.                                              *)
EXTENDS FiniteSets

CONSTANTS Openers  \* processes, each with at most one file on the device

VARIABLES
    pc,          \* where aesd_init or aesd_exit is: what it calls next
    registered,  \* what of the driver the kernel has
    node,        \* /dev/aesdchar: who made it, as a link to the driver's numbers
    open, refs,  \* the processes with the device open; those that hold the module
    rejected     \* history: the last aesd_init failed

vars == <<pc, registered, node, open, refs, rejected>>

Init ==
    /\ pc = "out" /\ registered = {} /\ node = "none"
    /\ open = {} /\ refs = {} /\ rejected = FALSE

\* aesd_init or aesd_exit goes on, and the rest stays as it is.
Trans(from, to) == pc = from /\ pc' = to /\ UNCHANGED <<open, refs>>

Registers(r)   == registered' = registered \cup {r}
Unregisters(r) == registered' = registered \ {r}

-----------------------------------------------------------------------------
\* aesd_init.  Nothing is said of a kernel that was left with open files whose
\* code is gone.
Insmod ==
    /\ open = {} /\ Trans("out", "alloc_region") /\ rejected' = FALSE
    /\ UNCHANGED <<registered, node>>

AllocRegion ==
    /\ Trans("alloc_region", "add_cdev") /\ Registers("region")
    /\ UNCHANGED <<node, rejected>>

NoRegion ==
    /\ Trans("alloc_region", "out") /\ rejected' = TRUE
    /\ UNCHANGED <<registered, node>>

\* From here on an open of a node with these numbers reaches the driver.
AddCdev ==
    /\ Trans("add_cdev", "create_class") /\ Registers("cdev")
    /\ UNCHANGED <<node, rejected>>

NoCdev ==
    /\ Trans("add_cdev", "undo_region")
    /\ UNCHANGED <<registered, node, rejected>>

CreateClass ==
    /\ Trans("create_class", "create_device") /\ Registers("class")
    /\ UNCHANGED <<node, rejected>>

\* Mutant of NoClass: forgets the cdev.
NoClassKeepsCdev ==
    /\ Trans("create_class", "undo_region")
    /\ UNCHANGED <<registered, node, rejected>>

NoClass ==
    /\ Trans("create_class", "undo_cdev")
    /\ UNCHANGED <<registered, node, rejected>>

UndoCdev ==
    /\ Trans("undo_cdev", "undo_region") /\ Unregisters("cdev")
    /\ UNCHANGED <<node, rejected>>

UndoRegion ==
    /\ Trans("undo_region", "out") /\ Unregisters("region") /\ rejected' = TRUE
    /\ UNCHANGED node

\* devtmpfs makes the node, unless there is one of that name.
CreateDevice ==
    /\ Trans("create_device", "live") /\ Registers("device")
    /\ node' = IF node = "none" THEN "devtmpfs" ELSE node
    /\ UNCHANGED rejected

\* device_create returns an error pointer when it fails.  The code tests for
\* NULL, so that the init succeeds; the branch that would undo it is dead.
NoDevice ==
    /\ Trans("create_device", "live")
    /\ UNCHANGED <<registered, node, rejected>>

-----------------------------------------------------------------------------
\* aesd_exit.
Rmmod ==
    /\ refs = {} /\ Trans("live", "destroy_device")
    /\ UNCHANGED <<registered, node, rejected>>

\* Mutant of DestroyDevice: the call is forgotten.
DestroyDeviceForgotten ==
    /\ Trans("destroy_device", "destroy_class")
    /\ UNCHANGED <<registered, node, rejected>>

\* Nothing happens for a device that was never created; devtmpfs removes only
\* a node it made.
DestroyDevice ==
    /\ Trans("destroy_device", "destroy_class") /\ Unregisters("device")
    /\ node' = IF node = "devtmpfs" THEN "none" ELSE node
    /\ UNCHANGED rejected

DestroyClass ==
    /\ Trans("destroy_class", "del_cdev") /\ Unregisters("class")
    /\ UNCHANGED <<node, rejected>>

DelCdev ==
    /\ Trans("del_cdev", "free_region") /\ Unregisters("cdev")
    /\ UNCHANGED <<node, rejected>>

FreeRegion ==
    /\ Trans("free_region", "out") /\ Unregisters("region")
    /\ UNCHANGED <<node, rejected>>

-----------------------------------------------------------------------------
Exiting == {"destroy_device", "destroy_class", "del_cdev", "free_region"}

\* Mutant of Open: without .owner in aesd_fops and aesd_cdev the open takes no
\* reference to the module.
OpenUnowned(p) ==
    /\ node # "none" /\ "cdev" \in registered /\ pc \notin Exiting
    /\ p \notin open /\ open' = open \cup {p}
    /\ UNCHANGED <<pc, registered, node, refs, rejected>>

\* chrdev_open finds the cdev by its numbers and takes a reference to its
\* owner, which the kernel grants while the module is loading, too.
Open(p) ==
    /\ node # "none" /\ "cdev" \in registered /\ pc \notin Exiting
    /\ p \notin open /\ open' = open \cup {p}
    /\ refs' = refs \cup {p}
    /\ UNCHANGED <<pc, registered, node, rejected>>

Release(p) ==
    /\ p \in open /\ pc # "out"
    /\ open' = open \ {p} /\ refs' = refs \ {p}
    /\ UNCHANGED <<pc, registered, node, rejected>>

\* A node made by hand, as aesdchar_load does after it removed the one that is
\* there, stays until it is removed by hand, which aesdchar_unload does last.
Mknod ==
    /\ "region" \in registered /\ node = "none" /\ node' = "mknod"
    /\ UNCHANGED <<pc, registered, open, refs, rejected>>

RemoveNode ==
    /\ node' = "none" /\ node # "none"
    /\ UNCHANGED <<pc, registered, open, refs, rejected>>

InitStep == \/ AllocRegion \/ NoRegion \/ AddCdev \/ NoCdev \/ CreateClass \/ NoClass
            \/ UndoCdev \/ UndoRegion \/ CreateDevice \/ NoDevice
ExitStep == DestroyDevice \/ DestroyClass \/ DelCdev \/ FreeRegion

Next == \/ Insmod \/ InitStep \/ Rmmod \/ ExitStep
        \/ Mknod \/ RemoveNode
        \/ \E p \in Openers : Open(p) \/ Release(p)

Spec == Init /\ [][Next]_vars

-----------------------------------------------------------------------------
Setup == {"region", "cdev", "class", "device"}

Loading == {"alloc_region", "add_cdev", "create_class", "create_device", "undo_cdev",
            "undo_region"}

TypeOK ==
    /\ pc \in {"out", "live"} \cup Loading \cup Exiting
    /\ registered \subseteq Setup
    /\ node \in {"none", "devtmpfs", "mknod"}
    /\ open \subseteq Openers /\ refs = open
    /\ rejected \in BOOLEAN

\* Each registration rests on those before it, at every moment of loading,
\* failing and unloading, and a module that is out has left none behind: what
\* stays registered would point at freed code and make the next load fail.
NothingDangles ==
    /\ "cdev" \in registered => "region" \in registered
    /\ "class" \in registered => "cdev" \in registered
    /\ "device" \in registered => "class" \in registered
    /\ pc = "out" => registered = {}

\* Nobody has the device open while aesd_exit takes it away.  Code that is gone
\* has an open file in one case only: the file was opened between cdev_add and
\* a class_create that failed, through a node that was there before.
OpenHoldsTheModule ==
    /\ pc \in Exiting => open = {}
    /\ pc = "out" /\ open # {} => rejected

\* Without nodes made by hand that window is closed: nobody gets in before
\* the last step of aesd_init.
OpenOnlyWhenLive ==
    [][\A p \in Openers : Open(p) /\ pc # "live" => node = "mknod"]_vars
=============================================================================
