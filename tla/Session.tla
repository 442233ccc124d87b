------------------------------ MODULE Session ------------------------------
(***************************************************************************)
(* The life of the server with the properties of one of its outputs: the   *)
(* table of properties is made in every generation, the kernel is asked    *)
(* for values only while the server has the virtual terminal, and hotplug  *)
(* events arrive through the udev monitor that ScreenInit makes and        *)
(* CloseScreen destroys.                                                   *)
(***************************************************************************)
EXTENDS Lifecycle, Sequences

CONSTANTS MaxProps, Values, Junk, Ignored, Unhandled     \* of OutputProps

ASSUME SessionAssumption == MaxProps \in Nat /\ Junk \notin Values

VARIABLES
    kprops, mode_output, num_props, props, query, conn, buffers,   \* of OutputProps
    created,      \* the last generation whose resources were made
    uevents,      \* hotplug events the monitor has and nobody has read
    missed        \* history: was an event lost since the last detection?

P == INSTANCE OutputProps

outVars     == <<kprops, mode_output, num_props, props, query, conn, buffers>>
coreVars    == <<created, uevents, missed>>
sessionVars == <<lifeVars, outVars, coreVars>>

SessionInit ==
    /\ Init
    /\ P!InitProps
    /\ created = 0 /\ uevents = 0 /\ missed = FALSE

Up   == pc \in {"running", "away"} /\ created = gen     \* clients are served
Idle == query.pc = "idle"                               \* the server's one thread is free

-----------------------------------------------------------------------------
(* The server.                                                             *)

\* RandR makes the resources of an output before the first client comes.
MakeResources ==
    /\ pc = "running" /\ created # gen /\ num_output > 0
    /\ P!CreateResources
    /\ created' = gen
    /\ UNCHANGED <<lifeVars, uevents, missed>>

\* A step in the life of the server.  Events go with the monitor.
Live ==
    /\ Idle
    /\ pc \in {"running", "away"} => Up
    /\ Next
    /\ uevents' = IF "monitor" \in held' THEN uevents ELSE 0
    /\ missed' = (missed \/ uevents' < uevents)
    /\ UNCHANGED <<outVars, created>>

UeventDropped ==                            \* mutant: the test of HOTPLUG is inverted
    /\ Up /\ Idle /\ hooks["uevent"] > 0 /\ uevents > 0
    /\ UNCHANGED <<outVars, missed>>
    /\ uevents' = uevents - 1
    /\ UNCHANGED <<lifeVars, created>>

\* drmmode_handle_uevents; RandR detects nothing while the VT is somebody else's.
\* An event of another device, or one that is not HOTPLUG=1, is read and changes
\* nothing; uevents does not count it.
HandleUevents ==
    /\ Up /\ Idle /\ hooks["uevent"] > 0 /\ uevents > 0
    /\ \/ vtSema /\ P!Detect /\ missed' = FALSE
       \/ ~vtSema /\ UNCHANGED outVars /\ missed' = TRUE
       \/ {"udev_monitor_receive_device", "fstat"} \cap Failing # {}
          /\ UNCHANGED outVars /\ missed' = TRUE
    /\ uevents' = uevents - 1
    /\ UNCHANGED <<lifeVars, created>>

\* A client asks RandR for the state of the outputs.
ClientDetects ==
    /\ Up /\ vtSema
    /\ P!Detect /\ missed' = FALSE
    /\ UNCHANGED <<lifeVars, created, uevents>>

ClientUsesProperty ==
    /\ Up /\ (P!SetProperty \/ P!GetProperty)
    /\ UNCHANGED <<lifeVars, coreVars>>

QueryStep ==
    /\ P!QueryStep
    /\ UNCHANGED <<lifeVars, coreVars>>

-----------------------------------------------------------------------------
(* The kernel.                                                             *)

\* Events are counted to one: a second changes nothing that the first has not.
Hotplug ==
    /\ Up /\ P!Hotplug
    /\ uevents' = IF hooks["uevent"] > 0 THEN 1 ELSE 0
    /\ missed' = (missed \/ hooks["uevent"] = 0)
    /\ UNCHANGED <<lifeVars, created>>

ValueChanges ==
    /\ Up /\ P!ValueChanges
    /\ UNCHANGED <<lifeVars, coreVars>>

SessionNext ==
    \/ Live \/ MakeResources \/ HandleUevents \/ ClientDetects \/ ClientUsesProperty
    \/ QueryStep \/ Hotplug \/ ValueChanges

\* The server's thread finishes the query it is in.
SessionSpec ==
    SessionInit /\ [][SessionNext]_sessionVars /\ WF_sessionVars(QueryStep)
=============================================================================
