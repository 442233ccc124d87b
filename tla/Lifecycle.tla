----------------------------- MODULE Lifecycle -----------------------------
(***************************************************************************)
(* From Probe to the end of the server: PreInit with the KMS set-up,       *)
(* ScreenInit, VT switches, CloseScreen and the next generation, and       *)
(* FreeScreen when PreInit has failed.                                     *)
(*                                                                         *)
(* The calls a handler makes can fail one by one, and each has its own     *)
(* error path, so pc is the call to be made next (named after the function *)
(* called).  held is what has been acquired and not been released: memory, *)
(* descriptors, objects of the kernel and of udev.  A call in Failing may  *)
(* fail.  One screen is followed.                                          *)
(***************************************************************************)
EXTENDS Integers, FiniteSets

CONSTANTS
    NumSection,    \* device sections of xorg.conf that match
    NumCrtc,       \* mode_res->count_crtcs
    NumOutput,     \* mode_res->count_connectors
    MaxGen,        \* bound: server generations
    Failing        \* the calls that may fail

ASSUME LifecycleAssumption ==
    /\ NumSection \in Nat \ {0} /\ NumCrtc \in Nat \ {0} /\ NumOutput \in Nat
    /\ MaxGen \in Nat

VARIABLES
    pc,            \* the next call, or where the server rests
    section,       \* loop variable of Probe
    held,          \* what is acquired; of CRTCs and outputs only the one being made
    num_crtc,      \* CRTCs in the list of the server, each with its record and cursor bo
    num_output,    \* outputs in that list, each with its record and connector
    exaRecords,    \* EXA records allocated; pOMAPEXA is the last
    drmFD,         \* -1, 0 as calloc leaves it, or 1 for an open descriptor
    hooks,         \* how often each handler is registered with the server
    master,        \* does the kernel regard us as DRM master?
    vtSema,        \* does the server own the virtual terminal?
    root,          \* geteuid() == 0
    gen            \* server generations begun

screenVars == <<exaRecords, hooks, vtSema, gen>>
kmsVars    == <<num_crtc, num_output>>
drmVars    == <<drmFD, master>>
lifeVars   == <<pc, section, held, num_crtc, num_output, exaRecords, drmFD, hooks, master,
                vtSema, root, gen>>

Hooks == {"CloseScreen", "cursors", "uevent", "socket", "wakeup"}

Init ==
    /\ pc = "MatchDevice" /\ section = 1 /\ held = {}
    /\ num_crtc = 0 /\ num_output = 0 /\ exaRecords = 0
    /\ drmFD = 0 /\ master = FALSE
    /\ hooks = [h \in Hooks |-> 0]
    /\ vtSema = FALSE /\ gen = 0
    /\ root \in BOOLEAN

\* A call that acquires r; a call that fails and frees r on its error path; a
\* call that only succeeds or not.
Gets(at, next, r)  == pc = at /\ pc' = next /\ held' = held \cup {r}
Frees(at, next, r) == pc = at /\ pc' = next /\ held' = held \ r
Fails(at, next, r) == at \in Failing /\ Frees(at, next, r)
Passes(at, next)   == Frees(at, next, {})

Registered(hs)   == [h \in Hooks |-> IF h \in hs THEN hooks[h] + 1 ELSE hooks[h]]
Unregistered(hs) == [h \in Hooks |-> IF h \in hs THEN hooks[h] - 1 ELSE hooks[h]]

-----------------------------------------------------------------------------
(* OMAPProbe: open and close the device for each section.                  *)

Probe ==
    /\ \/ /\ section <= NumSection
          /\ Fails("OpenDRM", "OpenDRM", {})
          /\ section' = section + 1
       \/ /\ pc = "AllocateScreen" /\ pc' = "OpenDRM"
          /\ held' = (held \cup {"screen"}) \ {"probe_fd"}
          /\ section' = section + 1
       \/ /\ \/ Gets("MatchDevice", "OpenDRM", "sections")
             \/ Fails("MatchDevice", "exit", {})
             \/ section <= NumSection /\ Gets("OpenDRM", "AllocateScreen", "probe_fd")
             \/ section > NumSection /\ Passes("OpenDRM", "free_sections")
             \/ Fails("AllocateScreen", "free_sections", {"probe_fd"})
             \/ Frees("free_sections", IF "screen" \in held THEN "NumEntities" ELSE "exit",
                      {"sections"})
          /\ UNCHANGED section
    /\ UNCHANGED <<kmsVars, screenVars, drmVars, root>>

-----------------------------------------------------------------------------
(* OMAPPreInit, up to the KMS set-up.                                      *)

\* When OMAPGetRec finds no memory PreInit uses the NULL pointer.
GetRec ==
    /\ \/ Gets("GetRec", "SetDepthBpp", "rec") /\ drmFD' = 0
       \/ /\ \/ Passes("NumEntities", "GetRec")
             \/ Fails("NumEntities", "FreeScreen", {})
             \/ Fails("GetRec", "crashed", {})
             \/ Passes("SetDepthBpp", "OpenDRMMaster")
             \/ Fails("SetDepthBpp", "FreeScreen", {})
          /\ UNCHANGED drmFD
    /\ UNCHANGED <<section, kmsVars, screenVars, master, root>>

\* The kernel makes the first process that opens the device its master.
OpenDRMMaster ==
    /\ \/ Gets("OpenDRMMaster", "SetInterfaceVersion", "fd") /\ drmFD' = 1 /\ master' \in BOOLEAN
       \/ Fails("OpenDRMMaster", "FreeScreen", {}) /\ drmFD' = -1 /\ UNCHANGED master
       \/ Gets("SetInterfaceVersion", "device_new", "deviceName") /\ UNCHANGED drmVars
       \/ Fails("SetInterfaceVersion", "FreeScreen", {"fd"}) /\ drmFD' = -1 /\ master' = FALSE
    /\ UNCHANGED <<section, kmsVars, screenVars, root>>

\* PreInit does not look at what omap_device_new returns.
DeviceAndOptions ==
    /\ \/ Gets("device_new", "malloc_options", "dev")
       \/ Fails("device_new", "malloc_options", {})
       \/ Gets("malloc_options", "GetResources", "options")
       \/ Fails("malloc_options", "FreeScreen", {})
    /\ UNCHANGED <<section, kmsVars, screenVars, drmVars, root>>

-----------------------------------------------------------------------------
(* drmmode_pre_init, whose failure PreInit only logs.                      *)

KmsResources ==
    /\ \/ Gets("GetResources", "GetPlaneResources", "mode_res")
       \/ Fails("GetResources", "LoadSubModules", {})
       \/ Gets("GetPlaneResources", "calloc_drmmode", "plane_res")
       \/ Fails("GetPlaneResources", "LoadSubModules", {"mode_res"})
       \/ Gets("calloc_drmmode", "calloc_crtc", "drmmode")
       \/ Fails("calloc_drmmode", "LoadSubModules", {"plane_res", "mode_res"})
    /\ UNCHANGED <<section, kmsVars, screenVars, drmVars, root>>

\* drmmode_crtc_pre_init; the cursor bo is made on a device that may be NULL.
CrtcPreInit ==
    /\ \/ Frees("CrtcCreate", "calloc_crtc", {"crtc", "cursor"}) /\ num_crtc' = num_crtc + 1
       \/ /\ \/ /\ num_crtc < NumCrtc
                /\ \/ Gets("calloc_crtc", "bo_new_cursor", "crtc")
                   \/ Fails("calloc_crtc", "crtcs_destroy", {})
             \/ num_crtc = NumCrtc /\ Passes("calloc_crtc", "GetConnector")
             \/ /\ "dev" \in held
                /\ \/ Gets("bo_new_cursor", "CrtcCreate", "cursor")
                   \/ Fails("bo_new_cursor", "crtcs_destroy", {"crtc"})
             \/ "dev" \notin held /\ Passes("bo_new_cursor", "crashed")
             \/ Fails("CrtcCreate", "crtcs_destroy", {"crtc", "cursor"})
          /\ UNCHANGED num_crtc
    /\ UNCHANGED <<section, num_output, screenVars, drmVars, root>>

\* drmmode_output_pre_init, and xf86InitialConfiguration after the last output.
OutputPreInit ==
    /\ \/ /\ Frees("OutputCreate", "GetConnector", {"connector", "output"})
          /\ num_output' = num_output + 1
       \/ /\ \/ /\ num_output < NumOutput
                /\ \/ Gets("GetConnector", "GetEncoder", "connector")
                   \/ Fails("GetConnector", "outputs_destroy", {})
             \/ num_output = NumOutput /\ Passes("GetConnector", "InitialConfiguration")
             \/ Passes("GetEncoder", "calloc_output")
             \/ Fails("GetEncoder", "outputs_destroy", {"connector"})
             \/ Gets("calloc_output", "OutputCreate", "output")
             \/ Fails("calloc_output", "outputs_destroy", {"connector"})
             \/ Fails("OutputCreate", "outputs_destroy", {"connector", "output"})
             \/ Frees("InitialConfiguration", "LoadSubModules", {"plane_res", "mode_res"})
             \/ Fails("InitialConfiguration", "outputs_destroy", {})
          /\ UNCHANGED num_output
    /\ UNCHANGED <<section, num_crtc, screenVars, drmVars, root>>

CrtcsKept ==                                     \* mutant: only the outputs go
    /\ \/ Passes("outputs_destroy", "crtcs_destroy") /\ num_output' = 0
       \/ Frees("crtcs_destroy", "LoadSubModules", {"drmmode", "plane_res", "mode_res"})
          /\ UNCHANGED num_output
    /\ UNCHANGED <<section, num_crtc, screenVars, drmVars, root>>

\* The error labels: what is in the lists goes, then the rest.
KmsUndo ==
    /\ \/ Passes("outputs_destroy", "crtcs_destroy") /\ num_output' = 0 /\ UNCHANGED num_crtc
       \/ Frees("crtcs_destroy", "LoadSubModules", {"drmmode", "plane_res", "mode_res"})
          /\ num_crtc' = 0 /\ UNCHANGED num_output
    /\ UNCHANGED <<section, screenVars, drmVars, root>>

\* The end of PreInit: pixel size and sub-modules.
LoadSubModules ==
    /\ Passes("LoadSubModules", "ready") \/ Fails("LoadSubModules", "FreeScreen", {})
    /\ UNCHANGED <<section, kmsVars, screenVars, drmVars, root>>

\* What OMAPFreeScreen frees; a calloc'ed record has drmFD 0, which is no
\* descriptor of its own.
FreedByFreeScreen ==
    {"dev", "rec"} \cup (IF drmFD > 0 THEN {"fd", "deviceName"} ELSE {})

\* The server deletes a screen whose PreInit failed.  omap_device_del does not
\* look for a NULL device.
FreeScreen ==
    /\ \/ "rec" \notin held /\ Passes("FreeScreen", "deleted") /\ UNCHANGED drmVars
       \/ "rec" \in held /\ "dev" \notin held /\ Passes("FreeScreen", "crashed") /\ UNCHANGED drmVars
       \/ /\ {"rec", "dev"} \subseteq held
          /\ Frees("FreeScreen", "deleted", FreedByFreeScreen)
          /\ drmFD' = -1 /\ master' = (master /\ "fd" \notin FreedByFreeScreen)
    /\ UNCHANGED <<section, kmsVars, screenVars, root>>

-----------------------------------------------------------------------------
(* OMAPScreenInit.                                                         *)

\* A new generation begins with the root bo.
ScreenInitStart ==
    /\ \/ /\ pc \in {"ready", "closed"} /\ gen < MaxGen
          /\ pc' = "MapMem" /\ gen' = gen + 1
          /\ UNCHANGED held
       \/ /\ \/ "dev" \notin held /\ Passes("MapMem", "crashed")
             \/ "dev" \in held /\ Gets("MapMem", "bo_map", "scanout")
             \/ "dev" \in held /\ Fails("MapMem", "FatalError", {})
          /\ UNCHANGED gen
    /\ UNCHANGED <<section, kmsVars, exaRecords, hooks, vtSema, drmVars, root>>

\* drmmode_copy_fb, whose failures only leave the screen as it is.
CopyFb ==
    /\ \/ Passes("bo_map", "open_fb0")
       \/ Fails("bo_map", "SetVisualTypes", {})
       \/ Gets("open_fb0", "fb0_info", "fb0")
       \/ Fails("open_fb0", "SetVisualTypes", {})
       \/ Passes("fb0_info", "mmap_fb0")
       \/ Fails("fb0_info", "SetVisualTypes", {"fb0"})
       \/ Gets("mmap_fb0", "copy_fb0", "fb0_map")
       \/ Fails("mmap_fb0", "SetVisualTypes", {"fb0"})
       \/ Frees("copy_fb0", "SetVisualTypes", {"fb0_map", "fb0"})
    /\ UNCHANGED <<section, kmsVars, screenVars, drmVars, root>>

\* The EXA record of this generation, which nobody frees when it ends.
InitNullEXA ==
    /\ \/ Frees("exaDriverInit", "DRI2ScreenInit", {"null_exa", "exa"})
          /\ exaRecords' = exaRecords + 1
       \/ /\ \/ Gets("calloc_exa", "exaDriverAlloc", "null_exa")
             \/ Fails("calloc_exa", "FatalError", {})
             \/ Gets("exaDriverAlloc", "exaDriverInit", "exa")
             \/ Fails("exaDriverAlloc", "FatalError", {"null_exa"})
             \/ Fails("exaDriverInit", "FatalError", {"exa", "null_exa"})
          /\ UNCHANGED exaRecords
    /\ UNCHANGED <<section, kmsVars, hooks, vtSema, gen, drmVars, root>>

\* Visuals, fb and Render, then EXA and DRI2.
ScreenInitRendering ==
    /\ \/ Passes("SetVisualTypes", "calloc_exa")
       \/ Fails("SetVisualTypes", "FatalError", {})
       \/ Gets("DRI2ScreenInit", "EnterVT", "dri2")
       \/ Fails("DRI2ScreenInit", "FatalError", {})
    /\ UNCHANGED <<section, kmsVars, screenVars, drmVars, root>>

\* OMAPEnterVT: a process that is not root has no say in who is master, and a
\* failed mode set does not give the master up.
EnterVTResults ==
    {[ret |-> TRUE, master |-> root \/ master]}
    \cup {[ret |-> FALSE, master |-> m] : m \in
            {master : x \in IF root THEN {"SetMaster"} \cap Failing ELSE {}}
            \cup {root \/ master : x \in {"SetDesiredModes"} \cap Failing}}

ScreenInitEnterVT ==
    /\ pc = "EnterVT"
    /\ vtSema' = TRUE
    /\ \E r \in EnterVTResults :
         /\ master' = r.master
         /\ pc' = IF r.ret THEN "CrtcScreenInit" ELSE "FatalError"
    /\ UNCHANGED <<section, held, kmsVars, exaRecords, hooks, gen, drmFD, root>>

\* xf86CrtcScreenInit and the colormaps; CloseScreen is wrapped; then
\* drmmode_screen_init, which finds its record through the first CRTC.
ScreenInitHooks ==
    /\ \/ /\ Passes("CrtcScreenInit", "cursors_init")
          /\ hooks' = Registered({"CloseScreen"})
       \/ num_crtc > 0 /\ Passes("cursors_init", "udev_new") /\ hooks' = Registered({"cursors"})
       \/ /\ Passes("AddGeneralHandler", "RegisterWakeup")
          /\ hooks' = Registered({"uevent", "socket"})
       \/ Passes("RegisterWakeup", "running") /\ hooks' = Registered({"wakeup"})
       \/ /\ Fails("RegisterWakeup", "cursors_fini", {"monitor", "udev"})
          /\ hooks' = Unregistered({"uevent", "socket"})
       \/ Passes("cursors_fini", "FatalError") /\ hooks' = Unregistered({"cursors"})
       \/ /\ \/ Fails("CrtcScreenInit", "FatalError", {})
             \/ num_crtc = 0 /\ Passes("cursors_init", "crashed")
             \/ num_crtc > 0 /\ Fails("cursors_init", "FatalError", {})
             \/ Gets("udev_new", "monitor_new", "udev")
             \/ Fails("udev_new", "cursors_fini", {})
             \/ Gets("monitor_new", "monitor_filter", "monitor")
             \/ Fails("monitor_new", "cursors_fini", {"udev"})
             \/ Passes("monitor_filter", "AddGeneralHandler")
             \/ Fails("monitor_filter", "cursors_fini", {"monitor", "udev"})
             \/ Fails("AddGeneralHandler", "cursors_fini", {"monitor", "udev"})
          /\ UNCHANGED hooks
    /\ UNCHANGED <<section, kmsVars, exaRecords, vtSema, gen, drmVars, root>>

-----------------------------------------------------------------------------
(* VT switches, the end of a generation, and the end of the server.        *)

\* OMAPLeaveVT; a drop that fails is only warned about.
Dropped == IF ~root THEN {master}
           ELSE IF "DropMaster" \in Failing THEN {FALSE, master} ELSE {FALSE}

LeaveVT ==
    /\ pc = "running" /\ pc' = "away"
    /\ master' \in Dropped
    /\ vtSema' = FALSE
    /\ UNCHANGED <<section, held, kmsVars, exaRecords, hooks, gen, drmFD, root>>

\* The server sets vtSema first, and gives up when the driver's EnterVT fails.
EnterVT ==
    /\ pc = "away"
    /\ vtSema' = TRUE
    /\ \E r \in EnterVTResults :
         /\ master' = r.master
         /\ pc' = IF r.ret THEN "running" ELSE "FatalError"
    /\ UNCHANGED <<section, held, kmsVars, exaRecords, hooks, gen, drmFD, root>>

VTForgotten == {master}                     \* mutant: vtSema is cleared too early
LeftOnClose == IF vtSema THEN Dropped ELSE {master}

ClosedHooksButSocket == Hooks \ {"socket"}  \* mutant: RemoveGeneralSocket is missing

\* drmmode_close_screen takes back what drmmode_screen_init registered, and
\* OMAPCloseScreen unwraps itself.
ClosedHooks == Hooks

\* OMAPCloseScreen; the EXA record is not freed.
CloseScreen ==
    /\ pc \in {"running", "away"} /\ pc' = "closed"
    /\ hooks' = Unregistered(ClosedHooks)
    /\ master' \in LeftOnClose
    /\ held' = held \ {"monitor", "udev", "dri2", "scanout"}
    /\ vtSema' = FALSE
    /\ UNCHANGED <<section, kmsVars, exaRecords, gen, drmFD, root>>

\* The server ends after a generation, or by FatalError, which leaves the VT.
Exit ==
    /\ \/ pc = "closed" /\ UNCHANGED master
       \/ pc = "FatalError" /\ master' \in LeftOnClose
    /\ pc' = "exit"
    /\ UNCHANGED <<section, held, kmsVars, screenVars, drmFD, root>>

-----------------------------------------------------------------------------
PreInit == \/ GetRec \/ OpenDRMMaster \/ DeviceAndOptions
           \/ KmsResources \/ CrtcPreInit \/ OutputPreInit \/ KmsUndo
           \/ LoadSubModules
ScreenInit == \/ ScreenInitStart \/ CopyFb \/ InitNullEXA \/ ScreenInitRendering
              \/ ScreenInitEnterVT \/ ScreenInitHooks

Next == \/ Probe \/ PreInit \/ FreeScreen
        \/ ScreenInit \/ EnterVT \/ LeaveVT \/ CloseScreen \/ Exit

Spec == Init /\ [][Next]_lifeVars
=============================================================================
