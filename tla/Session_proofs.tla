--------------------------- MODULE Session_proofs ---------------------------
(***************************************************************************)
(* Proofs about the life of the server, for any number of sections, CRTCs, *)
(* outputs and generations, and any set of calls that may fail.            *)
(***************************************************************************)
EXTENDS SessionProperties, FiniteSetTheorems, SequenceTheorems, TLAPS

\* What is held while each call is the next to be made, but for the device,
\* which may be missing since nobody looks at the result of omap_device_new.
Own     == held \ {"dev"}
Device  == {"screen", "rec", "fd", "deviceName"}
Options == Device \cup {"options"}
KMS     == Options \cup {"mode_res", "plane_res", "drmmode"}
Ready   == IF num_crtc > 0 THEN Options \cup {"drmmode"} ELSE Options
Shown   == Ready \cup {"scanout"}

HeldInProbe ==
    /\ pc = "MatchDevice" => held = {}
    /\ pc \in {"OpenDRM", "free_sections"} => held \ {"screen"} = {"sections"}
    /\ pc = "AllocateScreen" => held \ {"screen"} = {"sections", "probe_fd"}
    /\ pc \notin {"MatchDevice", "OpenDRM", "AllocateScreen", "free_sections"} =>
           "sections" \notin held /\ "probe_fd" \notin held

HeldInPreInit ==
    /\ pc \in {"NumEntities", "GetRec"} => held = {"screen"}
    /\ pc \in {"SetDepthBpp", "OpenDRMMaster"} => held = {"screen", "rec"}
    /\ pc = "SetInterfaceVersion" => held = {"screen", "rec", "fd"}
    /\ pc = "device_new" => held = Device
    /\ pc = "malloc_options" => Own = Device
    /\ pc = "GetResources" => Own = Options
    /\ pc = "LoadSubModules" => Own = Ready
    /\ pc = "FreeScreen" => \/ held \in {{"screen"}, {"screen", "rec"}} /\ drmFD <= 0
                            \/ Own \in {Device, Ready} /\ drmFD = 1
    /\ pc \in {"SetInterfaceVersion", "device_new", "malloc_options", "GetResources",
               "GetPlaneResources", "calloc_drmmode", "calloc_crtc", "bo_new_cursor", "CrtcCreate",
               "GetConnector", "GetEncoder", "calloc_output", "OutputCreate",
               "InitialConfiguration", "outputs_destroy", "crtcs_destroy",
               "LoadSubModules"} => drmFD = 1
    /\ pc \in {"MatchDevice", "OpenDRM", "AllocateScreen", "free_sections", "NumEntities",
               "GetRec", "SetDepthBpp", "OpenDRMMaster"} => drmFD = 0
    /\ pc = "deleted" => held \cap {"rec", "dev", "fd", "deviceName"} = {}

HeldInKms ==
    /\ pc = "GetPlaneResources" => Own = Options \cup {"mode_res"}
    /\ pc = "calloc_drmmode" => Own = Options \cup {"mode_res", "plane_res"}
    /\ pc \in {"calloc_crtc", "GetConnector", "InitialConfiguration",
               "outputs_destroy", "crtcs_destroy"} => Own = KMS
    /\ pc = "bo_new_cursor" => Own = KMS \cup {"crtc"}
    /\ pc = "CrtcCreate" => Own = KMS \cup {"crtc", "cursor"}
    /\ pc \in {"GetEncoder", "calloc_output"} => Own = KMS \cup {"connector"}
    /\ pc = "OutputCreate" => Own = KMS \cup {"connector", "output"}

HeldInScreenInit ==
    /\ pc \in {"MapMem", "ready", "closed"} => Own = Ready
    /\ pc \in {"bo_map", "open_fb0", "SetVisualTypes", "calloc_exa", "DRI2ScreenInit"} =>
           Own = Shown
    /\ pc \in {"fb0_info", "mmap_fb0"} => Own = Shown \cup {"fb0"}
    /\ pc = "copy_fb0" => Own = Shown \cup {"fb0", "fb0_map"}
    /\ pc = "exaDriverAlloc" => Own = Shown \cup {"null_exa"}
    /\ pc = "exaDriverInit" => Own = Shown \cup {"null_exa", "exa"}
    /\ pc \in {"EnterVT", "CrtcScreenInit", "cursors_init", "udev_new", "cursors_fini"} =>
           Own = Shown \cup {"dri2"}
    /\ pc = "monitor_new" => Own = Shown \cup {"dri2", "udev"}
    /\ pc \in {"monitor_filter", "AddGeneralHandler", "RegisterWakeup", "running", "away"} =>
           Own = Shown \cup {"dri2", "udev", "monitor"}

Early  == {"MatchDevice", "OpenDRM", "AllocateScreen", "free_sections", "NumEntities",
           "GetRec", "SetDepthBpp", "OpenDRMMaster", "SetInterfaceVersion", "device_new",
           "malloc_options", "GetResources", "GetPlaneResources", "calloc_drmmode"}
Crtcs  == {"calloc_crtc", "bo_new_cursor", "CrtcCreate"}
Outputs == {"GetConnector", "GetEncoder", "calloc_output", "OutputCreate"}
InitPCs == {"MapMem", "bo_map", "open_fb0", "fb0_info", "mmap_fb0", "copy_fb0",
            "SetVisualTypes", "calloc_exa", "exaDriverAlloc", "exaDriverInit"}
LatePCs == {"udev_new", "monitor_new", "monitor_filter", "AddGeneralHandler",
            "RegisterWakeup", "cursors_fini", "running", "away"}
Counts == {<<0, 0>>, <<NumCrtc, NumOutput>>}

Numbers ==
    /\ num_crtc \in 0..NumCrtc /\ num_output \in 0..NumOutput
    /\ exaRecords \in Nat /\ gen \in Nat /\ drmFD \in -1..1
    /\ pc \in Early => num_crtc = 0 /\ num_output = 0
    /\ pc \in Crtcs => num_output = 0
    /\ pc \in {"bo_new_cursor", "CrtcCreate"} => num_crtc < NumCrtc
    /\ pc \in Outputs \cup {"InitialConfiguration"} => num_crtc = NumCrtc
    /\ pc \in {"GetEncoder", "calloc_output", "OutputCreate"} => num_output < NumOutput
    /\ pc = "InitialConfiguration" => num_output = NumOutput
    /\ pc = "crtcs_destroy" => num_output = 0
    /\ pc \in {"LoadSubModules", "FreeScreen", "ready", "closed", "deleted", "DRI2ScreenInit",
               "EnterVT", "CrtcScreenInit", "cursors_init"}
              \cup InitPCs \cup LatePCs => <<num_crtc, num_output>> \in Counts
    /\ pc \in LatePCs => num_crtc > 0
    /\ pc \in Early \cup Crtcs \cup Outputs
              \cup {"InitialConfiguration", "outputs_destroy", "crtcs_destroy",
                    "LoadSubModules", "FreeScreen", "ready", "closed", "DRI2ScreenInit",
                    "EnterVT", "CrtcScreenInit", "cursors_init"} \cup LatePCs =>
           exaRecords = gen
    /\ pc \in InitPCs => exaRecords + 1 = gen
    /\ pc \in {"DRI2ScreenInit", "EnterVT", "CrtcScreenInit", "cursors_init"}
              \cup (InitPCs \ {"MapMem"}) \cup LatePCs => "dev" \in held

\* The inductive invariant of what is held and counted.
IInv == HeldInProbe /\ HeldInPreInit /\ HeldInKms /\ HeldInScreenInit /\ Numbers


LEMMA InvInit == Init => IInv
  BY LifecycleAssumption, SMT
  DEF Init, IInv, HeldInProbe, HeldInPreInit, HeldInKms, HeldInScreenInit, Numbers,
      Own, Ready, Device, Options, KMS, Shown,
      Early, Crtcs, Outputs, InitPCs, LatePCs, Counts

LEMMA InvProbe == IInv /\ Probe => IInv'
  BY LifecycleAssumption, SMTT(60)
  DEF Probe,
      Gets, Frees, Fails, Passes, kmsVars, screenVars, drmVars,
      IInv, HeldInProbe, HeldInPreInit, HeldInKms, HeldInScreenInit, Numbers,
      Own, Ready, Device, Options, KMS, Shown,
      Early, Crtcs, Outputs, InitPCs, LatePCs, Counts

LEMMA InvGetRec == IInv /\ GetRec => IInv'
  BY LifecycleAssumption, SMTT(60)
  DEF GetRec,
      Gets, Frees, Fails, Passes, kmsVars, screenVars, drmVars,
      IInv, HeldInProbe, HeldInPreInit, HeldInKms, HeldInScreenInit, Numbers,
      Own, Ready, Device, Options, KMS, Shown,
      Early, Crtcs, Outputs, InitPCs, LatePCs, Counts

LEMMA InvOpenDRMMaster == IInv /\ OpenDRMMaster => IInv'
  BY LifecycleAssumption, SMTT(60)
  DEF OpenDRMMaster,
      Gets, Frees, Fails, Passes, kmsVars, screenVars, drmVars,
      IInv, HeldInProbe, HeldInPreInit, HeldInKms, HeldInScreenInit, Numbers,
      Own, Ready, Device, Options, KMS, Shown,
      Early, Crtcs, Outputs, InitPCs, LatePCs, Counts

LEMMA InvDeviceAndOptions == IInv /\ DeviceAndOptions => IInv'
  BY LifecycleAssumption, SMTT(60)
  DEF DeviceAndOptions,
      Gets, Frees, Fails, Passes, kmsVars, screenVars, drmVars,
      IInv, HeldInProbe, HeldInPreInit, HeldInKms, HeldInScreenInit, Numbers,
      Own, Ready, Device, Options, KMS, Shown,
      Early, Crtcs, Outputs, InitPCs, LatePCs, Counts

LEMMA InvKmsResources == IInv /\ KmsResources => IInv'
  BY LifecycleAssumption, SMTT(60)
  DEF KmsResources,
      Gets, Frees, Fails, Passes, kmsVars, screenVars, drmVars,
      IInv, HeldInProbe, HeldInPreInit, HeldInKms, HeldInScreenInit, Numbers,
      Own, Ready, Device, Options, KMS, Shown,
      Early, Crtcs, Outputs, InitPCs, LatePCs, Counts

LEMMA InvCrtcPreInit == IInv /\ CrtcPreInit => IInv'
  BY LifecycleAssumption, SMTT(60)
  DEF CrtcPreInit,
      Gets, Frees, Fails, Passes, kmsVars, screenVars, drmVars,
      IInv, HeldInProbe, HeldInPreInit, HeldInKms, HeldInScreenInit, Numbers,
      Own, Ready, Device, Options, KMS, Shown,
      Early, Crtcs, Outputs, InitPCs, LatePCs, Counts

LEMMA InvOutputPreInit == IInv /\ OutputPreInit => IInv'
  BY LifecycleAssumption, SMTT(60)
  DEF OutputPreInit,
      Gets, Frees, Fails, Passes, kmsVars, screenVars, drmVars,
      IInv, HeldInProbe, HeldInPreInit, HeldInKms, HeldInScreenInit, Numbers,
      Own, Ready, Device, Options, KMS, Shown,
      Early, Crtcs, Outputs, InitPCs, LatePCs, Counts

LEMMA InvKmsUndo == IInv /\ KmsUndo => IInv'
  BY LifecycleAssumption, SMTT(60)
  DEF KmsUndo,
      Gets, Frees, Fails, Passes, kmsVars, screenVars, drmVars,
      IInv, HeldInProbe, HeldInPreInit, HeldInKms, HeldInScreenInit, Numbers,
      Own, Ready, Device, Options, KMS, Shown,
      Early, Crtcs, Outputs, InitPCs, LatePCs, Counts

LEMMA InvLoadSubModules == IInv /\ LoadSubModules => IInv'
  BY LifecycleAssumption, SMTT(60)
  DEF LoadSubModules,
      Gets, Frees, Fails, Passes, kmsVars, screenVars, drmVars,
      IInv, HeldInProbe, HeldInPreInit, HeldInKms, HeldInScreenInit, Numbers,
      Own, Ready, Device, Options, KMS, Shown,
      Early, Crtcs, Outputs, InitPCs, LatePCs, Counts

LEMMA InvFreeScreen == IInv /\ FreeScreen => IInv'
  BY LifecycleAssumption, SMTT(60)
  DEF FreeScreen, FreedByFreeScreen,
      Gets, Frees, Fails, Passes, kmsVars, screenVars, drmVars,
      IInv, HeldInProbe, HeldInPreInit, HeldInKms, HeldInScreenInit, Numbers,
      Own, Ready, Device, Options, KMS, Shown,
      Early, Crtcs, Outputs, InitPCs, LatePCs, Counts

LEMMA InvScreenInitStart == IInv /\ ScreenInitStart => IInv'
  BY LifecycleAssumption, SMTT(60)
  DEF ScreenInitStart,
      Gets, Frees, Fails, Passes, kmsVars, screenVars, drmVars,
      IInv, HeldInProbe, HeldInPreInit, HeldInKms, HeldInScreenInit, Numbers,
      Own, Ready, Device, Options, KMS, Shown,
      Early, Crtcs, Outputs, InitPCs, LatePCs, Counts

LEMMA InvCopyFb == IInv /\ CopyFb => IInv'
  BY LifecycleAssumption, SMTT(60)
  DEF CopyFb,
      Gets, Frees, Fails, Passes, kmsVars, screenVars, drmVars,
      IInv, HeldInProbe, HeldInPreInit, HeldInKms, HeldInScreenInit, Numbers,
      Own, Ready, Device, Options, KMS, Shown,
      Early, Crtcs, Outputs, InitPCs, LatePCs, Counts

LEMMA InvInitNullEXA == IInv /\ InitNullEXA => IInv'
  BY LifecycleAssumption, SMTT(60)
  DEF InitNullEXA,
      Gets, Frees, Fails, Passes, kmsVars, screenVars, drmVars,
      IInv, HeldInProbe, HeldInPreInit, HeldInKms, HeldInScreenInit, Numbers,
      Own, Ready, Device, Options, KMS, Shown,
      Early, Crtcs, Outputs, InitPCs, LatePCs, Counts

LEMMA InvScreenInitRendering == IInv /\ ScreenInitRendering => IInv'
  BY LifecycleAssumption, SMTT(60)
  DEF ScreenInitRendering,
      Gets, Frees, Fails, Passes, kmsVars, screenVars, drmVars,
      IInv, HeldInProbe, HeldInPreInit, HeldInKms, HeldInScreenInit, Numbers,
      Own, Ready, Device, Options, KMS, Shown,
      Early, Crtcs, Outputs, InitPCs, LatePCs, Counts

LEMMA InvScreenInitEnterVT == IInv /\ ScreenInitEnterVT => IInv'
  BY LifecycleAssumption, SMTT(60)
  DEF ScreenInitEnterVT,
      Gets, Frees, Fails, Passes, kmsVars, screenVars, drmVars,
      IInv, HeldInProbe, HeldInPreInit, HeldInKms, HeldInScreenInit, Numbers,
      Own, Ready, Device, Options, KMS, Shown,
      Early, Crtcs, Outputs, InitPCs, LatePCs, Counts

LEMMA InvScreenInitHooks == IInv /\ ScreenInitHooks => IInv'
  BY LifecycleAssumption, SMTT(60)
  DEF ScreenInitHooks,
      Gets, Frees, Fails, Passes, kmsVars, screenVars, drmVars,
      IInv, HeldInProbe, HeldInPreInit, HeldInKms, HeldInScreenInit, Numbers,
      Own, Ready, Device, Options, KMS, Shown,
      Early, Crtcs, Outputs, InitPCs, LatePCs, Counts

LEMMA InvLeaveVT == IInv /\ LeaveVT => IInv'
  BY LifecycleAssumption, SMTT(60)
  DEF LeaveVT,
      Gets, Frees, Fails, Passes, kmsVars, screenVars, drmVars,
      IInv, HeldInProbe, HeldInPreInit, HeldInKms, HeldInScreenInit, Numbers,
      Own, Ready, Device, Options, KMS, Shown,
      Early, Crtcs, Outputs, InitPCs, LatePCs, Counts

LEMMA InvEnterVT == IInv /\ EnterVT => IInv'
  BY LifecycleAssumption, SMTT(60)
  DEF EnterVT,
      Gets, Frees, Fails, Passes, kmsVars, screenVars, drmVars,
      IInv, HeldInProbe, HeldInPreInit, HeldInKms, HeldInScreenInit, Numbers,
      Own, Ready, Device, Options, KMS, Shown,
      Early, Crtcs, Outputs, InitPCs, LatePCs, Counts

LEMMA InvCloseScreen == IInv /\ CloseScreen => IInv'
  BY LifecycleAssumption, SMTT(60)
  DEF CloseScreen,
      Gets, Frees, Fails, Passes, kmsVars, screenVars, drmVars,
      IInv, HeldInProbe, HeldInPreInit, HeldInKms, HeldInScreenInit, Numbers,
      Own, Ready, Device, Options, KMS, Shown,
      Early, Crtcs, Outputs, InitPCs, LatePCs, Counts

LEMMA InvExit == IInv /\ Exit => IInv'
  BY LifecycleAssumption, SMTT(60)
  DEF Exit,
      Gets, Frees, Fails, Passes, kmsVars, screenVars, drmVars,
      IInv, HeldInProbe, HeldInPreInit, HeldInKms, HeldInScreenInit, Numbers,
      Own, Ready, Device, Options, KMS, Shown,
      Early, Crtcs, Outputs, InitPCs, LatePCs, Counts

LEMMA InvNext == IInv /\ [Next]_lifeVars => IInv'
<1> SUFFICES ASSUME IInv, [Next]_lifeVars PROVE IInv'
  OBVIOUS
<1>1. CASE UNCHANGED lifeVars
  BY <1>1 DEF lifeVars, IInv, HeldInProbe, HeldInPreInit, HeldInKms, HeldInScreenInit,
      Numbers, Own, Ready, Device, Options, KMS, Shown,
      Early, Crtcs, Outputs, InitPCs, LatePCs, Counts
<1>2. CASE Next
  BY <1>2, InvProbe, InvGetRec, InvOpenDRMMaster, InvDeviceAndOptions, InvKmsResources, InvCrtcPreInit, InvOutputPreInit, InvKmsUndo,
     InvLoadSubModules, InvFreeScreen, InvScreenInitStart, InvCopyFb, InvInitNullEXA, InvScreenInitRendering, InvScreenInitEnterVT,
     InvScreenInitHooks, InvLeaveVT, InvEnterVT, InvCloseScreen, InvExit, Zenon
  DEF Next, PreInit, ScreenInit
<1> QED
  BY <1>1, <1>2

LEMMA InvHeldAtRest == IInv => HeldAtRest
  BY LifecycleAssumption, SMTT(60)
  DEF HeldAtRest, PreInitLeaves,
      IInv, HeldInProbe, HeldInPreInit, HeldInKms, HeldInScreenInit, Numbers,
      Own, Ready, Device, Options, KMS, Shown,
      Early, Crtcs, Outputs, InitPCs, LatePCs, Counts

-----------------------------------------------------------------------------
(* Handlers and the DRM master.                                            *)

OnlyHooks(hs) == hooks = [h \in Hooks |-> IF h \in hs THEN 1 ELSE 0]

\* No handler before xf86CrtcScreenInit has succeeded; after that, those that
\* are registered so far.
NoneYet ==
    Early \cup Crtcs \cup Outputs \cup InitPCs
    \cup {"InitialConfiguration", "outputs_destroy", "crtcs_destroy", "LoadSubModules",
          "FreeScreen", "deleted", "ready", "DRI2ScreenInit", "EnterVT",
          "CrtcScreenInit", "closed"}

HookInv ==
    /\ pc \in NoneYet => OnlyHooks({})
    /\ pc = "cursors_init" => OnlyHooks({"CloseScreen"})
    /\ pc \in {"udev_new", "monitor_new", "monitor_filter", "AddGeneralHandler",
               "cursors_fini"} => OnlyHooks({"CloseScreen", "cursors"})
    /\ pc = "RegisterWakeup" => OnlyHooks(Hooks \ {"wakeup"})
    /\ pc \in {"running", "away"} => OnlyHooks(Hooks)

MasterInv ==
    root => /\ pc \in ({"CrtcScreenInit", "cursors_init"} \cup LatePCs) \ {"away"} =>
                   master /\ vtSema
            /\ pc \in {"away", "closed"} => ~master /\ ~vtSema

LEMMA HookInit == Init => HookInv /\ MasterInv
  BY DEF Init, HookInv, OnlyHooks, MasterInv, LatePCs

LEMMA HookNext == HookInv /\ [Next]_lifeVars => HookInv'
<1> SUFFICES ASSUME HookInv, [Next]_lifeVars PROVE HookInv'
  OBVIOUS
<1> USE DEF HookInv, OnlyHooks, Gets, Frees, Fails, Passes, screenVars, NoneYet,
      Early, Crtcs, Outputs, InitPCs
<1>1. CASE UNCHANGED lifeVars
  BY <1>1 DEF lifeVars
<1>2. CASE Probe
  BY <1>2 DEF Probe
<1>3. CASE PreInit
  BY <1>3, SMTT(60) DEF PreInit, GetRec, OpenDRMMaster, DeviceAndOptions, KmsResources,
      CrtcPreInit, OutputPreInit, KmsUndo, LoadSubModules
<1>4. CASE FreeScreen
  BY <1>4 DEF FreeScreen
<1>5. CASE ScreenInitStart \/ CopyFb \/ InitNullEXA \/ ScreenInitRendering \/ ScreenInitEnterVT
  BY <1>5, SMTT(60) DEF ScreenInitStart, CopyFb, InitNullEXA, ScreenInitRendering, ScreenInitEnterVT
<1>6. CASE ScreenInitHooks
  BY <1>6, SMTT(60) DEF ScreenInitHooks, Registered, Unregistered, Hooks
<1>7. CASE LeaveVT \/ EnterVT \/ Exit
  BY <1>7 DEF LeaveVT, EnterVT, Exit
<1>8. CASE CloseScreen
  BY <1>8 DEF CloseScreen, Unregistered, ClosedHooks
<1> QED
  BY <1>1, <1>2, <1>3, <1>4, <1>5, <1>6, <1>7, <1>8 DEF Next, ScreenInit

MasterPCs == {"CrtcScreenInit", "cursors_init", "closed"} \cup LatePCs

\* A VT entered by root makes the server master.
LEMMA EnteredAsMaster == \A r \in EnterVTResults : r.ret /\ root => r.master
<1> SUFFICES ASSUME NEW r \in EnterVTResults, r.ret, root PROVE r.master
  OBVIOUS
<1>1. CASE r = [ret |-> TRUE, master |-> root \/ master]
  <2>1. r.master = (root \/ master)
    BY <1>1
  <2> QED
    BY <2>1
<1>2. CASE r # [ret |-> TRUE, master |-> root \/ master]
  <2>1. PICK m : r = [ret |-> FALSE, master |-> m]
    BY <1>2 DEF EnterVTResults
  <2>2. r.ret = FALSE
    BY <2>1
  <2> QED
    BY <2>2
<1> QED
  BY <1>1, <1>2

\* A drop that fails leaves the server master of a VT that is not its own.
LEMMA MasterNext ==
    ASSUME "DropMaster" \notin Failing, MasterInv, [Next]_lifeVars
    PROVE  MasterInv'
<1> USE DEF MasterInv, Gets, Frees, Fails, Passes, screenVars, drmVars, LatePCs
<1>1. CASE UNCHANGED lifeVars
  BY <1>1 DEF lifeVars
<1>2. CASE Probe
  BY <1>2 DEF Probe
<1>3. CASE PreInit
  <2>1. pc' \notin MasterPCs
    BY <1>3 DEF MasterPCs, PreInit, GetRec, OpenDRMMaster, DeviceAndOptions, KmsResources,
      CrtcPreInit, OutputPreInit, KmsUndo, LoadSubModules
  <2> QED
    BY <2>1 DEF MasterPCs
<1>4. CASE FreeScreen
  BY <1>4 DEF FreeScreen
<1>5. CASE ScreenInitStart \/ CopyFb \/ InitNullEXA \/ ScreenInitRendering
  <2>1. pc' \notin MasterPCs
    BY <1>5 DEF MasterPCs, ScreenInitStart, CopyFb, InitNullEXA, ScreenInitRendering
  <2> QED
    BY <2>1 DEF MasterPCs
<1>6. CASE ScreenInitEnterVT \/ EnterVT
  <2>1. PICK r \in EnterVTResults :
           /\ master' = r.master /\ vtSema' = TRUE /\ root' = root
           /\ pc' \in IF r.ret THEN {"CrtcScreenInit", "running"} ELSE {"FatalError"}
    BY <1>6 DEF ScreenInitEnterVT, EnterVT
  <2>2. r.ret /\ root => r.master
    BY EnteredAsMaster
  <2>3. CASE r.ret
    BY <2>1, <2>2, <2>3
  <2>4. CASE ~r.ret
    BY <2>1, <2>4
  <2> QED
    BY <2>3, <2>4
<1>7. CASE ScreenInitHooks
  BY <1>7, SMTT(60) DEF ScreenInitHooks
<1>8. CASE LeaveVT
  BY <1>8 DEF LeaveVT, Dropped
<1>9. CASE CloseScreen
  BY <1>9 DEF CloseScreen, LeftOnClose, Dropped
<1>10. CASE Exit
  BY <1>10 DEF Exit
<1> QED
  BY <1>1, <1>2, <1>3, <1>4, <1>5, <1>6, <1>7, <1>8, <1>9, <1>10 DEF Next, ScreenInit

-----------------------------------------------------------------------------
(* Queries and the table of properties.                                    *)

QueryPCs == {"idle", "GetCount", "malloc_props", "malloc_values", "GetValues", "retry",
             "err_allocs", "report", "crashed"}
Asking   == {"GetCount", "malloc_props", "malloc_values", "GetValues", "retry", "err_allocs"}
Queries  == [pc : QueryPCs, index : Nat, count : Nat, r : 0..1, result : Values \cup {Junk},
             seen : SUBSET Values]

\* While the kernel is asked, the value that the property has is one it was seen
\* with; so is the answer, from the moment it is there.
QueryInv ==
    /\ kprops \in Seq(Values) /\ mode_output \in Seq(Values)
    /\ query \in Queries
    /\ query.pc \in Asking =>
           vtSema /\ query.index > 0 /\ (query.index \in DOMAIN kprops => kprops[query.index] \in query.seen)
    /\ query.pc \in Asking /\ query.r = 1 => query.pc = "err_allocs" /\ query.result \in query.seen
    /\ AnswerIsReal

LEMMA QueryInit == SessionInit => QueryInv
  BY DEF SessionInit, P!InitProps, P!Lists, P!NoQuery, QueryInv, QueryPCs, Asking, Queries,
         AnswerIsReal

\* The kernel and the snapshot have lists of values, whatever changes them.
LEMMA ListKept ==
    ASSUME NEW list \in Seq(Values), NEW v \in Values
    PROVE  /\ Append(list, v) \in Seq(Values)
           /\ list # <<>> => SubSeq(list, 1, Len(list) - 1) \in Seq(Values)
           /\ \A i \in DOMAIN list : [list EXCEPT ![i] = v] \in Seq(Values)
  OBVIOUS

\* What the kernel does is noted in the history of the query.
LEMMA QueryWitness ==
    ASSUME QueryInv, kprops' \in Seq(Values), query' = P!Witnessed(kprops'),
           UNCHANGED <<mode_output, vtSema>>
    PROVE  QueryInv'
<1>1. CASE query.pc = "idle" \/ query.index \notin DOMAIN kprops'
  BY <1>1 DEF P!Witnessed, QueryInv, QueryPCs, Asking, AnswerIsReal
<1>2. CASE query.pc # "idle" /\ query.index \in DOMAIN kprops'
  <2>1. query' = [query EXCEPT !.seen = query.seen \cup {kprops'[query.index]}]
    BY <1>2 DEF P!Witnessed
  <2>2. kprops'[query.index] \in Values
    BY <1>2
  <2> DEFINE S == query.seen \cup {kprops'[query.index]}
  <2>3. query \in Queries /\ S \in SUBSET Values
    BY <2>2 DEF QueryInv, Queries
  <2>4. query' = [query EXCEPT !.seen = S]
    BY <2>1
  <2> HIDE DEF S
  <2>5. /\ query' \in Queries
        /\ query'.pc = query.pc /\ query'.index = query.index /\ query'.result = query.result
        /\ query'.r = query.r /\ query'.seen = S
    BY <2>3, <2>4 DEF Queries
  <2> QED
    BY <2>5 DEF QueryInv, AnswerIsReal, S
<1> QED
  BY <1>1, <1>2

\* Nothing of OutputProps changes, and a query in progress keeps the VT.
LEMMA QueryFrame ==
    ASSUME QueryInv, UNCHANGED outVars, query.pc = "idle" \/ UNCHANGED vtSema
    PROVE  QueryInv'
  BY DEF QueryInv, outVars, AnswerIsReal, Asking

\* A query that goes to another label, or gives up.
LEMMA QueryGoes ==
    ASSUME QueryInv, UNCHANGED <<kprops, mode_output, vtSema>>,
           \/ query' = P!NoQuery
           \/ /\ query.pc \in Asking \ {"err_allocs"}
              /\ \E l \in Asking : query' = [query EXCEPT !.pc = l]
    PROVE  QueryInv'
<1>1. CASE query' = P!NoQuery
  BY <1>1 DEF QueryInv, QueryPCs, Queries, Asking, AnswerIsReal, P!NoQuery
<1>2. ASSUME query.pc \in Asking \ {"err_allocs"}, NEW l \in Asking,
             query' = [query EXCEPT !.pc = l]
      PROVE  QueryInv'
  <2>1. l \in QueryPCs
    BY DEF Asking, QueryPCs
  <2>2. /\ query' \in Queries /\ query'.pc = l /\ query'.index = query.index
        /\ query'.r = query.r /\ query'.seen = query.seen /\ query'.result = query.result
    BY <1>2, <2>1 DEF QueryInv, Queries
  <2>3. query.r # 1
    BY <1>2 DEF QueryInv
  <2>4. l # "report"
    BY DEF Asking
  <2> QED
    BY <1>2, <2>2, <2>3, <2>4 DEF QueryInv, AnswerIsReal
<1> QED
  BY <1>1, <1>2

\* Each step of a query.
LEMMA QuerySteps ==
    ASSUME QueryInv, P!QueryStep, UNCHANGED vtSema
    PROVE  QueryInv'
<1>1. CASE P!GetCount
  <2>1. CASE query' = P!NoQuery
    BY <1>1, <2>1, QueryGoes DEF P!GetCount
  <2>2. CASE query' = [query EXCEPT !.pc = "malloc_props", !.count = Len(kprops)]
    <3> DEFINE q == [query EXCEPT !.pc = "malloc_props"]
    <3>1. /\ q \in Queries /\ q.pc = "malloc_props" /\ q.index = query.index
          /\ q.r = query.r /\ q.seen = query.seen
      BY DEF QueryInv, Queries, QueryPCs
    <3>2. query' = [q EXCEPT !.count = Len(kprops)] /\ Len(kprops) \in Nat
      BY <2>2 DEF QueryInv
    <3> HIDE DEF q
    <3>3. /\ query' \in Queries /\ query'.pc = "malloc_props" /\ query'.index = query.index
          /\ query'.r = query.r /\ query'.seen = query.seen
      BY <3>1, <3>2 DEF Queries
    <3> QED
      BY <1>1, <3>3 DEF P!GetCount, QueryInv, AnswerIsReal, Asking
  <2> QED
    BY <1>1, <2>1, <2>2 DEF P!GetCount, P!NoAnswer
<1>2. CASE P!MallocProps \/ P!MallocValues \/ P!Retry
  BY <1>2, QueryGoes DEF P!MallocProps, P!MallocValues, P!Malloc, P!Retry, P!GoTo, Asking
<1>3. CASE P!GetValues
  <2>1. CASE \E l \in {"retry", "err_allocs"} : P!GoTo(l)
    BY <1>3, <2>1, QueryGoes DEF P!GetValues, P!GoTo, Asking
  <2>2. CASE query.index <= Len(kprops) /\ P!Answer(kprops[query.index])
    <3>1. query.index \in DOMAIN kprops
      BY <1>3, <2>2 DEF P!GetValues, QueryInv, Queries, Asking
    <3> DEFINE v == kprops[query.index]
    <3>2. v \in Values /\ v \in query.seen
      BY <1>3, <3>1 DEF P!GetValues, QueryInv, Asking
    <3>3. query' = [query EXCEPT !.pc = "err_allocs", !.r = 1, !.result = v]
      BY <2>2 DEF P!Answer
    <3> HIDE DEF v
    <3> DEFINE q == [query EXCEPT !.pc = "err_allocs"]
    <3>4. /\ q \in Queries /\ q.pc = "err_allocs" /\ q.index = query.index
          /\ q.seen = query.seen
      BY DEF QueryInv, Queries, QueryPCs
    <3> DEFINE qr == [q EXCEPT !.r = 1]
    <3>5. query' = [qr EXCEPT !.result = v]
      BY <3>3
    <3> HIDE DEF q
    <3>6. /\ qr \in Queries /\ qr.pc = "err_allocs" /\ qr.index = query.index
          /\ qr.seen = query.seen
      BY <3>4 DEF Queries
    <3> HIDE DEF qr
    <3>7. /\ query' \in Queries /\ query'.pc = "err_allocs" /\ query'.index = query.index
          /\ query'.seen = query.seen /\ query'.result = v
      BY <3>2, <3>5, <3>6 DEF Queries
    <3> QED
      BY <1>3, <3>2, <3>7 DEF P!GetValues, QueryInv, AnswerIsReal, Asking
  <2> QED
    BY <1>3, <2>1, <2>2 DEF P!GetValues, P!Written, QueryInv, Queries
<1>4. CASE P!ErrAllocs
  <2>1. CASE query.r = 1 /\ query' = [query EXCEPT !.pc = "report"]
    <3>1. /\ query' \in Queries /\ query'.pc = "report"
          /\ query'.seen = query.seen /\ query'.result = query.result
      BY <2>1 DEF QueryInv, Queries, QueryPCs
    <3> QED
      BY <1>4, <2>1, <3>1 DEF P!ErrAllocs, QueryInv, AnswerIsReal, Asking
  <2>2. CASE query' = P!NoQuery
    BY <1>4, <2>2, QueryGoes DEF P!ErrAllocs
  <2> QED
    BY <1>4, <2>1, <2>2 DEF P!ErrAllocs, P!NoAnswer
<1>5. CASE P!Report
  BY <1>5, QueryGoes DEF P!Report
<1> QED
  BY <1>1, <1>2, <1>3, <1>4, <1>5 DEF P!QueryStep

\* A query begins with the value that the property has.
LEMMA QueryStarts ==
    ASSUME QueryInv, P!GetProperty, UNCHANGED vtSema
    PROVE  QueryInv'
<1> USE DEF QueryInv, QueryPCs, Queries, Asking, AnswerIsReal
<1>1. PICK i \in 1..MaxProps :
         query' = IF P!Stray(i) THEN [P!NoQuery EXCEPT !.pc = "crashed"]
                  ELSE IF ~P!Finds(i) THEN query
                  ELSE IF vtSema
                  THEN [P!NoQuery EXCEPT !.pc = "GetCount", !.index = i,
                                         !.seen = {kprops[j] : j \in DOMAIN kprops \cap {i}}]
                  ELSE [P!NoQuery EXCEPT !.pc = "report", !.index = i,
                                         !.result = P!Entry(mode_output, i)]
  BY Zenon DEF P!GetProperty
<1>2. /\ query.pc = "idle" /\ i \in Nat \ {0}
      /\ UNCHANGED <<kprops, mode_output>>
  BY SessionAssumption DEF P!GetProperty
<1>3. CASE query' = [P!NoQuery EXCEPT !.pc = "crashed"]
  BY <1>2, <1>3 DEF P!NoQuery
<1>4. CASE query' = query
  BY <1>2, <1>4
<1>5. CASE vtSema /\ query' = [P!NoQuery EXCEPT !.pc = "GetCount", !.index = i,
                             !.seen = {kprops[j] : j \in DOMAIN kprops \cap {i}}]
  <2>1. query' = [pc |-> "GetCount", index |-> i, count |-> 0, r |-> 0, result |-> Junk,
                  seen |-> {kprops[j] : j \in DOMAIN kprops \cap {i}}]
    BY <1>5 DEF P!NoQuery
  <2> DEFINE S == {kprops[j] : j \in DOMAIN kprops \cap {i}}
  <2>2. S \in SUBSET Values /\ (i \in DOMAIN kprops => kprops[i] \in S)
    OBVIOUS
  <2>3. query' = [pc |-> "GetCount", index |-> i, count |-> 0, r |-> 0, result |-> Junk, seen |-> S]
    BY <2>1
  <2> HIDE DEF S
  <2>4. /\ query' \in Queries /\ query'.pc = "GetCount" /\ query'.index = i
        /\ query'.r = 0 /\ query'.seen = S
    BY <1>2, <2>2, <2>3
  <2>5. vtSema'
    BY <1>5
  <2>6. query'.index \in DOMAIN kprops' => kprops'[query'.index] \in query'.seen
    BY <1>2, <2>2, <2>4
  <2>7. query'.index > 0
    BY <1>2, <2>4
  <2>8. AnswerIsReal'
    BY <1>2, <2>4
  <2> QED
    BY <1>2, <2>4, <2>5, <2>6, <2>7, <2>8
<1>6. CASE ~vtSema /\ query' = [P!NoQuery EXCEPT !.pc = "report", !.index = i,
                              !.result = P!Entry(mode_output, i)]
  <2>1. query' = [pc |-> "report", index |-> i, count |-> 0, r |-> 0,
                  result |-> P!Entry(mode_output, i), seen |-> {}]
    BY <1>6 DEF P!NoQuery
  <2>2. P!Entry(mode_output, i) \in Values \cup {Junk}
    BY DEF P!Entry
  <2> QED
    BY <1>2, <1>6, <2>1, <2>2
<1> QED
  BY <1>1, <1>3, <1>4, <1>5, <1>6

LEMMA QueryNext == QueryInv /\ [SessionNext]_sessionVars => QueryInv'
<1> SUFFICES ASSUME QueryInv, [SessionNext]_sessionVars PROVE QueryInv'
  OBVIOUS
<1> USE DEF lifeVars, coreVars
<1>1. CASE UNCHANGED sessionVars
  BY <1>1, QueryFrame DEF sessionVars
<1>2. CASE Live
  BY <1>2, QueryFrame DEF Live, Idle
<1>3. CASE MakeResources
  BY <1>3 DEF MakeResources, P!CreateResources, QueryInv, AnswerIsReal, Asking
<1>4. CASE HandleUevents \/ ClientDetects
  <2>1. CASE P!Detect
    BY <1>4, <2>1 DEF HandleUevents, ClientDetects, P!Detect, QueryInv, QueryPCs,
       Queries, Asking, AnswerIsReal
  <2>2. CASE UNCHANGED outVars
    BY <1>4, <2>2, QueryFrame DEF HandleUevents, ClientDetects, Idle
  <2> QED
    BY <1>4, <2>1, <2>2 DEF HandleUevents, ClientDetects
<1>5. CASE ClientUsesProperty
  <2>1. CASE P!SetProperty
    BY <1>5, <2>1 DEF ClientUsesProperty, P!SetProperty, QueryInv, QueryPCs,
       Queries, Asking, AnswerIsReal
  <2> QED
    BY <1>5, <2>1, QueryStarts DEF ClientUsesProperty
<1>6. CASE QueryStep
  BY <1>6, QuerySteps DEF QueryStep
<1>7. CASE Hotplug
  <2>1. kprops' \in Seq(Values)
    <3>1. CASE \E v \in Values : kprops' = Append(kprops, v)
      BY <3>1, ListKept DEF QueryInv
    <3>2. CASE kprops # <<>> /\ kprops' = SubSeq(kprops, 1, Len(kprops) - 1)
      BY <3>2, ListKept DEF QueryInv
    <3> QED
      BY <1>7, <3>1, <3>2 DEF Hotplug, P!Hotplug
  <2> QED
    BY <1>7, <2>1, QueryWitness DEF Hotplug, P!Hotplug
<1>8. CASE ValueChanges
  <2>1. kprops' \in Seq(Values)
    BY <1>8, ListKept DEF ValueChanges, P!ValueChanges, QueryInv
  <2> QED
    BY <1>8, <2>1, QueryWitness DEF ValueChanges, P!ValueChanges
<1> QED
  BY <1>1, <1>2, <1>3, <1>4, <1>5, <1>6, <1>7, <1>8 DEF SessionNext

\* The buffers that are there are those that the request of this try points to.
BufferInv ==
    /\ conn \subseteq P!Pointers /\ buffers \in [P!Pointers -> 0..1]
    /\ query.pc \in {"idle", "malloc_props", "report", "crashed"} => conn = {}
    /\ query.pc = "malloc_values" => conn = {"props"}
    /\ query.pc \in {"GetValues", "retry"} => conn = P!Pointers
    /\ FreedOnce

LEMMA BufferInit == SessionInit => BufferInv
  BY DEF SessionInit, P!InitProps, P!NoQuery, P!Pointers, BufferInv, FreedOnce

\* Nothing is allocated or freed where a query begins or the server does else.
LEMMA BufferFrame ==
    ASSUME BufferInv, UNCHANGED <<conn, buffers>>,
           \/ query'.pc = query.pc
           \/ query.pc = "idle" /\ query'.pc \in {"GetCount", "report", "crashed"}
    PROVE  BufferInv'
  BY DEF BufferInv, FreedOnce, P!Pointers

\* Each step of a query.
LEMMA BufferSteps ==
    ASSUME QueryInv, BufferInv, P!QueryStep
    PROVE  BufferInv'
<1> USE DEF BufferInv, FreedOnce, P!Pointers
<1>1. \A l : query' = [query EXCEPT !.pc = l] => query'.pc = l
  BY DEF QueryInv, Queries
<1>2. query' = P!NoQuery => query'.pc = "idle"
  BY DEF P!NoQuery
<1>3. CASE P!GetCount
  <2>1. query'.pc \in {"malloc_props", "idle"}
    <3>1. CASE query' = [query EXCEPT !.pc = "malloc_props", !.count = Len(kprops)]
      BY <3>1 DEF QueryInv, Queries
    <3> QED
      BY <1>2, <1>3, <3>1 DEF P!GetCount, P!NoAnswer
  <2> QED
    BY <1>3, <2>1 DEF P!GetCount
<1>4. CASE P!MallocProps
  BY <1>1, <1>4 DEF P!MallocProps, P!Malloc, P!GoTo
<1>5. CASE P!MallocValues
  BY <1>1, <1>5 DEF P!MallocValues, P!Malloc, P!GoTo
<1>6. CASE P!GetValues
  <2>1. query'.pc \in {"retry", "err_allocs"}
    <3>1. ASSUME NEW v, query' = [query EXCEPT !.pc = "err_allocs", !.r = 1, !.result = v]
          PROVE  query'.pc = "err_allocs"
      BY <3>1 DEF QueryInv, Queries
    <3> QED
      BY <1>1, <1>6, <3>1 DEF P!GetValues, P!GoTo, P!Written, P!Answer
  <2> QED
    BY <1>6, <2>1 DEF P!GetValues
<1>7. CASE P!Retry
  BY <1>1, <1>7 DEF P!Retry, P!GoTo, P!Freed
<1>8. CASE P!ErrAllocs
  <2>1. query'.pc \in {"report", "idle"}
    BY <1>1, <1>2, <1>8 DEF P!ErrAllocs, P!NoAnswer
  <2> QED
    BY <1>8, <2>1 DEF P!ErrAllocs, P!Freed
<1>9. CASE P!Report
  BY <1>2, <1>9 DEF P!Report
<1> QED
  BY <1>3, <1>4, <1>5, <1>6, <1>7, <1>8, <1>9 DEF P!QueryStep

LEMMA BufferNext == QueryInv /\ BufferInv /\ [SessionNext]_sessionVars => BufferInv'
<1> SUFFICES ASSUME QueryInv, BufferInv, [SessionNext]_sessionVars PROVE BufferInv'
  OBVIOUS
<1>1. CASE P!GetProperty
  <2>1. query.pc = "idle" /\ UNCHANGED <<conn, buffers>>
    BY <1>1 DEF P!GetProperty
  <2>2. \/ query' = query
        \/ \E p, i, s : query' = [P!NoQuery EXCEPT !.pc = p, !.index = i, !.seen = s] /\ p = "GetCount"
        \/ \E p, i, v : query' = [P!NoQuery EXCEPT !.pc = p, !.index = i, !.result = v] /\ p = "report"
        \/ query' = [P!NoQuery EXCEPT !.pc = "crashed"]
    BY <1>1, Zenon DEF P!GetProperty
  <2>3. query'.pc \in {query.pc, "GetCount", "report", "crashed"}
    BY <2>2 DEF P!NoQuery
  <2> QED
    BY <2>1, <2>3, BufferFrame
<1>2. CASE P!Detect \/ P!SetProperty
  <2>1. query.pc = "idle" /\ UNCHANGED <<conn, buffers>>
    BY <1>2 DEF P!Detect, P!SetProperty
  <2>2. query' = query \/ query' = [query EXCEPT !.pc = "crashed"]
    BY <1>2 DEF P!Detect, P!SetProperty
  <2> QED
    BY <2>1, <2>2, BufferFrame DEF QueryInv, Queries
<1>3. CASE P!Hotplug \/ P!ValueChanges
  <2>1. query' = P!Witnessed(kprops') /\ UNCHANGED <<conn, buffers>>
    BY <1>3 DEF P!Hotplug, P!ValueChanges
  <2>2. query'.pc = query.pc
    BY <2>1 DEF P!Witnessed, QueryInv, Queries
  <2> QED
    BY <2>1, <2>2, BufferFrame
<1>4. CASE UNCHANGED <<query, conn, buffers>>
  BY <1>4, BufferFrame
<1>5. \/ P!GetProperty \/ P!Detect \/ P!SetProperty \/ P!Hotplug \/ P!ValueChanges
      \/ P!QueryStep \/ UNCHANGED <<query, conn, buffers>>
  BY DEF SessionNext, sessionVars, outVars, Live, MakeResources, HandleUevents,
     ClientDetects, ClientUsesProperty, QueryStep, Hotplug, ValueChanges, P!CreateResources
<1> QED
  BY <1>1, <1>2, <1>3, <1>4, <1>5, BufferSteps

-----------------------------------------------------------------------------
(* Hotplug.                                                                *)

HotplugInv ==
    /\ uevents \in 0..1
    /\ query.pc # "crashed" /\ ~missed /\ uevents = 0 => Len(mode_output) = Len(kprops)

LEMMA HotplugInit == SessionInit => HotplugInv
  BY DEF SessionInit, P!InitProps, HotplugInv

LEMMA HotplugNext ==
    QueryInv /\ HookInv /\ HotplugInv /\ [SessionNext]_sessionVars => HotplugInv'
<1> SUFFICES ASSUME QueryInv, HookInv, HotplugInv, [SessionNext]_sessionVars PROVE HotplugInv'
  OBVIOUS
<1> USE DEF HotplugInv, outVars, coreVars
<1>1. CASE UNCHANGED sessionVars
  BY <1>1 DEF sessionVars
<1>2. CASE Live
  <2>1. missed' = (missed \/ uevents' < uevents)
    BY <1>2, Zenon DEF Live
  <2>2. ~missed' => ~missed /\ ~(uevents' < uevents)
    BY <2>1, Zenon
  <2>3. uevents' \in {0, uevents} /\ UNCHANGED outVars
    BY <1>2 DEF Live
  <2> QED
    BY <2>2, <2>3
<1>3. CASE MakeResources
  BY <1>3 DEF MakeResources, P!CreateResources
<1>4. CASE HandleUevents \/ ClientDetects
  <2>1. uevents' \in 0..1
    BY <1>4 DEF HandleUevents, ClientDetects
  <2>2. CASE P!Detect
    <3>1. mode_output' = kprops \/ query'.pc = "crashed"
      BY <2>2 DEF P!Detect, QueryInv, Queries
    <3> QED
      BY <2>1, <2>2, <3>1 DEF P!Detect
  <2>3. CASE missed'
    BY <2>1, <2>3
  <2> QED
    BY <1>4, <2>2, <2>3 DEF HandleUevents, ClientDetects
<1>5. CASE ClientUsesProperty
  <2>1. CASE P!SetProperty
    <3>1. Len(kprops') = Len(kprops)
      <4>1. PICK i \in 1..MaxProps, v \in Values :
               kprops' = kprops \/ (i \in DOMAIN kprops /\ kprops' = [kprops EXCEPT ![i] = v])
        BY <2>1 DEF P!SetProperty
      <4> QED
        BY <4>1 DEF QueryInv
    <3> QED
      BY <1>5, <2>1, <3>1 DEF ClientUsesProperty, P!SetProperty
  <2>2. CASE P!GetProperty
    BY <1>5, <2>2 DEF ClientUsesProperty, P!GetProperty
  <2> QED
    BY <1>5, <2>1, <2>2 DEF ClientUsesProperty
<1>6. CASE QueryStep
  <2>1. query.pc # "crashed" /\ UNCHANGED <<kprops, mode_output, uevents, missed>>
    BY <1>6 DEF QueryStep, P!QueryStep, P!GetCount, P!MallocProps, P!MallocValues,
       P!GetValues, P!Retry, P!ErrAllocs, P!Report
  <2> QED
    BY <2>1
<1>7. CASE Hotplug
  <2>1. missed' = (missed \/ hooks["uevent"] = 0)
    BY <1>7, Zenon DEF Hotplug
  <2>2. ~missed' => hooks["uevent"] # 0
    BY <2>1, Zenon
  <2>3. uevents' = IF hooks["uevent"] > 0 THEN 1 ELSE 0
    BY <1>7, Zenon DEF Hotplug
  <2>4. hooks["uevent"] \in Nat
    BY <1>7 DEF Hotplug, HookInv, OnlyHooks, Hooks, Up
  <2> QED
    BY <2>2, <2>3, <2>4
<1>8. CASE ValueChanges
  <2>1. PICK i \in DOMAIN kprops, v \in Values : kprops' = [kprops EXCEPT ![i] = v]
    BY <1>8 DEF ValueChanges, P!ValueChanges
  <2>2. Len(kprops') = Len(kprops)
    BY <2>1 DEF QueryInv
  <2> QED
    BY <1>8, <2>2 DEF ValueChanges, P!ValueChanges, P!Witnessed
<1> QED
  BY <1>1, <1>2, <1>3, <1>4, <1>5, <1>6, <1>7, <1>8 DEF SessionNext

-----------------------------------------------------------------------------
(* Types.                                                                  *)

Names == {"sections", "probe_fd", "screen", "rec", "fd", "deviceName", "dev", "options",
          "mode_res", "plane_res", "drmmode", "crtc", "cursor", "connector", "output",
          "scanout", "fb0", "fb0_map", "null_exa", "exa", "dri2", "udev", "monitor"}

LifeTypes ==
    /\ held \subseteq Names
    /\ exaRecords \in 0..gen /\ gen \in 0..MaxGen
    /\ hooks \in [Hooks -> 0..1]
    /\ master \in BOOLEAN /\ vtSema \in BOOLEAN /\ root \in BOOLEAN

LEMMA LifeTypesInit == Init => LifeTypes
<1> SUFFICES ASSUME Init PROVE LifeTypes
  OBVIOUS
<1>1. /\ held \subseteq Names /\ exaRecords \in 0..gen /\ gen \in 0..MaxGen
      /\ hooks \in [Hooks -> 0..1]
  BY LifecycleAssumption DEF Init
<1>2. master \in BOOLEAN /\ vtSema \in BOOLEAN /\ root \in BOOLEAN
  BY Zenon DEF Init
<1> QED
  BY <1>1, <1>2 DEF LifeTypes

LEMMA HeldTypes == LifeTypes /\ [Next]_lifeVars => held' \subseteq Names
<1> SUFFICES ASSUME LifeTypes, [Next]_lifeVars PROVE held' \subseteq Names
  OBVIOUS
<1>1. PICK more \in SUBSET Names : held' \subseteq held \cup more
  <2> USE DEF Gets, Frees, Fails, Passes, Names
  <2>1. CASE UNCHANGED lifeVars
    BY <2>1 DEF lifeVars
  <2>2. CASE Probe
    BY <2>2 DEF Probe
  <2>3. CASE GetRec \/ OpenDRMMaster \/ DeviceAndOptions
    BY <2>3 DEF GetRec, OpenDRMMaster, DeviceAndOptions
  <2>4. CASE KmsResources \/ CrtcPreInit
    BY <2>4 DEF KmsResources, CrtcPreInit
  <2>5. CASE OutputPreInit \/ KmsUndo \/ LoadSubModules
    BY <2>5 DEF OutputPreInit, KmsUndo, LoadSubModules
  <2>6. CASE FreeScreen \/ ScreenInitStart
    BY <2>6 DEF FreeScreen, ScreenInitStart
  <2>7. CASE CopyFb \/ InitNullEXA \/ ScreenInitRendering
    BY <2>7 DEF CopyFb, InitNullEXA, ScreenInitRendering
  <2>8. CASE ScreenInitHooks
    BY <2>8 DEF ScreenInitHooks
  <2>9. CASE ScreenInitEnterVT \/ LeaveVT \/ EnterVT \/ CloseScreen \/ Exit
    BY <2>9 DEF ScreenInitEnterVT, LeaveVT, EnterVT, CloseScreen, Exit
  <2> QED
    BY <2>1, <2>2, <2>3, <2>4, <2>5, <2>6, <2>7, <2>8, <2>9 DEF Next, PreInit, ScreenInit
<1> QED
  BY <1>1 DEF LifeTypes

\* What a VT switch leaves of the master.
LEMMA MasterTypes ==
    ASSUME master \in BOOLEAN, vtSema \in BOOLEAN, root \in BOOLEAN
    PROVE  /\ \A r \in EnterVTResults : r.master \in BOOLEAN
           /\ Dropped \subseteq BOOLEAN /\ LeftOnClose \subseteq BOOLEAN
<1>1. (root \/ master) \in BOOLEAN
  BY Zenon
<1>2. ASSUME NEW r \in EnterVTResults
      PROVE  r.master \in BOOLEAN
  <2>1. CASE r = [ret |-> TRUE, master |-> root \/ master]
    BY <1>1, <2>1
  <2>2. CASE r # [ret |-> TRUE, master |-> root \/ master]
    <3>1. PICK m \in {master, root \/ master} : r = [ret |-> FALSE, master |-> m]
      BY <2>2, Zenon DEF EnterVTResults
    <3>2. m \in BOOLEAN
      BY <1>1, <3>1
    <3> QED
      BY <3>1, <3>2
  <2> QED
    BY <2>1, <2>2
<1>3. Dropped \subseteq BOOLEAN
  BY DEF Dropped
<1> QED
  BY <1>2, <1>3 DEF LeftOnClose

LEMMA LifeTypesNext ==
    IInv /\ HookInv /\ LifeTypes /\ [Next]_lifeVars => LifeTypes'
<1> SUFFICES ASSUME IInv, HookInv, LifeTypes, [Next]_lifeVars PROVE LifeTypes'
  OBVIOUS
<1>1. held' \subseteq Names
  BY HeldTypes
<1>2. exaRecords' \in 0..gen' /\ gen' \in 0..MaxGen
  <2>1. CASE UNCHANGED <<exaRecords, gen>>
    BY <2>1 DEF LifeTypes
  <2>2. CASE ScreenInitStart
    BY <2>2, LifecycleAssumption DEF ScreenInitStart, LifeTypes
  <2>3. CASE InitNullEXA
    <3>1. exaRecords' = exaRecords \/ (exaRecords' = exaRecords + 1 /\ pc = "exaDriverInit")
      BY <2>3 DEF InitNullEXA, Frees
    <3>2. pc = "exaDriverInit" => exaRecords + 1 = gen
      BY DEF IInv, Numbers, InitPCs
    <3>3. gen' = gen /\ exaRecords \in Nat /\ gen \in Nat
      BY <2>3 DEF InitNullEXA, LifeTypes
    <3> QED
      BY <3>1, <3>2, <3>3 DEF LifeTypes
  <2>4. UNCHANGED <<exaRecords, gen>> \/ ScreenInitStart \/ InitNullEXA
    BY DEF Next, PreInit, ScreenInit, screenVars, lifeVars, Probe, GetRec, OpenDRMMaster,
       DeviceAndOptions, KmsResources, CrtcPreInit, OutputPreInit, KmsUndo, LoadSubModules,
       FreeScreen, CopyFb, ScreenInitRendering, ScreenInitEnterVT, ScreenInitHooks,
       LeaveVT, EnterVT, CloseScreen, Exit
  <2> QED
    BY <2>1, <2>2, <2>3, <2>4
<1>3. hooks' \in [Hooks -> 0..1]
  <2>1. CASE UNCHANGED hooks
    BY <2>1 DEF LifeTypes
  <2>2. CASE ScreenInitHooks
    BY <2>2, SMTT(60) DEF ScreenInitHooks, HookInv, OnlyHooks, Registered, Unregistered,
       Hooks, Passes, Fails, Frees, NoneYet, LifeTypes
  <2>3. CASE CloseScreen
    BY <2>3 DEF CloseScreen, HookInv, OnlyHooks, Unregistered, ClosedHooks
  <2>4. UNCHANGED hooks \/ ScreenInitHooks \/ CloseScreen
    BY DEF Next, PreInit, ScreenInit, screenVars, lifeVars, Probe, GetRec, OpenDRMMaster,
       DeviceAndOptions, KmsResources, CrtcPreInit, OutputPreInit, KmsUndo, LoadSubModules,
       FreeScreen, ScreenInitStart, CopyFb, InitNullEXA, ScreenInitRendering,
       ScreenInitEnterVT, LeaveVT, EnterVT, Exit
  <2> QED
    BY <2>1, <2>2, <2>3, <2>4
<1>4. master' \in BOOLEAN /\ vtSema' \in BOOLEAN /\ root' \in BOOLEAN
  <2>1. root' = root /\ vtSema' \in {vtSema, TRUE, FALSE}
    BY DEF Next, PreInit, ScreenInit, screenVars, lifeVars, Probe, GetRec, OpenDRMMaster,
       DeviceAndOptions, KmsResources, CrtcPreInit, OutputPreInit, KmsUndo, LoadSubModules,
       FreeScreen, ScreenInitStart, CopyFb, InitNullEXA, ScreenInitRendering,
       ScreenInitEnterVT, ScreenInitHooks, LeaveVT, EnterVT, CloseScreen, Exit
  <2>7. root' \in BOOLEAN /\ vtSema' \in BOOLEAN
    BY <2>1, Zenon DEF LifeTypes
  <2>2. CASE OpenDRMMaster
    <3>1. master' \in BOOLEAN \cup {master, FALSE}
      BY <2>2 DEF OpenDRMMaster, drmVars
    <3>2. master' \in BOOLEAN
      BY <3>1, Zenon DEF LifeTypes
    <3> QED
      BY <2>7, <3>2
  <2>3. CASE FreeScreen
    <3>1. master' = master \/ master' = (master /\ "fd" \notin FreedByFreeScreen)
      BY <2>3 DEF FreeScreen, drmVars
    <3>2. (master /\ "fd" \notin FreedByFreeScreen) \in BOOLEAN
      BY Zenon
    <3>3. master' \in BOOLEAN
      BY <3>1, <3>2, Zenon DEF LifeTypes
    <3> QED
      BY <2>7, <3>3
  <2>4. CASE ScreenInitEnterVT \/ EnterVT
    <3>1. \E r \in EnterVTResults : master' = r.master
      BY <2>4 DEF ScreenInitEnterVT, EnterVT
    <3>2. master' \in BOOLEAN
      BY <3>1, MasterTypes, Zenon DEF LifeTypes
    <3> QED
      BY <2>7, <3>2
  <2>5. CASE LeaveVT \/ CloseScreen \/ Exit
    <3>1. master' \in Dropped \cup LeftOnClose \cup {master}
      BY <2>5 DEF LeaveVT, CloseScreen, Exit
    <3>2. master' \in BOOLEAN
      BY <3>1, MasterTypes, Zenon DEF LifeTypes
    <3> QED
      BY <2>7, <3>2
  <2>6. \/ UNCHANGED master \/ OpenDRMMaster \/ FreeScreen \/ ScreenInitEnterVT \/ EnterVT
        \/ LeaveVT \/ CloseScreen \/ Exit
    BY DEF Next, PreInit, ScreenInit, drmVars, lifeVars, Probe, GetRec,
       DeviceAndOptions, KmsResources, CrtcPreInit, OutputPreInit, KmsUndo, LoadSubModules,
       ScreenInitStart, CopyFb, InitNullEXA, ScreenInitRendering, ScreenInitHooks
  <2> QED
    BY <2>2, <2>3, <2>4, <2>5, <2>6, <2>7, Zenon DEF LifeTypes
<1> QED
  BY <1>1, <1>2, <1>3, <1>4 DEF LifeTypes

-----------------------------------------------------------------------------
(* The theorems.                                                           *)

\* A step of the session is a step in the life of the server or leaves it alone.
LEMMA SessionIsLife ==
    /\ SessionInit => Init
    /\ [SessionNext]_sessionVars => [Next]_lifeVars
  BY DEF SessionInit, SessionNext, sessionVars, Live, MakeResources, HandleUevents,
         ClientDetects, ClientUsesProperty, QueryStep, Hotplug, ValueChanges

PropTypes ==
    /\ created \in 0..gen
    /\ Len(kprops) <= MaxProps /\ Len(mode_output) <= MaxProps
    /\ query.count \in 0..MaxProps
    /\ num_props \in 0..Cardinality(1..MaxProps \ Ignored)
    /\ \A j \in DOMAIN props : props[j].index \in 1..MaxProps

\* A list of the kernel is a sequence of a bounded length.
LEMMA ListsAre == \A list : list \in P!Lists <=> list \in Seq(Values) /\ Len(list) <= MaxProps
<1>1. ASSUME NEW list \in P!Lists
      PROVE  list \in Seq(Values) /\ Len(list) <= MaxProps
  <2>1. PICK n \in 0..MaxProps : list \in [1..n -> Values]
    BY DEF P!Lists
  <2> QED
    BY <2>1
<1>2. ASSUME NEW list \in Seq(Values), Len(list) <= MaxProps
      PROVE  list \in P!Lists
  <2>1. Len(list) \in 0..MaxProps /\ list \in [1..Len(list) -> Values]
    BY <1>2, SessionAssumption
  <2> QED
    BY <2>1, Zenon DEF P!Lists
<1> QED
  BY <1>1, <1>2

\* A table has no more entries than there are properties to offer.
LEMMA TableFits ==
    ASSUME mode_output \in Seq(Values), Len(mode_output) <= MaxProps, NEW t \in P!Ascending
    PROVE  /\ Len(t) \in 0..Cardinality(1..MaxProps \ Ignored)
           /\ \A j \in DOMAIN t : t[j] \in 1..MaxProps
<1> DEFINE S == 1..MaxProps \ Ignored
<1>1. PICK n \in 0..Len(mode_output) : t \in [1..n -> P!Offered]
  <2>1. t \in UNION {[1..n -> P!Offered] : n \in 0..Len(mode_output)}
    BY Zenon DEF P!Ascending
  <2> QED
    BY <2>1, Zenon
<1>2. n \in Nat /\ \A j, k \in 1..n : j < k => t[j] < t[k]
  BY <1>1 DEF P!Ascending
<1>3. t \in [1..n -> S] /\ Len(t) = n /\ DOMAIN t = 1..n
  <2>1. P!Offered \subseteq S
    <3>1. DOMAIN mode_output = 1..Len(mode_output) /\ Len(mode_output) \in Nat
      OBVIOUS
    <3>2. DOMAIN mode_output \subseteq 1..MaxProps
      BY <3>1, SessionAssumption
    <3> QED
      BY <3>2 DEF P!Offered
  <2> HIDE DEF S
  <2>2. t \in [1..n -> S]
    BY <1>1, <2>1
  <2> QED
    BY <1>2, <2>2
<1>4. t \in Injection(1..n, S)
  <2>1. \A j, k \in 1..n : t[j] = t[k] => j = k
    <3>1. \A j \in 1..n : t[j] \in Int
      BY <1>3
    <3>2. \A j, k \in 1..n : j < k \/ k < j \/ j = k
      BY <1>2
    <3> QED
      BY <1>2, <3>1, <3>2
  <2> HIDE DEF S
  <2> QED
    BY <1>3, <2>1 DEF Injection, IsInjective
<1>5. IsFiniteSet(S) /\ Cardinality(S) \in Nat
  <2>1. IsFiniteSet(1..MaxProps)
    BY SessionAssumption, FS_Interval
  <2> QED
    BY <2>1, FS_Subset, FS_CardinalityType
<1>6. Cardinality(1..n) = n
  BY <1>2, FS_Interval
<1>7. \A j \in 1..n : t[j] \in 1..MaxProps
  BY <1>3
<1> HIDE DEF S
<1>8. n <= Cardinality(S)
  BY <1>4, <1>5, <1>6, FS_Injection
<1> QED
  BY <1>2, <1>3, <1>5, <1>7, <1>8 DEF S

LEMMA PropTypesInit == SessionInit => PropTypes
<1> SUFFICES ASSUME SessionInit PROVE PropTypes
  OBVIOUS
<1>1. kprops \in P!Lists /\ mode_output = kprops /\ props = <<>> /\ num_props = 0 /\ created = 0
  BY DEF SessionInit, P!InitProps
<1>2. query.count = 0 /\ gen = 0
  BY DEF SessionInit, Init, P!InitProps, P!NoQuery
<1>3. IsFiniteSet(1..MaxProps \ Ignored)
  <2>1. IsFiniteSet(1..MaxProps)
    BY SessionAssumption, FS_Interval
  <2> QED
    BY <2>1, FS_Subset
<1> QED
  BY <1>1, <1>2, <1>3, ListsAre, SessionAssumption, FS_CardinalityType DEF PropTypes

LEMMA PropTypesNext ==
    QueryInv /\ LifeTypes /\ PropTypes /\ [SessionNext]_sessionVars => PropTypes'
<1> SUFFICES ASSUME QueryInv, LifeTypes, PropTypes, [SessionNext]_sessionVars PROVE PropTypes'
  OBVIOUS
<1>1. created' \in 0..gen'
  <2>1. gen' \in {gen, gen + 1} /\ gen \in Nat
    <3>1. [Next]_lifeVars
      BY SessionIsLife
    <3> QED
      BY <3>1 DEF LifeTypes, Next, PreInit, ScreenInit, screenVars, lifeVars, Probe, GetRec,
         OpenDRMMaster, DeviceAndOptions, KmsResources, CrtcPreInit, OutputPreInit, KmsUndo,
         LoadSubModules, FreeScreen, ScreenInitStart, CopyFb, InitNullEXA,
         ScreenInitRendering, ScreenInitEnterVT, ScreenInitHooks, LeaveVT, EnterVT,
         CloseScreen, Exit
  <2>2. created' = created \/ (created' = gen /\ gen' = gen)
    BY DEF SessionNext, sessionVars, coreVars, lifeVars, Live, MakeResources, HandleUevents,
       ClientDetects, ClientUsesProperty, QueryStep, Hotplug, ValueChanges
  <2> QED
    BY <2>1, <2>2 DEF PropTypes
<1>2. Len(kprops') <= MaxProps
  <2>1. CASE P!Hotplug
    <3>1. CASE Len(kprops) < MaxProps /\ \E v \in Values : kprops' = Append(kprops, v)
      BY <3>1, SessionAssumption DEF QueryInv
    <3>2. CASE kprops # <<>> /\ kprops' = SubSeq(kprops, 1, Len(kprops) - 1)
      <4>1. Len(kprops') = Len(kprops) - 1
        <5> DEFINE n == Len(kprops) - 1
        <5>1. n \in Nat /\ kprops \in Seq(Values) /\ \A i \in 1..n : kprops[i] \in Values
          BY <3>2 DEF QueryInv
        <5>2. kprops' = SubSeq(kprops, 1, n)
          BY <3>2
        <5> HIDE DEF n
        <5>3. Len(SubSeq(kprops, 1, n)) = IF 1 <= n THEN n - 1 + 1 ELSE 0
          BY <5>1, SubSeqProperties
        <5>4. Len(kprops') = n
          BY <5>1, <5>2, <5>3
        <5> QED
          BY <5>4 DEF n
      <4> QED
        BY <4>1, SessionAssumption DEF PropTypes, QueryInv
    <3> QED
      BY <2>1, <3>1, <3>2 DEF P!Hotplug
  <2>2. CASE P!ValueChanges \/ P!SetProperty
    <3>1. \/ kprops' = kprops
          \/ \E i \in DOMAIN kprops, v \in Values : kprops' = [kprops EXCEPT ![i] = v]
      BY <2>2 DEF P!ValueChanges, P!SetProperty
    <3>2. Len(kprops') = Len(kprops)
      BY <3>1 DEF QueryInv
    <3> QED
      BY <3>2 DEF PropTypes
  <2>3. UNCHANGED kprops \/ P!Hotplug \/ P!ValueChanges \/ P!SetProperty
    BY DEF SessionNext, sessionVars, outVars, Live, MakeResources, HandleUevents,
       ClientDetects, ClientUsesProperty, QueryStep, Hotplug, ValueChanges, P!QueryStep,
       P!GetCount, P!MallocProps, P!MallocValues, P!GetValues, P!Retry, P!ErrAllocs,
       P!Report, P!CreateResources, P!Detect, P!GetProperty
  <2> QED
    BY <2>1, <2>2, <2>3 DEF PropTypes
<1>3. Len(mode_output') <= MaxProps
  <2>1. mode_output' = mode_output \/ mode_output' = kprops
    BY DEF SessionNext, sessionVars, outVars, Live, MakeResources, HandleUevents,
       ClientDetects, ClientUsesProperty, QueryStep, Hotplug, ValueChanges, P!QueryStep,
       P!GetCount, P!MallocProps, P!MallocValues, P!GetValues, P!Retry, P!ErrAllocs,
       P!Report, P!CreateResources, P!Detect,
       P!GetProperty, P!SetProperty, P!Hotplug, P!ValueChanges
  <2> QED
    BY <2>1 DEF PropTypes
<1>4. query'.count \in 0..MaxProps
  <2>1. query \in Queries
    BY DEF QueryInv
  <2>2. CASE P!GetCount
    <3>1. CASE query' = [query EXCEPT !.pc = "malloc_props", !.count = Len(kprops)]
      <4> DEFINE q == [query EXCEPT !.pc = "malloc_props"]
      <4>1. q \in Queries
        BY <2>1 DEF Queries, QueryPCs
      <4>2. query' = [q EXCEPT !.count = Len(kprops)]
        BY <3>1
      <4> HIDE DEF q
      <4>3. query'.count = Len(kprops)
        BY <4>1, <4>2 DEF Queries
      <4> QED
        BY <4>3 DEF PropTypes, QueryInv
    <3>2. CASE query' = P!NoQuery
      BY <3>2, SessionAssumption DEF P!NoQuery
    <3> QED
      BY <2>2, <3>1, <3>2 DEF P!GetCount, P!NoAnswer
  <2>3. CASE P!GetProperty
    <3>1. \/ query' = query
          \/ \E p, i, s : query' = [P!NoQuery EXCEPT !.pc = p, !.index = i, !.seen = s]
          \/ \E p, i, r : query' = [P!NoQuery EXCEPT !.pc = p, !.index = i, !.result = r]
          \/ query' = [P!NoQuery EXCEPT !.pc = "crashed"]
      BY <2>3, Zenon DEF P!GetProperty
    <3>2. query'.count \in {query.count, 0}
      BY <3>1 DEF P!NoQuery
    <3> QED
      BY <3>2, SessionAssumption DEF PropTypes
  <2>4. CASE UNCHANGED query \/ query' = P!NoQuery
    BY <2>4, SessionAssumption DEF P!NoQuery, PropTypes
  <2>5. ASSUME NEW p, query' = [query EXCEPT !.pc = p]
        PROVE  query'.count \in 0..MaxProps
    BY <2>1, <2>5 DEF PropTypes, Queries
  <2>6. ASSUME NEW s, query' = [query EXCEPT !.seen = s]
        PROVE  query'.count \in 0..MaxProps
    BY <2>1, <2>6 DEF PropTypes, Queries
  <2>7. ASSUME NEW v, query' = [query EXCEPT !.pc = "err_allocs", !.r = 1, !.result = v]
        PROVE  query'.count \in 0..MaxProps
    BY <2>1, <2>7 DEF PropTypes, Queries
  <2>8. CASE \/ P!MallocProps \/ P!MallocValues \/ P!GetValues \/ P!Retry \/ P!ErrAllocs
             \/ P!Report \/ P!Detect \/ P!SetProperty
    <3>1. \/ UNCHANGED query \/ query' = P!NoQuery
          \/ \E p : query' = [query EXCEPT !.pc = p]
          \/ \E v : query' = [query EXCEPT !.pc = "err_allocs", !.r = 1, !.result = v]
      BY <2>8 DEF P!MallocProps, P!MallocValues, P!Malloc, P!GetValues, P!Written, P!Retry,
         P!ErrAllocs, P!Report, P!Detect, P!SetProperty, P!NoAnswer, P!Answer, P!GoTo
    <3> QED
      BY <2>4, <2>5, <2>7, <3>1
  <2>9. CASE P!Hotplug \/ P!ValueChanges
    <3>1. UNCHANGED query \/ \E s : query' = [query EXCEPT !.seen = s]
      BY <2>9 DEF P!Hotplug, P!ValueChanges, P!Witnessed
    <3> QED
      BY <2>4, <2>6, <3>1
  <2>10. \/ UNCHANGED query \/ P!GetCount \/ P!GetProperty
         \/ P!MallocProps \/ P!MallocValues \/ P!GetValues \/ P!Retry \/ P!ErrAllocs
         \/ P!Report \/ P!Detect \/ P!SetProperty \/ P!Hotplug \/ P!ValueChanges
    BY DEF SessionNext, sessionVars, outVars, Live, MakeResources, HandleUevents,
       ClientDetects, ClientUsesProperty, QueryStep, Hotplug, ValueChanges, P!QueryStep,
       P!CreateResources
  <2> QED
    BY <2>2, <2>3, <2>4, <2>8, <2>9, <2>10
<1>5. /\ num_props' \in 0..Cardinality(1..MaxProps \ Ignored)
      /\ \A j \in DOMAIN props' : props'[j].index \in 1..MaxProps
  <2>1. CASE P!CreateResources
    <3>1. CASE props' = <<>> /\ num_props' = num_props
      BY <3>1 DEF PropTypes
    <3>2. CASE \E t \in P!Ascending : \E as \in [DOMAIN t -> BOOLEAN] :
                  /\ props' = [j \in DOMAIN t |-> [index |-> t[j], atoms |-> as[j]]]
                  /\ num_props' = P!NumProps(t)
      <4>1. PICK t \in P!Ascending : \E as \in [DOMAIN t -> BOOLEAN] :
                  /\ props' = [j \in DOMAIN t |-> [index |-> t[j], atoms |-> as[j]]]
                  /\ num_props' = P!NumProps(t)
        BY <3>2
      <4>2. PICK as \in [DOMAIN t -> BOOLEAN] :
                  /\ props' = [j \in DOMAIN t |-> [index |-> t[j], atoms |-> as[j]]]
                  /\ num_props' = Len(t)
        BY <4>1 DEF P!NumProps
      <4>3. /\ Len(t) \in 0..Cardinality(1..MaxProps \ Ignored)
            /\ \A j \in DOMAIN t : t[j] \in 1..MaxProps
        BY TableFits DEF PropTypes, QueryInv
      <4> QED
        BY <4>2, <4>3
    <3> QED
      BY <2>1, <3>1, <3>2, Zenon DEF P!CreateResources
  <2>2. UNCHANGED <<num_props, props>> \/ P!CreateResources
    BY DEF SessionNext, sessionVars, outVars, Live, MakeResources, HandleUevents,
       ClientDetects, ClientUsesProperty, QueryStep, Hotplug, ValueChanges, P!QueryStep,
       P!GetCount, P!MallocProps, P!MallocValues, P!GetValues, P!Retry, P!ErrAllocs,
       P!Report, P!Detect,
       P!GetProperty, P!SetProperty, P!Hotplug, P!ValueChanges
  <2> QED
    BY <2>1, <2>2 DEF PropTypes
<1> QED
  BY <1>1, <1>2, <1>3, <1>4, <1>5 DEF PropTypes

\* Every number stays within what it counts: EXA records within generations, the
\* count a query was told within the kernel's limit, num_props within the
\* properties there are to offer, each handler registered at most once.
THEOREM TypesThm == SessionSpec => []TypeOK
<1> DEFINE Inv == IInv /\ HookInv /\ QueryInv /\ BufferInv /\ HotplugInv /\ LifeTypes
                  /\ PropTypes /\ missed \in BOOLEAN
<1>1. SessionInit => Inv
  <2>1. SessionInit => missed \in BOOLEAN
    BY Zenon DEF SessionInit
  <2> QED
    BY <2>1, SessionIsLife, InvInit, HookInit, QueryInit, BufferInit, HotplugInit,
       LifeTypesInit, PropTypesInit
<1>2. Inv /\ [SessionNext]_sessionVars => Inv'
  <2> SUFFICES ASSUME Inv, [SessionNext]_sessionVars PROVE Inv'
    OBVIOUS
  <2>1. [Next]_lifeVars
    BY SessionIsLife
  <2>2. IInv' /\ HookInv' /\ LifeTypes'
    BY <2>1, InvNext, HookNext, LifeTypesNext
  <2>3. QueryInv' /\ BufferInv' /\ HotplugInv' /\ PropTypes'
    BY QueryNext, BufferNext, HotplugNext, PropTypesNext
  <2>4. missed' \in BOOLEAN
    BY Zenon DEF SessionNext, sessionVars, coreVars, Live, MakeResources, HandleUevents,
       ClientDetects, ClientUsesProperty, QueryStep, Hotplug, ValueChanges
  <2> QED
    BY <2>2, <2>3, <2>4
<1>3. Inv => TypeOK
  <2> SUFFICES ASSUME Inv PROVE TypeOK
    OBVIOUS
  <2>1. /\ held \subseteq Names /\ exaRecords \in 0..gen /\ gen \in 0..MaxGen /\ created \in 0..gen
        /\ hooks \in [Hooks -> 0..1] /\ {master, vtSema, root, missed} \subseteq BOOLEAN
    BY Zenon DEF LifeTypes, PropTypes
  <2>2. num_crtc \in 0..NumCrtc /\ num_output \in 0..NumOutput /\ drmFD \in -1..1
    BY DEF IInv, Numbers
  <2>3. kprops \in P!Lists /\ mode_output \in P!Lists
    BY ListsAre DEF QueryInv, PropTypes
  <2>4. /\ num_props \in 0..Cardinality(1..MaxProps \ Ignored)
        /\ \A j \in DOMAIN props : props[j].index \in 1..MaxProps
        /\ query.count \in 0..MaxProps
    BY DEF PropTypes
  <2>5. /\ query.result \in Values \cup {Junk} /\ uevents \in 0..1
        /\ conn \subseteq P!Pointers /\ buffers \in [P!Pointers -> 0..1]
    BY DEF QueryInv, Queries, BufferInv, HotplugInv
  <2> QED
    BY <2>1, <2>2, <2>3, <2>4, <2>5, Zenon DEF TypeOK, Names
<1> HIDE DEF Inv
<1> QED
  BY <1>1, <1>2, <1>3, PTL DEF SessionSpec

\* At rest the server holds just what it should, however many calls have failed.
THEOREM HeldThm == SessionSpec => []HeldAtRest
<1>1. SessionInit => IInv
  BY SessionIsLife, InvInit
<1>2. IInv /\ [SessionNext]_sessionVars => IInv'
  BY SessionIsLife, InvNext
<1>3. IInv => HeldAtRest
  BY InvHeldAtRest
<1> QED
  BY <1>1, <1>2, <1>3, PTL DEF SessionSpec

\* Each handler is registered once while the screen is up, and not otherwise.
THEOREM HooksThm == SessionSpec => []HooksWhileUp
<1>1. SessionInit => HookInv
  BY SessionIsLife, HookInit
<1>2. HookInv /\ [SessionNext]_sessionVars => HookInv'
  BY SessionIsLife, HookNext
<1>3. HookInv => HooksWhileUp
  BY DEF HookInv, OnlyHooks, HooksWhileUp, NoneYet
<1> QED
  BY <1>1, <1>2, <1>3, PTL DEF SessionSpec

\* When no drmDropMaster fails, root is master just while the VT is the server's.
THEOREM MasterThm ==
    ASSUME "DropMaster" \notin Failing
    PROVE  SessionSpec => []MasterWithVT
<1>1. SessionInit => MasterInv
  BY SessionIsLife, HookInit
<1>2. MasterInv /\ [SessionNext]_sessionVars => MasterInv'
  BY SessionIsLife, MasterNext
<1>3. MasterInv => MasterWithVT
  BY DEF MasterInv, MasterWithVT, LatePCs
<1> QED
  BY <1>1, <1>2, <1>3, PTL DEF SessionSpec

\* A query answers with a value the property had while it ran.
THEOREM AnswerThm == SessionSpec => []AnswerIsReal
<1>1. QueryInv => AnswerIsReal
  BY DEF QueryInv
<1> QED
  BY <1>1, QueryInit, QueryNext, PTL DEF SessionSpec

\* However often a query tries again and wherever it gives up, no buffer of it is
\* freed twice or kept: both pointers are cleared before a try, and the buffers
\* are there just while a try points to them.
THEOREM FreedThm == SessionSpec => []FreedOnce
<1>1. BufferInv => FreedOnce
  BY DEF BufferInv
<1> QED
  BY <1>1, QueryInit, QueryNext, BufferInit, BufferNext, PTL DEF SessionSpec

\* Unless an event was lost, the driver knows how many properties there are.
THEOREM HotplugThm == SessionSpec => []HotplugSeen
<1>1. HotplugInv => HotplugSeen
  BY DEF HotplugInv, HotplugSeen, Idle
<1>2. SessionInit => HookInv
  BY SessionIsLife, HookInit
<1>3. HookInv /\ [SessionNext]_sessionVars => HookInv'
  BY SessionIsLife, HookNext
<1> QED
  BY <1>1, <1>2, <1>3, QueryInit, QueryNext, HotplugInit, HotplugNext, PTL DEF SessionSpec
=============================================================================
