----------------------------- MODULE MCSession -----------------------------
(* Values for TLC. *)
EXTENDS SessionProperties, TLC

\* Every call may fail but drmDropMaster, whose failure the code only warns about.
MCFailing ==
    {"MatchDevice", "OpenDRM", "AllocateScreen", "NumEntities", "GetRec", "SetDepthBpp",
     "OpenDRMMaster", "SetInterfaceVersion", "device_new", "malloc_options",
     "GetResources", "GetPlaneResources", "calloc_drmmode", "calloc_crtc",
     "bo_new_cursor", "CrtcCreate", "GetConnector", "GetEncoder", "calloc_output",
     "OutputCreate", "InitialConfiguration", "LoadSubModules",
     "MapMem", "bo_map", "open_fb0", "fb0_info", "mmap_fb0", "SetVisualTypes",
     "calloc_exa", "exaDriverAlloc", "exaDriverInit", "DRI2ScreenInit",
     "SetMaster", "SetDesiredModes", "CrtcScreenInit", "cursors_init",
     "udev_new", "monitor_new", "monitor_filter", "AddGeneralHandler", "RegisterWakeup",
     "udev_monitor_receive_device", "fstat", "GetConnectorAgain", "calloc_props", "calloc_atoms",
     "ioctl_count", "drmMalloc", "ioctl_values"}

=============================================================================
