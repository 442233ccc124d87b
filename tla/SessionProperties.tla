------------------------- MODULE SessionProperties -------------------------
(***************************************************************************)
(* What the life of the server and the queries of output properties        *)
(* promise.                                                                *)
(***************************************************************************)
EXTENDS Session

\* Types, and the sizes that the code keeps apart from what they measure.
TypeOK ==
    /\ held \subseteq {"sections", "probe_fd", "screen", "rec", "fd", "deviceName", "dev",
                       "options", "mode_res", "plane_res", "drmmode", "crtc", "cursor",
                       "connector", "output", "scanout", "fb0", "fb0_map", "null_exa",
                       "exa", "dri2", "udev", "monitor"}
    /\ num_crtc \in 0..NumCrtc /\ num_output \in 0..NumOutput
    /\ exaRecords \in 0..gen /\ gen \in 0..MaxGen /\ created \in 0..gen
    /\ drmFD \in -1..1
    /\ hooks \in [Hooks -> 0..1]
    /\ kprops \in P!Lists /\ mode_output \in P!Lists
    /\ num_props \in 0..Cardinality(1..MaxProps \ Ignored)
    /\ \A j \in DOMAIN props : props[j].index \in 1..MaxProps
    /\ query.count \in 0..MaxProps /\ query.result \in Values \cup {Junk}
    /\ conn \subseteq P!Pointers /\ buffers \in [P!Pointers -> 0..1] /\ uevents \in 0..1
    /\ {master, vtSema, root, missed} \subseteq BOOLEAN

-----------------------------------------------------------------------------
(* The life of the server.                                                 *)

\* What PreInit leaves when it succeeds, whichever calls have failed in it: the
\* result of omap_device_new and of drmmode_pre_init is not looked at.
PreInitLeaves ==
    {"screen", "rec", "fd", "deviceName", "options"}
    \cup ({"dev"} \cap held)
    \cup IF num_crtc > 0 THEN {"drmmode"} ELSE {}

\* Whatever has failed on the way, nothing is lost and nothing given up too early:
\* where the server rests, it holds exactly what the calls that brought it there
\* promise.  (held is a set: a second release of one thing would not show.)
\* The KMS objects are there all together or not at all, a closed screen holds
\* what a screen ready for its first generation does, but for one EXA record
\* per generation, and a screen that is deleted has given up the device.
HeldAtRest ==
    /\ pc \in {"ready", "closed"} => held = PreInitLeaves
    /\ pc \in {"running", "away"} =>
           /\ held = PreInitLeaves \cup {"dev", "drmmode", "scanout", "dri2", "udev", "monitor"}
           /\ exaRecords = gen
    /\ pc \in {"ready", "closed", "running", "away", "deleted"} =>
           <<num_crtc, num_output>> \in {<<0, 0>>, <<NumCrtc, NumOutput>>}
    /\ pc = "deleted" => held \cap {"rec", "dev", "fd", "deviceName"} = {}
    /\ pc = "exit" => held \cap {"sections", "probe_fd"} = {}

\* The server calls no handler of a screen that was closed, and calls none twice:
\* generation after generation, ScreenInit registers each handler once, and
\* CloseScreen takes back each one.  (A ScreenInit that fails is the end of the
\* server, whatever it has left registered.)
HooksWhileUp ==
    /\ pc \in {"running", "away"} => \A h \in Hooks : hooks[h] = 1
    /\ pc \in {"ready", "closed", "deleted"} => \A h \in Hooks : hooks[h] = 0

\* A server that runs as root is DRM master just while it has the virtual
\* terminal: console and other servers can take over when it is away, and
\* CloseScreen gives the master up although it is the one that clears vtSema.
MasterWithVT ==
    root => /\ pc = "running" => master /\ vtSema
            /\ pc \in {"away", "closed"} => ~master /\ ~vtSema

-----------------------------------------------------------------------------
(* Output properties and hotplug.                                          *)

\* A query frees each buffer once, whatever the retries and the ways out: a buffer
\* is there as long as the request of this try points to it, and none before a
\* try, after the call, or because an earlier try left a pointer behind that
\* err_allocs frees again.
FreedOnce ==
    \A b \in P!Pointers :
        buffers[b] = IF b \in conn /\ query.pc \notin {"idle", "GetCount", "report"} THEN 1 ELSE 0

\* The kernel's list may grow and shrink between the two system calls: the
\* answer is a value that the property asked for had in the meantime, never the
\* contents of a buffer that the kernel did not fill.
AnswerIsReal == query.pc = "report" /\ vtSema => query.result \in query.seen

\* The list that the driver knows is as long as the kernel's, unless an event
\* is on its way, or one was lost: read while the server was away, with fstat
\* failing, or never read before the screen was closed.
HotplugSeen == Up /\ Idle /\ ~missed /\ uevents = 0 => Len(mode_output) = Len(kprops)

\* A query comes to its end, whatever the retry has to repeat, unless hotplug
\* events keep changing the list.
QueryEnds ==
    \/ []<><<Hotplug>>_sessionVars
    \/ query.pc # "idle" /\ query.pc # "crashed" ~> query.pc = "idle"
=============================================================================
