---------------------------- MODULE OutputProps ----------------------------
(***************************************************************************)
(* The properties of one output: the list the kernel has for its connector *)
(* changes while the driver looks at it.  The driver has a snapshot of the *)
(* connector (mode_output, taken by detect), a table of the properties it  *)
(* offers to RandR (props, with their index in the list), and queries the  *)
(* kernel for a single value by two system calls with buffers of the size  *)
(* that the first one told.                                                *)
(*                                                                         *)
(* A property is named by its index, and has a value; the kernel adds and  *)
(* removes properties at the end of the list.                              *)
(***************************************************************************)
EXTENDS Integers, Sequences

CONSTANTS
    MaxProps,      \* bound: length of the kernel's list
    Values,        \* values of properties
    Junk,          \* what memory holds that nobody wrote, or past the end
    Ignored,       \* indices of EDID, DPMS and blobs, not offered to RandR
    Unhandled,     \* indices of properties that are neither a range nor an enumeration
    Failing        \* the calls that may fail

VARIABLES
    kprops,        \* the kernel's list of values
    mode_output,   \* the driver's snapshot of it
    num_props,     \* entries the driver believes its table has
    props,         \* the table: [index, atoms], atoms being FALSE for a NULL pointer
    query,         \* the query in progress
    conn,          \* the pointers to buffers in its request that are not NULL
    buffers,       \* how often each buffer of queries was allocated and not freed
    vtSema,        \* does the server own the virtual terminal?
    master         \* is the server the DRM master?

Lists == UNION {[1..n -> Values] : n \in 0..MaxProps}

\* The two buffers of a query, named after the pointers props_ptr, prop_values_ptr.
Pointers == {"props", "prop_values"}

\* pc is where the query is, count what the first system call told, r is 1 when it
\* has an answer and result which; seen is history: the values the property had
\* since the call began.
NoQuery ==
    [pc |-> "idle", index |-> 0, count |-> 0, r |-> 0, result |-> Junk, seen |-> {}]

InitProps ==
    /\ kprops \in Lists
    /\ mode_output = kprops
    /\ num_props = 0 /\ props = <<>>
    /\ query = NoQuery
    /\ conn = {} /\ buffers = [b \in Pointers |-> 0]

\* Entry i of a list, which may be read beyond its end.
Entry(list, i) == IF i \in DOMAIN list THEN list[i] ELSE Junk

-----------------------------------------------------------------------------
(* The kernel: hotplug, another program, the hardware.                     *)

Witnessed(list) ==
    IF query.pc = "idle" \/ query.index \notin DOMAIN list THEN query
    ELSE [query EXCEPT !.seen = @ \cup {list[query.index]}]

Hotplug ==
    /\ \/ /\ Len(kprops) < MaxProps
          /\ \E v \in Values : kprops' = Append(kprops, v)
       \/ kprops # <<>> /\ kprops' = SubSeq(kprops, 1, Len(kprops) - 1)
    /\ query' = Witnessed(kprops')
    /\ UNCHANGED <<mode_output, num_props, props, conn, buffers>>

ValueChanges ==
    /\ \E i \in DOMAIN kprops : \E v \in Values \ {kprops[i]} :
         kprops' = [kprops EXCEPT ![i] = v]
    /\ query' = Witnessed(kprops')
    /\ UNCHANGED <<mode_output, num_props, props, conn, buffers>>

-----------------------------------------------------------------------------
(* Detection, and the table of properties.                                 *)

\* drmmode_output_detect frees the old connector before it asks for the new
\* one, and uses what it gets.
Detect ==
    /\ query.pc = "idle"
    /\ \/ mode_output' = kprops /\ UNCHANGED query
       \/ /\ "GetConnectorAgain" \in Failing
          /\ query' = [query EXCEPT !.pc = "crashed"]
          /\ UNCHANGED mode_output
    /\ UNCHANGED <<kprops, num_props, props, conn, buffers>>

\* The indices of the snapshot that RandR is offered; their sequence in the
\* order of the list is the one member of Ascending.
Offered == DOMAIN mode_output \ Ignored
Ascending ==
    {t \in UNION {[1..n -> Offered] : n \in 0..Len(mode_output)} :
        /\ \A j, k \in DOMAIN t : j < k => t[j] < t[k]
        /\ \A i \in Offered : \E j \in DOMAIN t : t[j] = i}

NotReset(t) == num_props + Len(t)             \* mutant: num_props is not set to 0
NumProps(t) == Len(t)

\* The atoms of an entry stay NULL when it is of an unhandled kind, or when
\* their calloc fails.
Atoms(i) == IF i \in Unhandled THEN {FALSE}
            ELSE IF "calloc_atoms" \in Failing THEN BOOLEAN ELSE {TRUE}

\* drmmode_output_create_resources: without memory for the table, num_props
\* keeps what an earlier generation has left in it.  The table of that
\* generation is not freed.
CreateResources ==
    /\ query.pc = "idle"
    /\ \/ \E t \in Ascending : \E as \in [DOMAIN t -> BOOLEAN] :
            /\ \A j \in DOMAIN t : as[j] \in Atoms(t[j])
            /\ props' = [j \in DOMAIN t |-> [index |-> t[j], atoms |-> as[j]]]
            /\ num_props' = NumProps(t)
       \/ "calloc_props" \in Failing /\ props' = <<>> /\ UNCHANGED num_props
    /\ UNCHANGED <<kprops, mode_output, query, conn, buffers>>

-----------------------------------------------------------------------------
(* A client reads or writes the property with index i.                     *)

\* The entries a search for i looks at.
LookedAt(i) ==
    {j \in 1..num_props : \A k \in 1..(j - 1) : k \in DOMAIN props => props[k].index # i}

\* Does it follow a pointer that is NULL or past the end of the table?
Stray(i) == \E j \in LookedAt(i) : j \notin DOMAIN props \/ ~props[j].atoms
Finds(i) == \E j \in DOMAIN props : props[j].index = i

\* drmmode_output_set_property: only the master may change a property.
SetProperty ==
    /\ query.pc = "idle"
    /\ \E i \in 1..MaxProps, v \in Values :
         IF Stray(i) THEN query' = [query EXCEPT !.pc = "crashed"] /\ UNCHANGED kprops
         ELSE /\ UNCHANGED query
              /\ kprops' = IF Finds(i) /\ master /\ i \in DOMAIN kprops
                           THEN [kprops EXCEPT ![i] = v] ELSE kprops
    /\ UNCHANGED <<mode_output, num_props, props, conn, buffers>>

\* drmmode_output_get_property: the kernel is asked only while the server has
\* the virtual terminal.
GetProperty ==
    /\ query.pc = "idle"
    /\ \E i \in 1..MaxProps :
         query' = IF Stray(i) THEN [NoQuery EXCEPT !.pc = "crashed"]
                  ELSE IF ~Finds(i) THEN query
                  ELSE IF vtSema
                  THEN [NoQuery EXCEPT !.pc = "GetCount", !.index = i,
                                       !.seen = {kprops[j] : j \in DOMAIN kprops \cap {i}}]
                  ELSE [NoQuery EXCEPT !.pc = "report", !.index = i,
                                       !.result = Entry(mode_output, i)]
    /\ UNCHANGED <<kprops, mode_output, num_props, props, conn, buffers>>

\* drmmode_output_get_property_from_connector, one system call or allocation
\* at a time.
GoTo(label) == query' = [query EXCEPT !.pc = label]
Answer(v)   == query' = [query EXCEPT !.pc = "err_allocs", !.r = 1, !.result = v]
NoAnswer    == query' = NoQuery

\* The buffers that the request points to are freed; a NULL pointer is no matter.
Freed == [b \in Pointers |-> IF b \in conn THEN buffers[b] - 1 ELSE buffers[b]]

\* Mutant: a retry does not clear the request.
GetCountNoMemset ==
    /\ query.pc = "GetCount"
    /\ \/ kprops # <<>> /\ query' = [query EXCEPT !.pc = "malloc_props", !.count = Len(kprops)]
       \/ kprops = <<>> /\ NoAnswer
    /\ UNCHANGED <<kprops, mode_output, num_props, props, conn, buffers>>

\* The label retry: the request is cleared, then how many properties are there?
GetCount ==
    /\ query.pc = "GetCount"
    /\ \/ kprops # <<>> /\ query' = [query EXCEPT !.pc = "malloc_props", !.count = Len(kprops)]
       \/ kprops = <<>> /\ NoAnswer
       \/ "ioctl_count" \in Failing /\ NoAnswer
    /\ conn' = {}
    /\ UNCHANGED <<kprops, mode_output, num_props, props, buffers>>

\* drmMalloc of a buffer; the query goes on at next.
Malloc(b, next) ==
    \/ /\ GoTo(next)
       /\ conn' = conn \cup {b}
       /\ buffers' = [buffers EXCEPT ![b] = @ + 1]
    \/ /\ "drmMalloc" \in Failing
       /\ GoTo("err_allocs")
       /\ conn' = conn \ {b}
       /\ UNCHANGED buffers

MallocProps ==
    /\ query.pc = "malloc_props" /\ Malloc("props", "malloc_values")
    /\ UNCHANGED <<kprops, mode_output, num_props, props>>

MallocValues ==
    /\ query.pc = "malloc_values" /\ Malloc("prop_values", "GetValues")
    /\ UNCHANGED <<kprops, mode_output, num_props, props>>

\* What the list holds, when it has not grown: a value, or no longer one.
Written(i) == IF i > Len(kprops) THEN GoTo("err_allocs") ELSE Answer(kprops[i])

\* Mutant: what was not written is used.
GetValuesNoRetry ==
    /\ query.pc = "GetValues"
    /\ IF query.index > Len(kprops) THEN GoTo("err_allocs")
       ELSE Answer(IF Len(kprops) > query.count THEN Junk ELSE kprops[query.index])
    /\ UNCHANGED <<kprops, mode_output, num_props, props, conn, buffers>>

\* Then the values: the kernel writes none when there are more than the buffers
\* hold, and the query starts again; otherwise it says how many it has written.
GetValues ==
    /\ query.pc = "GetValues"
    /\ \/ Len(kprops) > query.count /\ GoTo("retry")
       \/ Len(kprops) <= query.count /\ Written(query.index)
       \/ "ioctl_values" \in Failing /\ GoTo("err_allocs")
    /\ UNCHANGED <<kprops, mode_output, num_props, props, conn, buffers>>

RetryOldCount ==          \* mutant: the number of properties is not asked for again
    /\ query.pc = "retry" /\ GoTo("malloc_props")
    /\ buffers' = Freed /\ conn' = {}
    /\ UNCHANGED <<kprops, mode_output, num_props, props>>

\* Both buffers are freed before the retry,
Retry ==
    /\ query.pc = "retry" /\ GoTo("GetCount")
    /\ buffers' = Freed
    /\ UNCHANGED <<kprops, mode_output, num_props, props, conn>>

\* and at the label err_allocs those that are there, with an answer or without.
ErrAllocs ==
    /\ query.pc = "err_allocs"
    /\ query' = IF query.r = 1 THEN [query EXCEPT !.pc = "report"] ELSE NoQuery
    /\ buffers' = Freed
    /\ conn' = {}
    /\ UNCHANGED <<kprops, mode_output, num_props, props>>

\* RandR is told the answer, and the server goes on.
Report ==
    /\ query.pc = "report"
    /\ query' = NoQuery
    /\ UNCHANGED <<kprops, mode_output, num_props, props, conn, buffers>>

QueryStep ==
    GetCount \/ MallocProps \/ MallocValues \/ GetValues \/ Retry \/ ErrAllocs \/ Report
=============================================================================
