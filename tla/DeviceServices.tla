--------------------------- MODULE DeviceServices ---------------------------
(*****************************************************************************)
(* Services of the device runtime side by side: pinned memory, the settings  *)
(* of the allocators, device and stream guards, stream pools, library        *)
(* handles and device assertions.  They do not interact: a behaviour is one  *)
(* of one service, which "at" names, and the others' variables stay 0.  So   *)
(* an invariant of a service is one of this module, and what the runs check  *)
(* of the small instances is proved here for every value of the constants.   *)
(*                                                                           *)
(* The constants of a service are the fields of one record, and x1, x2, ...  *)
(* are the variables of its module in the order of their declaration.        *)
(* Config and Guards, whose proofs are part of this module, have variables   *)
(* of their own.                                                             *)
(*****************************************************************************)
EXTENDS Integers, Sequences, TLAPS

CONSTANTS hostAddresses, hostStreams, configs, contexts, poolDraws, poolThreads,
          libraryHandles, workspaces, mathModes, launchRing, launchBuffers

VARIABLES
    at,   \* the component this behaviour is of
    x1, x2, x3, x4, x5, x6, x7, x8, x9, x10, x11,   \* its variables
    settings, given, last, status,                  \* those of Config
    dev, ctx, streams, guards, want, wantStream, launch   \* of Guards
servicesVars == <<at, x1, x2, x3, x4, x5, x6, x7, x8, x9, x10, x11, settings, given, last, status,
                  dev, ctx, streams, guards, want, wantStream, launch>>

HostAddresses == INSTANCE CachingHostAllocatorProofs WITH
    Threads <- hostAddresses.Threads, Streams <- hostAddresses.Streams,
    MaxPtr <- hostAddresses.MaxPtr, Sizes <- hostAddresses.Sizes,
    HostRegister <- hostAddresses.HostRegister, MayFail <- hostAddresses.MayFail,
    memory <- x1, block <- x2, blocks_ <- x3, free_list_ <- x4, supa_events_ <- x5,
    cached_events <- x6, host_register <- x7, failed <- x8, work <- x9, pc <- x10, local <- x11
HostStreams == INSTANCE CachingHostAllocatorProofs WITH
    Threads <- hostStreams.Threads, Streams <- hostStreams.Streams,
    MaxPtr <- hostStreams.MaxPtr, Sizes <- hostStreams.Sizes,
    HostRegister <- hostStreams.HostRegister, MayFail <- hostStreams.MayFail,
    memory <- x1, block <- x2, blocks_ <- x3, free_list_ <- x4, supa_events_ <- x5,
    cached_events <- x6, host_register <- x7, failed <- x8, work <- x9, pc <- x10, local <- x11
Config == INSTANCE AllocatorConfig WITH
    kLargeBufferMb <- configs.kLargeBufferMb, Numbers <- configs.Numbers, True <- configs.True,
    False <- configs.False, Word <- configs.Word, MaxSize <- configs.MaxSize,
    Unset <- configs.Unset, pinned_max_register_threads <- configs.pinned_max_register_threads
Guards == INSTANCE DeviceContexts WITH
    Threads <- contexts.Threads, NumDevices <- contexts.NumDevices,
    MaxDepth <- contexts.MaxDepth
PoolDraws == INSTANCE StreamPool WITH
    Threads <- poolDraws.Threads, NumDevices <- poolDraws.NumDevices,
    StreamsPerPoolBits <- poolDraws.StreamsPerPoolBits,
    StreamTypeBits <- poolDraws.StreamTypeBits, Priorities <- poolDraws.Priorities,
    CounterBits <- poolDraws.CounterBits, MaxDraws <- poolDraws.MaxDraws,
    made <- x1, once <- x2, counter <- x3, thread <- x4, drawn <- x5
PoolThreads == INSTANCE StreamPool WITH
    Threads <- poolThreads.Threads, NumDevices <- poolThreads.NumDevices,
    StreamsPerPoolBits <- poolThreads.StreamsPerPoolBits,
    StreamTypeBits <- poolThreads.StreamTypeBits, Priorities <- poolThreads.Priorities,
    CounterBits <- poolThreads.CounterBits, MaxDraws <- poolThreads.MaxDraws,
    made <- x1, once <- x2, counter <- x3, thread <- x4, drawn <- x5
LibraryHandles == INSTANCE HandlePool WITH
    Threads <- libraryHandles.Threads, Devices <- libraryHandles.Devices,
    StreamIds <- libraryHandles.StreamIds, Modes <- libraryHandles.Modes,
    Sublas <- libraryHandles.Sublas, MayFail <- libraryHandles.MayFail,
    MaxHandles <- libraryHandles.MaxHandles, None <- libraryHandles.None,
    created_handles <- x1, available_handles <- x2, my_handles <- x3, alive <- x4,
    poolAlive <- x5, lib <- x6, call <- x7, map <- x8, inMap <- x9, crashed <- x10,
    highWater <- x11
Workspaces == INSTANCE HandlePool WITH
    Threads <- workspaces.Threads, Devices <- workspaces.Devices,
    StreamIds <- workspaces.StreamIds, Modes <- workspaces.Modes, Sublas <- workspaces.Sublas,
    MayFail <- workspaces.MayFail, MaxHandles <- workspaces.MaxHandles, None <- workspaces.None,
    created_handles <- x1, available_handles <- x2, my_handles <- x3, alive <- x4,
    poolAlive <- x5, lib <- x6, call <- x7, map <- x8, inMap <- x9, crashed <- x10,
    highWater <- x11
MathModes == INSTANCE HandlePool WITH
    Threads <- mathModes.Threads, Devices <- mathModes.Devices,
    StreamIds <- mathModes.StreamIds, Modes <- mathModes.Modes, Sublas <- mathModes.Sublas,
    MayFail <- mathModes.MayFail, MaxHandles <- mathModes.MaxHandles, None <- mathModes.None,
    created_handles <- x1, available_handles <- x2, my_handles <- x3, alive <- x4,
    poolAlive <- x5, lib <- x6, call <- x7, map <- x8, inMap <- x9, crashed <- x10,
    highWater <- x11
LaunchRing == INSTANCE KernelLaunchRegistry WITH
    Threads <- launchRing.Threads, Devices <- launchRing.Devices,
    enabled_at_runtime <- launchRing.enabled_at_runtime,
    gather_launch_stacktrace <- launchRing.gather_launch_stacktrace,
    max_kernel_launches <- launchRing.max_kernel_launches,
    AssertionCount <- launchRing.AssertionCount, CallerMod <- launchRing.CallerMod,
    MaxLaunches <- launchRing.MaxLaunches,
    MaxFailures <- launchRing.MaxFailures, MaxMallocs <- launchRing.MaxMallocs,
    None <- launchRing.None,
    generation_number <- x1, kernel_launches <- x2, uvm_assertions <- x3, buffers <- x4,
    gpu_alloc_mutex <- x5, pc <- x6, dev <- x7, ptr <- x8, kernels <- x9, seen <- x10,
    report <- x11
LaunchBuffers == INSTANCE KernelLaunchRegistry WITH
    Threads <- launchBuffers.Threads, Devices <- launchBuffers.Devices,
    enabled_at_runtime <- launchBuffers.enabled_at_runtime,
    gather_launch_stacktrace <- launchBuffers.gather_launch_stacktrace,
    max_kernel_launches <- launchBuffers.max_kernel_launches,
    AssertionCount <- launchBuffers.AssertionCount, CallerMod <- launchBuffers.CallerMod,
    MaxLaunches <- launchBuffers.MaxLaunches,
    MaxFailures <- launchBuffers.MaxFailures, MaxMallocs <- launchBuffers.MaxMallocs,
    None <- launchBuffers.None,
    generation_number <- x1, kernel_launches <- x2, uvm_assertions <- x3, buffers <- x4,
    gpu_alloc_mutex <- x5, pc <- x6, dev <- x7, ptr <- x8, kernels <- x9, seen <- x10,
    report <- x11

\* The variables that a behaviour does not use, and that its steps leave alone.
Rest6 == x6 = 0 /\ x7 = 0 /\ x8 = 0 /\ x9 = 0 /\ x10 = 0 /\ x11 = 0
Rest1 == x1 = 0 /\ x2 = 0 /\ x3 = 0 /\ x4 = 0 /\ x5 = 0 /\ Rest6
NoSettings == settings = 0 /\ given = 0 /\ last = 0 /\ status = 0
NoContexts ==
    /\ dev = 0 /\ ctx = 0 /\ streams = 0 /\ guards = 0 /\ want = 0
    /\ wantStream = 0 /\ launch = 0
KeepRest6 == UNCHANGED <<x6, x7, x8, x9, x10, x11>>
KeepRest1 == UNCHANGED <<x1, x2, x3, x4, x5>> /\ KeepRest6
KeepSettings == UNCHANGED <<settings, given, last, status>>
KeepContexts == UNCHANGED <<dev, ctx, streams, guards, want, wantStream, launch>>

ServicesInit ==
    \/ at = "HostAddresses" /\ HostAddresses!Init /\ NoSettings /\ NoContexts
    \/ at = "HostStreams" /\ HostStreams!Init /\ NoSettings /\ NoContexts
    \/ at = "Config" /\ Config!Init /\ Rest1 /\ NoContexts
    \/ at = "Guards" /\ Guards!Init /\ Rest1 /\ NoSettings
    \/ at = "PoolDraws" /\ PoolDraws!Init /\ Rest6 /\ NoSettings /\ NoContexts
    \/ at = "PoolThreads" /\ PoolThreads!Init /\ Rest6 /\ NoSettings /\ NoContexts
    \/ at = "LibraryHandles" /\ LibraryHandles!Init /\ NoSettings /\ NoContexts
    \/ at = "Workspaces" /\ Workspaces!Init /\ NoSettings /\ NoContexts
    \/ at = "MathModes" /\ MathModes!Init /\ NoSettings /\ NoContexts
    \/ at = "LaunchRing" /\ LaunchRing!Init /\ NoSettings /\ NoContexts
    \/ at = "LaunchBuffers" /\ LaunchBuffers!Init /\ NoSettings /\ NoContexts

ServicesNext ==
    /\ UNCHANGED at
    /\ \/ at = "HostAddresses" /\ HostAddresses!Next /\ KeepSettings /\ KeepContexts
       \/ at = "HostStreams" /\ HostStreams!Next /\ KeepSettings /\ KeepContexts
       \/ at = "Config" /\ Config!Next /\ KeepRest1 /\ KeepContexts
       \/ at = "Guards" /\ Guards!Next /\ KeepRest1 /\ KeepSettings
       \/ at = "PoolDraws" /\ PoolDraws!Next /\ KeepRest6 /\ KeepSettings /\ KeepContexts
       \/ at = "PoolThreads" /\ PoolThreads!Next /\ KeepRest6 /\ KeepSettings /\ KeepContexts
       \/ at = "LibraryHandles" /\ LibraryHandles!Next /\ KeepSettings /\ KeepContexts
       \/ at = "Workspaces" /\ Workspaces!Next /\ KeepSettings /\ KeepContexts
       \/ at = "MathModes" /\ MathModes!Next /\ KeepSettings /\ KeepContexts
       \/ at = "LaunchRing" /\ LaunchRing!Next /\ KeepSettings /\ KeepContexts
       \/ at = "LaunchBuffers" /\ LaunchBuffers!Next /\ KeepSettings /\ KeepContexts

ServicesSpec == ServicesInit /\ [][ServicesNext]_servicesVars

-----------------------------------------------------------------------------
\* Pinned memory in the free lists is touched by no queued work, in whatever
\* order threads free, record and process events, a block that waits for
\* events never drops out of their queue, and event_count is the number of its
\* events wherever they are (SUPAHostAllocator::free, process_events).
HostMemorySafe ==
    /\ at = "HostAddresses" => /\ HostAddresses!HostMemoryQuiescent
                               /\ HostAddresses!NoBlockForgotten
                               /\ HostAddresses!EventsCounted
    /\ at = "HostStreams" => /\ HostStreams!HostMemoryQuiescent
                             /\ HostStreams!NoBlockForgotten
                             /\ HostStreams!EventsCounted

\* The split size and the threshold of garbage collection are those of the last
\* string, the other settings those of the last string that named them, also
\* when a string was refused half-way; only release_lock_on_supamalloc is never
\* set. Whatever the strings, the allocator can work with the settings
\* (SUPAAllocatorConfig::parseArgs).
SettingsFollow ==
    /\ at = "Config" => Config!AllocatorSettingsFollow /\ Config!SettingsUsable

\* After every scope the device and the streams are those from before it, and
\* work is launched on the device that is current for the program
\* (SUPAGuardImpl.cpp, SUPAFunctions.cpp). A stream is handed out only when
\* its pool is complete, the pool gives every stream its turn, and a stream's
\* number leads back to it (SUPAStream.cpp).
ScopesRestored ==
    /\ at = "Guards" => /\ Guards!CurrentRestored
                        /\ Guards!LaunchedThere
                        /\ Guards!StreamsRestored
    /\ at = "PoolThreads" => PoolThreads!HandedOutReady /\ PoolThreads!RoundRobin
    /\ at = "PoolDraws" => PoolDraws!RoundRobin /\ PoolDraws!IdsDecode

\* A library handle is with one thread or in the pool, and when an operation
\* starts it still has the stream, the workspace and the math mode of the
\* call; a workspace is used on one stream only, and no more handles are made
\* than threads were active at a time (DeviceThreadHandles.h,
\* getCurrentSuBlasHandle).
HandlesSafe ==
    /\ at = "LibraryHandles" => /\ LibraryHandles!HandlesExclusive
                                /\ LibraryHandles!CreatedIsHighWater
    /\ at = "Workspaces" => Workspaces!LaunchAsAsked /\ Workspaces!WorkspacesPerStream
    /\ at = "MathModes" => MathModes!LaunchAsAsked /\ MathModes!WorkspacesPerStream

\* A report is right about every failure that was counted when its pause began,
\* and names for a written entry only the launch that failed; what the device
\* takes during the pause and has not written at its end is the exception. Every
\* kernel that may fail has a buffer the host reads (SUPADeviceAssertionHost.cpp).
AssertionsReported ==
    /\ at = "LaunchRing" => LaunchRing!LaunchesNamedRight /\ LaunchRing!KernelsReportToHost
    /\ at = "LaunchBuffers" => LaunchBuffers!LaunchesNamedRight /\ LaunchBuffers!KernelsReportToHost

-----------------------------------------------------------------------------
(* The settings of the allocators, after any strings.                        *)

\* The names of the options
LEMMA OptionNames == Config!Options = {"max_split_size", "max_non_split_rounding_size",
    "garbage_collection_threshold", "expandable_segments", "release_lock_on_supamalloc",
    "pinned_use_supa_host_register", "pinned_num_register_threads"}
    BY DEF Config!Options, Config!Default

\* The defaults are usable.
LEMMA ConfigInvInit == Config!ConfigAssumption /\ Config!Init => Config!ConfigInv
<1> SUFFICES ASSUME Config!ConfigAssumption, Config!Init PROVE Config!ConfigInv
    OBVIOUS
<1>1. /\ settings = [o \in Config!Options |-> settings[o]]
      /\ given = [o \in Config!Options |-> given[o]]
      /\ last = [o \in Config!Options |-> last[o]]
    BY DEF Config!Init, Config!NothingGiven, Config!Options, Config!Default
<1>2. Config!IsPowerOf2(1)
    BY DEF Config!IsPowerOf2
<1>3. Config!SettingsUsable
    BY <1>2 DEF Config!Init, Config!SettingsUsable, Config!Default, Config!ConfigAssumption
<1>4. \A o \in Config!Options :
          settings[o] = Config!Default[o] /\ given[o] = configs.Unset /\ last[o] = configs.Unset
    BY DEF Config!Init, Config!NothingGiven
<1>5. Config!Default["release_lock_on_supamalloc"] = FALSE
    BY DEF Config!Default
<1>6. Config!AllocatorSettingsFollow
    BY <1>4, <1>5 DEF Config!AllocatorSettingsFollow, Config!InEffect
<1> QED
    BY <1>1, <1>3, <1>6 DEF Config!ConfigInv

\* parseArgs begins: the two settings are their defaults, and nothing is given.
LEMMA parseArgsInv ==
    ASSUME Config!ConfigAssumption, Config!ConfigInv, NEW e \in BOOLEAN, Config!parseArgs(e)
    PROVE  Config!ConfigInv'
<1>1. /\ settings' = [o \in Config!Options |-> settings'[o]]
      /\ given' = [o \in Config!Options |-> given'[o]]
      /\ last' = [o \in Config!Options |-> last'[o]]
      /\ Config!SettingsUsable'
    BY OptionNames DEF Config!parseArgs, Config!ConfigInv, Config!SettingsUsable, Config!Reset,
       Config!NothingGiven, Config!IsPowerOf2, Config!Options
<1>2. Config!PerString \subseteq Config!Options
    BY OptionNames DEF Config!PerString
<1>3. \A o \in Config!Options : given'[o] = configs.Unset /\ last'[o] = last[o]
    BY DEF Config!parseArgs, Config!NothingGiven
<1>4. \A o \in Config!PerString : settings'[o] = Config!Default[o]
    <2>1. settings' = [settings EXCEPT !["max_split_size"] = configs.MaxSize,
                                       !["garbage_collection_threshold"] = 0]
        BY DEF Config!parseArgs, Config!Reset
    <2>2. /\ settings'["max_split_size"] = configs.MaxSize
          /\ settings'["garbage_collection_threshold"] = 0
        BY <2>1, OptionNames DEF Config!ConfigInv
    <2>3. /\ Config!Default["max_split_size"] = configs.MaxSize
          /\ Config!Default["garbage_collection_threshold"] = 0
        BY DEF Config!Default
    <2> QED BY <2>2, <2>3 DEF Config!PerString
<1>5. \A o \in Config!Options \ Config!PerString : settings'[o] = settings[o]
    BY DEF Config!parseArgs, Config!ConfigInv, Config!PerString, Config!Reset
<1>6. "release_lock_on_supamalloc" \notin Config!PerString
    BY DEF Config!PerString
<1>7. ASSUME NEW o \in Config!Options
      PROVE  settings'[o] = IF o = "release_lock_on_supamalloc" THEN FALSE ELSE Config!InEffect(o)'
    <2>1. CASE o \in Config!PerString
        BY <1>3, <1>4, <1>6, <2>1 DEF Config!InEffect
    <2>2. CASE o \notin Config!PerString
        <3>1. settings'[o] = settings[o] /\ Config!InEffect(o)' = Config!InEffect(o)
            BY <1>3, <1>5, <2>2 DEF Config!InEffect
        <3> QED BY <3>1 DEF Config!ConfigInv, Config!AllocatorSettingsFollow
    <2> QED BY <2>1, <2>2
<1> QED
    BY <1>1, <1>7 DEF Config!ConfigInv, Config!AllocatorSettingsFollow

\* One option: what is accepted is stored, and an error stores nothing.
LEMMA parse_optionInv ==
    ASSUME Config!ConfigAssumption, Config!ConfigInv, NEW i \in Config!Items, Config!parse_option(i)
    PROVE  Config!ConfigInv'
<1> DEFINE good == i.option \in Config!Options /\ i.colon /\ Config!Accepts(i.option, i.value)
<1>1. CASE ~good
    <2>1. UNCHANGED <<settings, given, last>>
        BY <1>1 DEF Config!parse_option
    <2> QED BY <2>1 DEF Config!ConfigInv, Config!SettingsUsable, Config!AllocatorSettingsFollow,
            Config!InEffect
<1>2. CASE good
    <2> DEFINE v == i.value
               o == i.option
    <2>1. o \in Config!Options /\ Config!Accepts(o, v)
        BY <1>2
    <2>2. /\ settings' = [settings EXCEPT ![o] = Config!Stored(o, v)]
          /\ given' = [given EXCEPT ![o] = v]
          /\ last' = [last EXCEPT ![o] = v]
        BY <1>2 DEF Config!parse_option
    <2>3. v # configs.Unset
        BY <2>1 DEF Config!Accepts, Config!Flags, Config!ConfigAssumption
    <2> HIDE DEF v, o
    <2>4. /\ settings' = [p \in Config!Options |-> settings'[p]]
          /\ given' = [p \in Config!Options |-> given'[p]]
          /\ last' = [p \in Config!Options |-> last'[p]]
        BY <2>2 DEF Config!ConfigInv
    <2>5. \A p \in Config!Options : p # o => /\ settings'[p] = settings[p]
                                            /\ given'[p] = given[p] /\ last'[p] = last[p]
        BY <2>2 DEF Config!ConfigInv
    <2>6. settings'[o] = Config!Stored(o, v) /\ given'[o] = v /\ last'[o] = v
        BY <2>1, <2>2 DEF Config!ConfigInv
    <2>7. ASSUME NEW p \in Config!Options
          PROVE  settings'[p] = IF p = "release_lock_on_supamalloc" THEN FALSE
                                ELSE Config!InEffect(p)'
        <3>1. CASE p # o
            BY <2>5, <3>1 DEF Config!ConfigInv, Config!AllocatorSettingsFollow, Config!InEffect
        <3>2. CASE p = o /\ o = "release_lock_on_supamalloc"
            BY <2>6, <3>2 DEF Config!Stored, Config!Flags
        <3>3. CASE p = o /\ o # "release_lock_on_supamalloc"
            BY <2>3, <2>6, <3>3 DEF Config!Stored, Config!InEffect
        <3> QED BY <3>1, <3>2, <3>3
    <2>8. Config!SettingsUsable'
        <3>1. CASE o = "max_split_size"
            <4>1. v > configs.kLargeBufferMb /\ Config!Stored(o, v) = v
                BY <2>1, <3>1 DEF Config!Accepts, Config!Flags, Config!Stored
            <4> QED BY <2>5, <2>6, <3>1, <4>1, OptionNames DEF Config!ConfigInv,
                Config!SettingsUsable
        <3>2. CASE o = "max_non_split_rounding_size"
            <4>1. v \in configs.Numbers /\ v > configs.kLargeBufferMb
                BY <2>1, <3>2 DEF Config!Accepts, Config!Flags
            <4>2. v \in Nat /\ configs.kLargeBufferMb \in Nat
                BY <4>1 DEF Config!ConfigAssumption
            <4>3. Config!Stored(o, v) = v
                BY <3>2 DEF Config!Stored, Config!Flags
            <4>4. v >= configs.kLargeBufferMb
                BY <4>1, <4>2
            <4> QED BY <2>5, <2>6, <3>2, <4>3, <4>4, OptionNames DEF Config!ConfigInv,
                Config!SettingsUsable
        <3>3. CASE o = "pinned_num_register_threads"
            <4>1. Config!IsPowerOf2(v) /\ v <= configs.pinned_max_register_threads
                  /\ Config!Stored(o, v) = v
                BY <2>1, <3>3 DEF Config!Accepts, Config!Flags, Config!ConfigAssumption,
                   Config!Stored
            <4> QED BY <2>5, <2>6, <3>3, <4>1, OptionNames DEF Config!ConfigInv,
                Config!SettingsUsable
        <3>4. CASE o \notin {"max_split_size", "max_non_split_rounding_size",
                             "pinned_num_register_threads"}
            BY <2>5, <3>4, OptionNames DEF Config!ConfigInv, Config!SettingsUsable
        <3> QED BY <3>1, <3>2, <3>3, <3>4
    <2> QED BY <2>4, <2>7, <2>8 DEF Config!ConfigInv, Config!AllocatorSettingsFollow
<1> QED
    BY <1>1, <1>2

\* Any strings, with errors in them or not
LEMMA ConfigInvNext == Config!ConfigAssumption /\ Config!ConfigInv
    /\ [Config!Next]_(Config!vars) => Config!ConfigInv'
<1> SUFFICES ASSUME Config!ConfigAssumption, Config!ConfigInv,
                    [Config!Next]_(Config!vars) PROVE Config!ConfigInv'
    OBVIOUS
<1>1. CASE UNCHANGED Config!vars
    BY <1>1 DEF Config!vars, Config!ConfigInv, Config!AllocatorSettingsFollow, Config!InEffect,
       Config!SettingsUsable
<1> QED
    BY <1>1, parseArgsInv, parse_optionInv DEF Config!Next

\* ConfigInv implies the properties.
LEMMA ConfigCorrect == Config!ConfigInv => Config!AllocatorSettingsFollow /\ Config!SettingsUsable
    BY DEF Config!ConfigInv

-----------------------------------------------------------------------------
(* The current device and streams, under any guards.                         *)

\* SetDevice makes d current, and no longer keeps a target.
LEMMA SetDeviceFact ==
    ASSUME contexts.NumDevices \in Nat, NEW s \in Guards!Contexts, NEW d \in Guards!Devices
    PROVE  Guards!Follows(s, Guards!SetDevice(s, d)) /\ Guards!SetDevice(s, d).k = -1
           /\ Guards!SetDevice(s, d).rt = d
           /\ Guards!GetDevice(Guards!SetDevice(s, d)) = d
  BY DEF Guards!Follows, Guards!Contexts, Guards!SetDevice, Guards!supaSetDevice, Guards!GetDevice

\* ExchangeDevice makes d current, with its context when it was not current before.
LEMMA ExchangeDeviceFact ==
    ASSUME contexts.NumDevices \in Nat, NEW s \in Guards!Contexts, NEW d \in Guards!Devices
    PROVE  Guards!Follows(s, Guards!ExchangeDevice(s, d)) /\ Guards!ExchangeDevice(s, d).k = -1
           /\ Guards!ExchangeDevice(s, d).rt = d
           /\ Guards!GetDevice(Guards!ExchangeDevice(s, d)) = d
           /\ (Guards!GetDevice(s) # d => d \in Guards!ExchangeDevice(s, d).ctx)
  BY DEF Guards!Follows, Guards!Contexts, Guards!ExchangeDevice, Guards!supaSetDevice,
     Guards!GetDevice

\* GetDevice returns a device.
LEMMA GetDeviceFact ==
    ASSUME contexts.NumDevices \in Nat,
           NEW s \in Guards!Contexts PROVE Guards!GetDevice(s) \in Guards!Devices
  BY DEF Guards!Contexts, Guards!GetDevice, Guards!Devices

\* A call that needs a context leaves the current device.
LEMMA UseFact ==
    ASSUME NEW s \in Guards!Contexts, s.k = -1
    PROVE  Guards!Follows(s, Guards!Use(s)) /\ Guards!Use(s).k = -1 /\ Guards!Use(s).rt = s.rt
           /\ Guards!GetDevice(Guards!Use(s)) = Guards!GetDevice(s)
  BY DEF Guards!Follows, Guards!Contexts, Guards!Use, Guards!GetDevice

\* MaybeSetDevice makes d current, or the target.
LEMMA MaybeSetDeviceFact ==
    ASSUME contexts.NumDevices \in Nat, NEW s \in Guards!Contexts, NEW d \in Guards!Devices
    PROVE  Guards!Follows(s, Guards!MaybeSetDevice(s, d))
           /\ Guards!GetDevice(Guards!MaybeSetDevice(s, d)) = d
<1>1. CASE d \in s.ctx
  BY <1>1, SetDeviceFact DEF Guards!MaybeSetDevice
<1>2. CASE d \notin s.ctx
  BY <1>2 DEF Guards!MaybeSetDevice, Guards!Follows, Guards!Contexts, Guards!GetDevice,
     Guards!Devices
<1> QED BY <1>1, <1>2

\* MaybeExchangeDevice makes d current, if no other device is the target.
LEMMA MaybeExchangeFact ==
    ASSUME contexts.NumDevices \in Nat, NEW s \in Guards!Contexts, NEW d \in Guards!Devices,
           s.k \in {-1, d}
    PROVE  Guards!Follows(s, Guards!MaybeExchangeDevice(s, d))
           /\ Guards!GetDevice(Guards!MaybeExchangeDevice(s, d)) = d
  BY DEF Guards!MaybeExchangeDevice, Guards!Follows, Guards!Contexts, Guards!GetDevice,
     Guards!Devices, Guards!supaSetDevice

\* Setting a stream makes its device current.
LEMMA setStreamFact ==
    ASSUME contexts.NumDevices \in Nat, NEW s \in Guards!Contexts, NEW d \in Guards!Devices
    PROVE  Guards!Follows(s, Guards!setStream(s, d)) /\ Guards!GetDevice(Guards!setStream(s, d)) = d
<1>1. CASE Guards!GetDevice(s) # d
  BY <1>1, SetDeviceFact DEF Guards!setStream
<1>2. CASE Guards!GetDevice(s) = d
  BY <1>2 DEF Guards!setStream, Guards!Follows, Guards!Contexts
<1> QED BY <1>1, <1>2

\* Two steps of a thread are one.
LEMMA FollowsTrans ==
    ASSUME NEW s \in Guards!Contexts, NEW n, NEW m, Guards!Follows(s, n), Guards!Follows(n, m),
           n.k = -1 \/ m.k = -1 \/ n.k = s.k
    PROVE  Guards!Follows(s, m)
  BY DEF Guards!Follows

\* A scope that works on another device ends with the device before it.
LEMMA ScopeFact ==
    ASSUME contexts.NumDevices \in Nat, NEW s \in Guards!Contexts, NEW d \in Guards!Devices
    PROVE  /\ Guards!Follows(s, Guards!Guarded(s, d))
           /\ Guards!GetDevice(Guards!Guarded(s, d)) = Guards!GetDevice(s)
           /\ Guards!Follows(s, Guards!OnDevice(s, d))
           /\ Guards!GetDevice(Guards!OnDevice(s, d)) = Guards!GetDevice(s)
           /\ Guards!Follows(s, Guards!insert_events(s, d))
           /\ Guards!GetDevice(Guards!insert_events(s, d)) = Guards!GetDevice(s)
<1> DEFINE e == Guards!ExchangeDevice(s, d)
           f == Guards!SetDevice(s, d)
           p == Guards!GetDevice(s)
<1>1. e \in Guards!Contexts /\ Guards!Follows(s, e) /\ e.k = -1 /\ f \in Guards!Contexts
      /\ Guards!Follows(s, f) /\ f.k = -1
  BY ExchangeDeviceFact, SetDeviceFact DEF Guards!Follows
<1>2. p \in Guards!Devices
  BY GetDeviceFact
<1> HIDE DEF e, f, p
<1>3. Guards!Use(e) \in Guards!Contexts /\ Guards!Follows(s, Guards!Use(e)) /\ Guards!Use(e).k = -1
  BY <1>1, UseFact, FollowsTrans DEF Guards!Follows
<1>4. Guards!Use(f) \in Guards!Contexts /\ Guards!Follows(s, Guards!Use(f)) /\ Guards!Use(f).k = -1
  BY <1>1, UseFact, FollowsTrans DEF Guards!Follows
<1>5. Guards!Follows(s, Guards!SetDevice(Guards!Use(e), p))
      /\ Guards!GetDevice(Guards!SetDevice(Guards!Use(e), p)) = p
  BY <1>2, <1>3, SetDeviceFact, FollowsTrans
<1>6. Guards!Follows(s, Guards!SetDevice(Guards!Use(f), p))
      /\ Guards!GetDevice(Guards!SetDevice(Guards!Use(f), p)) = p
  BY <1>2, <1>4, SetDeviceFact, FollowsTrans
<1>7. Guards!Follows(s, Guards!MaybeSetDevice(Guards!Use(f), p))
      /\ Guards!GetDevice(Guards!MaybeSetDevice(Guards!Use(f), p)) = p
  BY <1>2, <1>4, MaybeSetDeviceFact, FollowsTrans
<1> QED BY <1>5, <1>6, <1>7 DEF Guards!Guarded, Guards!OnDevice, Guards!insert_events, e, f, p

\* A step of t to the device state n, the guards q, the device w, the streams c and ws,
\* and the launch l keeps the invariant when they fit together.
LEMMA ThreadStep ==
    ASSUME Guards!ContextAssumption, Guards!ContextInv, NEW t \in contexts.Threads, NEW n,
           NEW q \in Seq(Guards!Guard), NEW w \in Guards!Devices,
           NEW c \in [Guards!Devices -> Guards!Streams],
           NEW ws \in [Guards!Devices -> Guards!Streams],
           NEW l \in [on : Guards!Devices, for : Guards!Devices],
           n \in Guards!Contexts, ctx \subseteq n.ctx, Guards!Becomes(t, n),
           guards' = [guards EXCEPT ![t] = q], want' = [want EXCEPT ![t] = w],
           streams' = [streams EXCEPT ![t] = c], wantStream' = [wantStream EXCEPT ![t] = ws],
           launch' = [launch EXCEPT ![t] = l],
           Guards!GetDevice(n) = w, Guards!Chained(q, w), Guards!Entered(q, n),
           Guards!SavedStreams(q, c, ws), l.on = l.for
    PROVE  Guards!ContextInv'
<1>1. dev' = [dev EXCEPT ![t] = [k |-> n.k, rt |-> n.rt]] /\ ctx' = n.ctx
  BY DEF Guards!Becomes
<1>2. Guards!ContextTypes'
  BY <1>1 DEF Guards!ContextInv, Guards!ContextTypes, Guards!Contexts
<1>3. ASSUME NEW u \in contexts.Threads, u # t
      PROVE  /\ dev'[u] = dev[u] /\ guards'[u] = guards[u] /\ want'[u] = want[u]
             /\ streams'[u] = streams[u]
             /\ wantStream'[u] = wantStream[u] /\ launch'[u] = launch[u]
  BY <1>1, <1>3 DEF Guards!ContextInv, Guards!ContextTypes
<1>4. /\ dev'[t] = [k |-> n.k, rt |-> n.rt] /\ guards'[t] = q /\ want'[t] = w /\ streams'[t] = c
      /\ wantStream'[t] = ws /\ launch'[t] = l
  BY <1>1 DEF Guards!ContextInv, Guards!ContextTypes
<1>5. Guards!State(t)' = n
  BY <1>1, <1>4 DEF Guards!State, Guards!Contexts
<1>6. ASSUME NEW u \in contexts.Threads, u # t
      PROVE  Guards!GetDevice(Guards!State(u))' = Guards!GetDevice(Guards!State(u))
             /\ Guards!State(u)'.k = Guards!State(u).k
             /\ Guards!State(u).ctx \subseteq Guards!State(u)'.ctx
  BY <1>1, <1>3, <1>6 DEF Guards!State, Guards!GetDevice
<1>7. Guards!CurrentRestored'
  <2> SUFFICES ASSUME NEW u \in contexts.Threads
             PROVE  (Guards!GetDevice(Guards!State(u)) = want[u])'
    BY DEF Guards!CurrentRestored
  <2>1. CASE u = t
    BY <1>4, <1>5, <2>1 DEF Guards!GetDevice
  <2>2. CASE u # t
    BY <1>3, <1>6, <2>2 DEF Guards!ContextInv, Guards!CurrentRestored
  <2> QED BY <2>1, <2>2
<1>8. Guards!LaunchedThere'
  BY <1>3, <1>4 DEF Guards!ContextInv, Guards!LaunchedThere
<1>9. \A u \in contexts.Threads : Guards!Chained(guards'[u], want'[u])
      /\ Guards!Entered(guards'[u], Guards!State(u)')
  <2> TAKE u \in contexts.Threads
  <2>1. CASE u = t
    BY <1>4, <1>5, <2>1
  <2>2. CASE u # t
    <3>1. guards'[u] = guards[u] /\ want'[u] = want[u]
      BY <1>3, <2>2
    <3>2. Guards!State(u)'.k = Guards!State(u).k
          /\ Guards!State(u).ctx \subseteq Guards!State(u)'.ctx
      BY <1>6, <2>2
    <3>3. Guards!Chained(guards[u], want[u]) /\ Guards!Entered(guards[u], Guards!State(u))
      BY DEF Guards!ContextInv
    <3>4. Guards!Entered(guards[u], Guards!State(u)')
      BY <3>2, <3>3 DEF Guards!Entered
    <3> QED BY <3>1, <3>3, <3>4
  <2> QED BY <2>1, <2>2
<1>10. \A u \in contexts.Threads : Guards!SavedStreams(guards'[u], streams'[u], wantStream'[u])
  <2> TAKE u \in contexts.Threads
  <2>1. CASE u = t
    BY <1>4, <2>1
  <2>2. CASE u # t
    BY <1>3, <2>2 DEF Guards!ContextInv
  <2> QED BY <2>1, <2>2
<1> QED BY <1>2, <1>7, <1>8, <1>9, <1>10 DEF Guards!ContextInv

\* A guard is entered from the current device.
LEMMA PushFact ==
    ASSUME NEW q \in Seq(Guards!Guard), NEW g \in Guards!Guard, NEW w, Guards!Chained(q, w),
           g.prev = w
    PROVE  Append(q, g) \in Seq(Guards!Guard) /\ Guards!Chained(Append(q, g), g.idx)
  BY DEF Guards!Chained

\* The guards but the last one
LEMMA FrontLast ==
    ASSUME NEW q \in Seq(Guards!Guard), q # <<>>
    PROVE  /\ Guards!Front(q) \in Seq(Guards!Guard) /\ Guards!Last(q) \in Guards!Guard
           /\ Guards!Last(q) = q[Len(q)]
           /\ Len(q) \in Nat \ {0} /\ Len(Guards!Front(q)) = Len(q) - 1
           /\ \A i \in 1..Len(q) - 1 : Guards!Front(q)[i] = q[i]
<1> DEFINE n == Len(q)
<1>1. n \in Nat \ {0} /\ DOMAIN q = 1..n
  OBVIOUS
<1>2. Guards!Front(q) \in Seq(Guards!Guard) /\ Len(Guards!Front(q)) = n - 1
      /\ \A i \in 1..n - 1 : Guards!Front(q)[i] = q[i]
  BY <1>1 DEF Guards!Front
<1>3. Guards!Last(q) = q[n] /\ n \in 1..n
  BY <1>1 DEF Guards!Last
<1> QED BY <1>1, <1>2, <1>3

\* Without its last guard a thread is back on the device before it.
LEMMA PopFact ==
    ASSUME NEW q \in Seq(Guards!Guard), q # <<>>, NEW w, Guards!Chained(q, w)
    PROVE  /\ Guards!Front(q) \in Seq(Guards!Guard) /\ Guards!Last(q) \in Guards!Guard
           /\ Guards!Last(q).idx = w
           /\ Guards!Chained(Guards!Front(q), Guards!Last(q).prev)
           /\ Len(q) \in Nat \ {0} /\ Guards!Last(q) = q[Len(q)]
           /\ Len(Guards!Front(q)) = Len(q) - 1
           /\ \A i \in 1..Len(q) - 1 : Guards!Front(q)[i] = q[i]
<1>1. /\ Guards!Front(q) \in Seq(Guards!Guard) /\ Guards!Last(q) \in Guards!Guard
      /\ Guards!Last(q) = q[Len(q)] /\ Len(Guards!Front(q)) = Len(q) - 1
      /\ Len(q) \in Nat \ {0} /\ \A i \in 1..Len(q) - 1 : Guards!Front(q)[i] = q[i]
  BY FrontLast
<1>2. Guards!Chained(Guards!Front(q), Guards!Last(q).prev)
  BY <1>1 DEF Guards!Chained
<1> QED BY <1>1, <1>2 DEF Guards!Chained

\* What a step of a thread keeps for the guards it is in, enters or leaves
LEMMA EnteredFact ==
    ASSUME contexts.NumDevices \in Nat, NEW q \in Seq(Guards!Guard), NEW s, NEW n,
           Guards!Follows(s, n), Guards!Entered(q, s)
    PROVE  /\ Guards!Entered(q, n)
           /\ q # <<>> => Guards!Entered(Guards!Front(q), n)
           /\ \A g \in Guards!Guard : (g.kind = "exchange" /\ g.prev # g.idx
               => g.idx \in n.ctx /\ n.k # g.idx)
                 => Guards!Entered(Append(q, g), n)
<1>1. Guards!Entered(q, n)
  <2>1. \A i \in 1..Len(q) : q[i].idx # -1
    <3>1. \A g \in Guards!Guard : g.idx \in Guards!Devices
      BY DEF Guards!Guard
    <3>2. \A i \in 1..Len(q) : q[i] \in Guards!Guard
      OBVIOUS
    <3>3. -1 \notin Guards!Devices
      BY DEF Guards!Devices
    <3> QED BY <3>1, <3>2, <3>3
  <2> QED BY <2>1 DEF Guards!Follows, Guards!Entered
<1>2. q # <<>> => Guards!Entered(Guards!Front(q), n)
  <2> SUFFICES ASSUME q # <<>> PROVE Guards!Entered(Guards!Front(q), n)
    OBVIOUS
  <2>1. Len(Guards!Front(q)) = Len(q) - 1 /\ \A i \in 1..Len(q) - 1 : Guards!Front(q)[i] = q[i]
    BY FrontLast
  <2>2. Len(q) \in Nat
    OBVIOUS
  <2> QED BY <1>1, <2>1, <2>2 DEF Guards!Entered
<1>3. \A g \in Guards!Guard : (g.kind = "exchange" /\ g.prev # g.idx => g.idx \in n.ctx
      /\ n.k # g.idx)
                 => Guards!Entered(Append(q, g), n)
  BY <1>1 DEF Guards!Entered
<1> QED BY <1>1, <1>2, <1>3

\* A guard saves the streams it changes.
LEMMA SavedPush ==
    ASSUME NEW q \in Seq(Guards!Guard), NEW c, NEW ws, Guards!SavedStreams(q, c, ws),
           NEW g \in Guards!Guard, NEW n,
           \A d \in Guards!Devices : IF Guards!Touches(g, d) THEN Guards!Saved(g,
               d) = c[d] ELSE n[d] = c[d]
    PROVE  Guards!SavedStreams(Append(q, g), n, ws)
<1> DEFINE a == Append(q, g)
<1>1. Len(q) \in Nat /\ Len(a) = Len(q) + 1 /\ a[Len(q) + 1] = g /\ \A i \in 1..Len(q) : a[i] = q[i]
  OBVIOUS
<1> HIDE DEF a
<1> SUFFICES ASSUME NEW d \in Guards!Devices
             PROVE  /\ (\A i \in 1..Len(a) : ~Guards!Touches(a[i], d)) => n[d] = ws[d]
                    /\ \A i \in 1..Len(a) :
                          Guards!Touches(a[i], d)
                              /\ (\A j \in 1..i - 1 : ~Guards!Touches(a[j], d))
                                  => Guards!Saved(a[i], d) = ws[d]
  BY DEF Guards!SavedStreams, a
<1>2. ASSUME \A i \in 1..Len(a) : ~Guards!Touches(a[i], d) PROVE n[d] = ws[d]
  <2>1. ~Guards!Touches(g, d) /\ \A i \in 1..Len(q) : ~Guards!Touches(q[i], d)
    BY <1>1, <1>2
  <2> QED BY <2>1 DEF Guards!SavedStreams
<1>3. ASSUME NEW i \in 1..Len(a), Guards!Touches(a[i], d),
             \A j \in 1..i - 1 : ~Guards!Touches(a[j], d)
      PROVE  Guards!Saved(a[i], d) = ws[d]
  <2>1. CASE i \in 1..Len(q)
    <3>1. a[i] = q[i] /\ \A j \in 1..i - 1 : a[j] = q[j]
      BY <1>1, <2>1
    <3> QED BY <1>3, <2>1, <3>1 DEF Guards!SavedStreams
  <2>2. CASE i = Len(q) + 1
    <3>1. \A j \in 1..Len(q) : ~Guards!Touches(q[j], d)
      BY <1>1, <1>3, <2>2
    <3> QED BY <1>1, <1>3, <2>2, <3>1 DEF Guards!SavedStreams
  <2> QED BY <1>1, <2>1, <2>2
<1> QED BY <1>2, <1>3

\* A guard that is left restores the streams it saved.
LEMMA SavedPop ==
    ASSUME NEW q \in Seq(Guards!Guard), q # <<>>, NEW c, NEW ws, Guards!SavedStreams(q, c, ws),
           NEW n,
           \A d \in Guards!Devices : n[d] = IF Guards!Touches(Guards!Last(q),
               d) THEN Guards!Saved(Guards!Last(q), d) ELSE c[d]
    PROVE  Guards!SavedStreams(Guards!Front(q), n, ws)
<1> DEFINE f == Guards!Front(q)
<1>1. /\ Len(q) \in Nat \ {0} /\ Len(f) = Len(q) - 1 /\ Guards!Last(q) = q[Len(q)]
      /\ \A i \in 1..Len(q) - 1 : f[i] = q[i]
  BY FrontLast
<1> HIDE DEF f
<1> SUFFICES ASSUME NEW d \in Guards!Devices
             PROVE  /\ (\A i \in 1..Len(f) : ~Guards!Touches(f[i], d)) => n[d] = ws[d]
                    /\ \A i \in 1..Len(f) :
                          Guards!Touches(f[i], d)
                              /\ (\A j \in 1..i - 1 : ~Guards!Touches(f[j], d))
                                  => Guards!Saved(f[i], d) = ws[d]
  BY DEF Guards!SavedStreams, f
<1>2. ASSUME \A i \in 1..Len(f) : ~Guards!Touches(f[i], d) PROVE n[d] = ws[d]
  <2>1. \A i \in 1..Len(q) - 1 : ~Guards!Touches(q[i], d)
    BY <1>1, <1>2
  <2>2. CASE Guards!Touches(Guards!Last(q), d)
    BY <1>1, <2>1, <2>2 DEF Guards!SavedStreams
  <2>3. CASE ~Guards!Touches(Guards!Last(q), d)
    <3>1. \A i \in 1..Len(q) : ~Guards!Touches(q[i], d)
      BY <1>1, <2>1, <2>3
    <3> QED BY <2>3, <3>1 DEF Guards!SavedStreams
  <2> QED BY <2>2, <2>3
<1>3. ASSUME NEW i \in 1..Len(f), Guards!Touches(f[i], d),
             \A j \in 1..i - 1 : ~Guards!Touches(f[j], d)
      PROVE  Guards!Saved(f[i], d) = ws[d]
  <2>1. i \in 1..Len(q) /\ f[i] = q[i] /\ \A j \in 1..i - 1 : f[j] = q[j]
    BY <1>1
  <2> QED BY <1>3, <2>1 DEF Guards!SavedStreams
<1> QED BY <1>2, <1>3

\* The invariant of one thread
LEMMA AtThread ==
    ASSUME Guards!ContextAssumption, Guards!ContextInv, NEW t \in contexts.Threads
    PROVE  /\ contexts.NumDevices \in Nat /\ Guards!State(t) \in Guards!Contexts
           /\ Guards!State(t).ctx = ctx
           /\ Guards!GetDevice(Guards!State(t)) = want[t] /\ want[t] \in Guards!Devices
           /\ guards[t] \in Seq(Guards!Guard) /\ streams[t] \in [Guards!Devices -> Guards!Streams]
           /\ wantStream[t] \in [Guards!Devices -> Guards!Streams]
           /\ launch[t] \in [on : Guards!Devices, for : Guards!Devices]
           /\ launch[t].on = launch[t].for
           /\ Guards!Chained(guards[t], want[t]) /\ Guards!Entered(guards[t], Guards!State(t))
           /\ Guards!SavedStreams(guards[t], streams[t], wantStream[t])
           /\ guards = [guards EXCEPT ![t] = guards[t]] /\ want = [want EXCEPT ![t] = want[t]]
           /\ streams = [streams EXCEPT ![t] = streams[t]]
           /\ wantStream = [wantStream EXCEPT ![t] = wantStream[t]]
           /\ launch = [launch EXCEPT ![t] = launch[t]]
<1>1. contexts.NumDevices \in Nat /\ Guards!State(t) \in Guards!Contexts
      /\ Guards!State(t).ctx = ctx
  BY DEF Guards!ContextAssumption, Guards!ContextInv, Guards!ContextTypes, Guards!State,
     Guards!Contexts
<1>2. Guards!GetDevice(Guards!State(t)) = want[t] /\ launch[t].on = launch[t].for
  BY DEF Guards!ContextInv, Guards!CurrentRestored, Guards!LaunchedThere
<1>3. /\ want[t] \in Guards!Devices
      /\ guards[t] \in Seq(Guards!Guard) /\ streams[t] \in [Guards!Devices -> Guards!Streams]
      /\ wantStream[t] \in [Guards!Devices -> Guards!Streams]
      /\ launch[t] \in [on : Guards!Devices, for : Guards!Devices]
  BY DEF Guards!ContextInv, Guards!ContextTypes
<1>4. Guards!Chained(guards[t], want[t]) /\ Guards!Entered(guards[t], Guards!State(t))
      /\ Guards!SavedStreams(guards[t], streams[t], wantStream[t])
  BY DEF Guards!ContextInv
<1>5. /\ guards = [guards EXCEPT ![t] = guards[t]] /\ want = [want EXCEPT ![t] = want[t]]
      /\ streams = [streams EXCEPT ![t] = streams[t]]
      /\ wantStream = [wantStream EXCEPT ![t] = wantStream[t]]
      /\ launch = [launch EXCEPT ![t] = launch[t]]
  BY DEF Guards!ContextInv, Guards!ContextTypes
<1> QED BY <1>1, <1>2, <1>3, <1>4, <1>5

\* Work on another device, and back.
LEMMA ScopesInv ==
    ASSUME Guards!ContextAssumption, Guards!ContextInv, NEW t \in contexts.Threads,
           NEW d \in Guards!Devices,
           Guards!workOn(t, d) \/ Guards!impl(t, d) \/ Guards!freeUsed(t, d)
    PROVE  Guards!ContextInv'
<1> DEFINE s == Guards!State(t)
<1>1. PICK n : Guards!Becomes(t, n) /\ Guards!Follows(s, n) /\ Guards!GetDevice(n) = want[t]
  BY AtThread, ScopeFact DEF Guards!workOn, Guards!impl, Guards!freeUsed
<1>2. UNCHANGED <<streams, guards, want, wantStream, launch>>
  BY DEF Guards!workOn, Guards!impl, Guards!freeUsed
<1>3. n \in Guards!Contexts /\ ctx \subseteq n.ctx /\ Guards!Entered(guards[t], n)
  BY <1>1, AtThread, EnteredFact DEF Guards!Follows
<1> QED BY <1>1, <1>2, <1>3, AtThread, ThreadStep

\* launchCurrent: the target becomes the device of the runtime before the launch.
LEMMA launchCurrentInv ==
    ASSUME Guards!ContextAssumption, Guards!ContextInv, NEW t \in contexts.Threads,
           Guards!launchCurrent(t)
    PROVE  Guards!ContextInv'
<1> DEFINE s == Guards!State(t)
           m == Guards!SetTargetDevice(s)
           l == [on |-> m.rt, for |-> want[t]]
<1>1. m \in Guards!Contexts /\ Guards!Follows(s, m) /\ m.k = -1 /\ m.rt = want[t]
  <2>1. CASE s.k >= 0
    <3>1. s.k = want[t]
      BY <2>1, AtThread DEF Guards!GetDevice
    <3> QED BY <2>1, <3>1, AtThread, SetDeviceFact DEF Guards!SetTargetDevice, Guards!Follows
  <2>2. CASE ~(s.k >= 0)
    BY <2>2, AtThread DEF Guards!GetDevice, Guards!SetTargetDevice, Guards!Follows, Guards!Contexts
  <2> QED BY <2>1, <2>2
<1>2. Guards!Becomes(t, Guards!Use(m)) /\ launch' = [launch EXCEPT ![t] = l]
      /\ UNCHANGED <<streams, guards, want, wantStream>>
  BY DEF Guards!launchCurrent
<1>3. l \in [on : Guards!Devices, for : Guards!Devices] /\ l.on = l.for
  BY <1>1, AtThread
<1> HIDE DEF m, l
<1>4. Guards!Follows(s, Guards!Use(m)) /\ Guards!GetDevice(Guards!Use(m)) = want[t]
  BY <1>1, AtThread, UseFact, FollowsTrans DEF Guards!GetDevice
<1>5. Guards!Use(m) \in Guards!Contexts /\ ctx \subseteq Guards!Use(m).ctx
      /\ Guards!Entered(guards[t], Guards!Use(m))
  BY <1>4, AtThread, EnteredFact DEF Guards!Follows
<1>6. /\ guards' = [guards EXCEPT ![t] = guards[t]] /\ want' = [want EXCEPT ![t] = want[t]]
      /\ streams' = [streams EXCEPT ![t] = streams[t]]
      /\ wantStream' = [wantStream EXCEPT ![t] = wantStream[t]]
  BY <1>2, AtThread
<1>7. /\ guards[t] \in Seq(Guards!Guard) /\ want[t] \in Guards!Devices
      /\ streams[t] \in [Guards!Devices -> Guards!Streams]
      /\ wantStream[t] \in [Guards!Devices -> Guards!Streams] /\ Guards!Chained(guards[t], want[t])
      /\ Guards!SavedStreams(guards[t], streams[t], wantStream[t])
  BY AtThread
<1> QED BY <1>2, <1>3, <1>4, <1>5, <1>6, <1>7, ThreadStep

\* set_device, outside the guards
LEMMA set_deviceInv ==
    ASSUME Guards!ContextAssumption, Guards!ContextInv, NEW t \in contexts.Threads,
           NEW d \in Guards!Devices, Guards!set_device(t, d)
    PROVE  Guards!ContextInv'
<1> DEFINE n == Guards!SetDevice(Guards!State(t), d)
<1>1. Guards!Becomes(t, n) /\ want' = [want EXCEPT ![t] = d] /\ guards[t] = <<>>
      /\ UNCHANGED <<streams, guards, wantStream, launch>>
  BY DEF Guards!set_device, Guards!Selects
<1>2. n \in Guards!Contexts /\ Guards!Follows(Guards!State(t), n) /\ Guards!GetDevice(n) = d
  BY AtThread, SetDeviceFact DEF Guards!Follows
<1> HIDE DEF n
<1>3. ctx \subseteq n.ctx /\ Guards!Entered(guards[t], n)
  BY <1>2, AtThread, EnteredFact DEF Guards!Follows
<1>4. Guards!Chained(guards[t], d)
  BY <1>1 DEF Guards!Chained
<1>5. /\ guards' = [guards EXCEPT ![t] = guards[t]]
      /\ streams' = [streams EXCEPT ![t] = streams[t]]
      /\ wantStream' = [wantStream EXCEPT ![t] = wantStream[t]]
      /\ launch' = [launch EXCEPT ![t] = launch[t]]
  BY <1>1, AtThread
<1>6. /\ guards[t] \in Seq(Guards!Guard) /\ streams[t] \in [Guards!Devices -> Guards!Streams]
      /\ wantStream[t] \in [Guards!Devices -> Guards!Streams]
      /\ launch[t] \in [on : Guards!Devices, for : Guards!Devices] /\ launch[t].on = launch[t].for
      /\ Guards!SavedStreams(guards[t], streams[t], wantStream[t])
  BY AtThread
<1> QED BY <1>1, <1>2, <1>3, <1>4, <1>5, <1>6, ThreadStep

\* setCurrentStream, outside the guards that save streams
LEMMA setCurrentStreamInv ==
    ASSUME Guards!ContextAssumption, Guards!ContextInv, NEW t \in contexts.Threads,
           NEW d \in Guards!Devices, NEW x \in Guards!Streams,
           Guards!setCurrentStream(t, d, x)
    PROVE  Guards!ContextInv'
<1> DEFINE c == [streams[t] EXCEPT ![d] = x]
           w == [wantStream[t] EXCEPT ![d] = x]
<1>1. streams' = [streams EXCEPT ![t] = c] /\ wantStream' = [wantStream EXCEPT ![t] = w]
      /\ UNCHANGED <<dev, ctx, guards, want, launch>>
  BY DEF Guards!setCurrentStream
<1>2. c \in [Guards!Devices -> Guards!Streams] /\ w \in [Guards!Devices -> Guards!Streams]
  BY AtThread
<1>3. Guards!Becomes(t, Guards!State(t))
  BY <1>1 DEF Guards!Becomes, Guards!State, Guards!ContextInv, Guards!ContextTypes
<1>4. \A i \in 1..Len(guards[t]) : \A e \in Guards!Devices : ~Guards!Touches(guards[t][i], e)
  BY DEF Guards!setCurrentStream, Guards!Touches
<1>5. \A e \in Guards!Devices : streams[t][e] = wantStream[t][e]
  BY <1>4, AtThread DEF Guards!SavedStreams
<1>6. \A e \in Guards!Devices : c[e] = w[e]
  BY <1>5, AtThread
<1> HIDE DEF c, w
<1>7. Guards!SavedStreams(guards[t], c, w)
  BY <1>4, <1>6 DEF Guards!SavedStreams
<1>8. ctx \subseteq Guards!State(t).ctx
  BY AtThread
<1> QED BY <1>1, <1>2, <1>3, <1>7, <1>8, AtThread, ThreadStep

\* A guard g is entered: the device becomes that of g.
LEMMA EnterStep ==
    ASSUME Guards!ContextAssumption, Guards!ContextInv, NEW t \in contexts.Threads, NEW n,
           NEW g \in Guards!Guard,
           NEW c \in [Guards!Devices -> Guards!Streams],
           Guards!Follows(Guards!State(t), n), Guards!Becomes(t, n), Guards!GetDevice(n) = g.idx,
           g.prev = want[t],
           g.kind = "exchange" /\ g.prev # g.idx => g.idx \in n.ctx /\ n.k # g.idx,
           \A d \in Guards!Devices : Guards!Touches(g, d) => Guards!Saved(g, d) = streams[t][d],
           \A d \in Guards!Devices : ~Guards!Touches(g, d) => c[d] = streams[t][d],
           guards' = [guards EXCEPT ![t] = Append(guards[t], g)],
           want' = [want EXCEPT ![t] = g.idx],
           streams' = [streams EXCEPT ![t] = c], UNCHANGED <<wantStream, launch>>
    PROVE  Guards!ContextInv'
<1> DEFINE q == Append(guards[t], g)
<1>1. /\ contexts.NumDevices \in Nat /\ guards[t] \in Seq(Guards!Guard)
      /\ Guards!Chained(guards[t], want[t])
      /\ Guards!Entered(guards[t], Guards!State(t))
      /\ Guards!SavedStreams(guards[t], streams[t], wantStream[t])
  BY AtThread
<1>2. q \in Seq(Guards!Guard) /\ Guards!Chained(q, g.idx)
  BY <1>1, PushFact
<1>3. Guards!Entered(q, n)
  BY <1>1, EnteredFact
<1>4. Guards!SavedStreams(q, c, wantStream[t])
  BY <1>1, SavedPush
<1>5. n \in Guards!Contexts /\ ctx \subseteq n.ctx /\ g.idx \in Guards!Devices
  BY AtThread DEF Guards!Follows, Guards!Guard
<1>6. /\ wantStream[t] \in [Guards!Devices -> Guards!Streams]
      /\ launch[t] \in [on : Guards!Devices, for : Guards!Devices] /\ launch[t].on = launch[t].for
      /\ wantStream' = [wantStream EXCEPT ![t] = wantStream[t]]
      /\ launch' = [launch EXCEPT ![t] = launch[t]]
  BY AtThread
<1> HIDE DEF q
<1>7. guards' = [guards EXCEPT ![t] = q]
  BY DEF q
<1> QED BY <1>2, <1>3, <1>4, <1>5, <1>6, <1>7, ThreadStep

\* A guard is left: the device becomes the one before it.
LEMMA ExitStep ==
    ASSUME Guards!ContextAssumption, Guards!ContextInv, NEW t \in contexts.Threads, NEW n,
           NEW c \in [Guards!Devices -> Guards!Streams],
           guards[t] # <<>>, Guards!Follows(Guards!State(t), n), Guards!Becomes(t, n),
           Guards!GetDevice(n) = Guards!Last(guards[t]).prev,
           \A d \in Guards!Devices : c[d] = IF Guards!Touches(Guards!Last(guards[t]),
               d) THEN Guards!Saved(Guards!Last(guards[t]), d)
                                     ELSE streams[t][d],
           Guards!PopGuard(t), want' = [want EXCEPT ![t] = Guards!Last(guards[t]).prev],
           streams' = [streams EXCEPT ![t] = c], UNCHANGED <<wantStream, launch>>
    PROVE  Guards!ContextInv'
<1> DEFINE q == Guards!Front(guards[t])
           p == Guards!Last(guards[t]).prev
<1>1. /\ contexts.NumDevices \in Nat /\ guards[t] \in Seq(Guards!Guard)
      /\ Guards!Chained(guards[t], want[t])
      /\ Guards!Entered(guards[t], Guards!State(t))
      /\ Guards!SavedStreams(guards[t], streams[t], wantStream[t])
  BY AtThread
<1>2. q \in Seq(Guards!Guard) /\ Guards!Chained(q, p) /\ p \in Guards!Devices
  BY <1>1, PopFact DEF Guards!Guard
<1>3. Guards!Entered(q, n)
  BY <1>1, EnteredFact
<1>4. Guards!SavedStreams(q, c, wantStream[t])
  BY <1>1, SavedPop
<1>5. n \in Guards!Contexts /\ ctx \subseteq n.ctx
  BY AtThread DEF Guards!Follows
<1>6. /\ wantStream[t] \in [Guards!Devices -> Guards!Streams]
      /\ launch[t] \in [on : Guards!Devices, for : Guards!Devices] /\ launch[t].on = launch[t].for
      /\ wantStream' = [wantStream EXCEPT ![t] = wantStream[t]]
      /\ launch' = [launch EXCEPT ![t] = launch[t]]
  BY AtThread
<1> HIDE DEF q, p
<1>7. guards' = [guards EXCEPT ![t] = q] /\ want' = [want EXCEPT ![t] = p]
      /\ Guards!GetDevice(n) = p
  BY DEF q, p, Guards!PopGuard
<1> QED BY <1>2, <1>3, <1>4, <1>5, <1>6, <1>7, ThreadStep

\* with torch.supa.device
LEMMA enterDeviceInv ==
    ASSUME Guards!ContextAssumption, Guards!ContextInv, NEW t \in contexts.Threads,
           NEW d \in Guards!Devices, Guards!enterDevice(t, d)
    PROVE  Guards!ContextInv'
<1> DEFINE g == [kind |-> "device", idx |-> d, prev |-> want[t], src |-> 0, dst |-> 0]
           n == Guards!setStream(Guards!State(t), d)
<1>1. g \in Guards!Guard /\ g.kind = "device" /\ g.idx = d /\ g.prev = want[t]
  BY AtThread DEF Guards!Guard, Guards!Streams
<1>2. guards' = [guards EXCEPT ![t] = Append(guards[t], g)] /\ want' = [want EXCEPT ![t] = d]
      /\ UNCHANGED <<streams, wantStream, launch>> /\ Guards!Becomes(t, n)
  BY AtThread DEF Guards!enterDevice, Guards!Push, Guards!Selects, Guards!setStream
<1>3. Guards!Follows(Guards!State(t), n) /\ Guards!GetDevice(n) = d
  BY AtThread, setStreamFact
<1> HIDE DEF g, n
<1>4. \A e \in Guards!Devices : ~Guards!Touches(g, e)
  BY <1>1 DEF Guards!Touches
<1>5. streams' = [streams EXCEPT ![t] = streams[t]]
      /\ streams[t] \in [Guards!Devices -> Guards!Streams]
  BY <1>2, AtThread
<1> QED BY <1>1, <1>2, <1>3, <1>4, <1>5, EnterStep

\* _DeviceGuard is entered.
LEMMA enterExchangeInv ==
    ASSUME Guards!ContextAssumption, Guards!ContextInv, NEW t \in contexts.Threads,
           NEW d \in Guards!Devices, Guards!enterExchange(t, d)
    PROVE  Guards!ContextInv'
<1> DEFINE g == [kind |-> "exchange", idx |-> d, prev |-> want[t], src |-> 0, dst |-> 0]
           n == Guards!ExchangeDevice(Guards!State(t), d)
<1>1. g \in Guards!Guard /\ g.kind = "exchange" /\ g.idx = d /\ g.prev = want[t]
  BY AtThread DEF Guards!Guard, Guards!Streams
<1>2. guards' = [guards EXCEPT ![t] = Append(guards[t], g)] /\ want' = [want EXCEPT ![t] = d]
      /\ UNCHANGED <<streams, wantStream, launch>> /\ Guards!Becomes(t, n)
  BY AtThread DEF Guards!enterExchange, Guards!Push, Guards!Selects
<1>3. Guards!Follows(Guards!State(t), n) /\ Guards!GetDevice(n) = d /\ n.k = -1
      /\ (want[t] # d => d \in n.ctx)
  BY AtThread, ExchangeDeviceFact
<1>a. -1 # d
  BY AtThread DEF Guards!Devices
<1> HIDE DEF g, n
<1>4. \A e \in Guards!Devices : ~Guards!Touches(g, e)
  BY <1>1 DEF Guards!Touches
<1>5. streams' = [streams EXCEPT ![t] = streams[t]]
      /\ streams[t] \in [Guards!Devices -> Guards!Streams]
  BY <1>2, AtThread
<1> QED BY <1>1, <1>2, <1>3, <1>a, <1>4, <1>5, EnterStep

\* SUPAStreamGuard is made.
LEMMA enterStreamInv ==
    ASSUME Guards!ContextAssumption, Guards!ContextInv, NEW t \in contexts.Threads,
           NEW d \in Guards!Devices, NEW x \in Guards!Streams,
           Guards!enterStream(t, d, x)
    PROVE  Guards!ContextInv'
<1> DEFINE g == [kind |-> "stream", idx |-> d, prev |-> want[t], src |-> 0, dst |-> streams[t][d]]
           n == Guards!ExchangeDevice(Guards!State(t), d)
           c == [streams[t] EXCEPT ![d] = x]
<1>1. g \in Guards!Guard /\ g.kind = "stream" /\ g.idx = d /\ g.prev = want[t]
      /\ g.dst = streams[t][d]
  BY AtThread DEF Guards!Guard, Guards!Streams
<1>2. guards' = [guards EXCEPT ![t] = Append(guards[t], g)] /\ want' = [want EXCEPT ![t] = d]
      /\ streams' = [streams EXCEPT ![t] = c]
      /\ UNCHANGED <<wantStream, launch>> /\ Guards!Becomes(t, n)
  BY AtThread DEF Guards!enterStream, Guards!exchangeStream, Guards!Push, Guards!Selects
<1>3. Guards!Follows(Guards!State(t), n) /\ Guards!GetDevice(n) = d
  BY AtThread, ExchangeDeviceFact
<1>4. c \in [Guards!Devices -> Guards!Streams] /\ \A e \in Guards!Devices : e # d
      => c[e] = streams[t][e]
  BY AtThread
<1> HIDE DEF g, n, c
<1>5. /\ \A e \in Guards!Devices : Guards!Touches(g, e) => Guards!Saved(g, e) = streams[t][e]
      /\ \A e \in Guards!Devices : ~Guards!Touches(g, e) => c[e] = streams[t][e]
  BY <1>1, <1>4 DEF Guards!Touches, Guards!Saved
<1>6. g.kind # "exchange"
  BY <1>1
<1>7. want' = [want EXCEPT ![t] = g.idx] /\ Guards!GetDevice(n) = g.idx /\ g.prev = want[t]
  BY <1>1, <1>2, <1>3
<1>8. g \in Guards!Guard /\ c \in [Guards!Devices -> Guards!Streams]
  BY <1>1, <1>4
<1> QED BY <1>2, <1>3, <1>5, <1>6, <1>7, <1>8, EnterStep

\* with torch.supa.stream
LEMMA enterContextInv ==
    ASSUME Guards!ContextAssumption, Guards!ContextInv, NEW t \in contexts.Threads,
           NEW d \in Guards!Devices, NEW x \in Guards!Streams,
           Guards!enterContext(t, d, x)
    PROVE  Guards!ContextInv'
<1> DEFINE g == [kind |-> "context", idx |-> d, prev |-> want[t], src |-> streams[t][want[t]],
                 dst |-> streams[t][d]]
           n == Guards!setStream(Guards!State(t), d)
           c == [streams[t] EXCEPT ![d] = x]
<1>1. g \in Guards!Guard /\ g.kind = "context" /\ g.idx = d /\ g.prev = want[t]
      /\ g.dst = streams[t][d]
      /\ g.src = streams[t][want[t]]
  BY AtThread DEF Guards!Guard, Guards!Streams
<1>2. guards' = [guards EXCEPT ![t] = Append(guards[t], g)] /\ want' = [want EXCEPT ![t] = d]
      /\ streams' = [streams EXCEPT ![t] = c]
      /\ UNCHANGED <<wantStream, launch>> /\ Guards!Becomes(t, n)
  BY AtThread DEF Guards!enterContext, Guards!Push, Guards!Selects
<1>3. Guards!Follows(Guards!State(t), n) /\ Guards!GetDevice(n) = d
  BY AtThread, setStreamFact
<1>4. c \in [Guards!Devices -> Guards!Streams] /\ \A e \in Guards!Devices : e # d
      => c[e] = streams[t][e]
  BY AtThread
<1> HIDE DEF g, n, c
<1>5. /\ \A e \in Guards!Devices : Guards!Touches(g, e) => Guards!Saved(g, e) = streams[t][e]
      /\ \A e \in Guards!Devices : ~Guards!Touches(g, e) => c[e] = streams[t][e]
  BY <1>1, <1>4 DEF Guards!Touches, Guards!Saved
<1>6. g.kind # "exchange"
  BY <1>1
<1>7. want' = [want EXCEPT ![t] = g.idx] /\ Guards!GetDevice(n) = g.idx /\ g.prev = want[t]
  BY <1>1, <1>2, <1>3
<1>8. g \in Guards!Guard /\ c \in [Guards!Devices -> Guards!Streams]
  BY <1>1, <1>4
<1> QED BY <1>2, <1>3, <1>5, <1>6, <1>7, <1>8, EnterStep

\* The guard that is left
LEMMA LastGuard ==
    ASSUME Guards!ContextAssumption, Guards!ContextInv, NEW t \in contexts.Threads,
           guards[t] # <<>>, NEW g, g = Guards!Last(guards[t])
    PROVE  /\ g.idx \in Guards!Devices /\ g.prev \in Guards!Devices
           /\ g.dst \in Guards!Streams /\ g.src \in Guards!Streams
           /\ g.idx = want[t]
<1>1. guards[t] \in Seq(Guards!Guard) /\ Guards!Chained(guards[t], want[t])
  BY AtThread
<1>2. g \in Guards!Guard /\ g.idx = want[t]
  BY <1>1, PopFact
<1> QED BY <1>2 DEF Guards!Guard

\* The end of with torch.supa.device
LEMMA exitDeviceInv ==
    ASSUME Guards!ContextAssumption, Guards!ContextInv, NEW t \in contexts.Threads,
           Guards!exitDevice(t)
    PROVE  Guards!ContextInv'
<1> DEFINE g == Guards!Last(guards[t])
           n == IF g.prev # g.idx THEN Guards!SetDevice(Guards!State(t),
               g.prev) ELSE Guards!State(t)
<1>1. guards[t] # <<>> /\ g.kind = "device" /\ Guards!PopGuard(t)
      /\ want' = [want EXCEPT ![t] = g.prev]
      /\ UNCHANGED <<streams, wantStream, launch>> /\ Guards!Becomes(t, n)
  BY DEF Guards!exitDevice, Guards!Top
<1>2. g.idx = want[t] /\ g.prev \in Guards!Devices
  BY <1>1, LastGuard
<1>3. Guards!Follows(Guards!State(t), n) /\ Guards!GetDevice(n) = g.prev
  <2>1. CASE g.prev # g.idx
    BY <1>2, <2>1, AtThread, SetDeviceFact
  <2>2. CASE g.prev = g.idx
    BY <1>2, <2>2, AtThread DEF Guards!Follows
  <2> QED BY <2>1, <2>2
<1>4. \A d \in Guards!Devices : ~Guards!Touches(g, d)
  BY <1>1 DEF Guards!Touches
<1>5. streams' = [streams EXCEPT ![t] = streams[t]]
      /\ streams[t] \in [Guards!Devices -> Guards!Streams]
  BY <1>1, AtThread
<1> HIDE DEF n
<1> QED BY <1>1, <1>3, <1>4, <1>5, ExitStep

\* The end of _DeviceGuard: the device it entered has a context, so it is not the target.
LEMMA exitExchangeInv ==
    ASSUME Guards!ContextAssumption, Guards!ContextInv, NEW t \in contexts.Threads,
           Guards!exitExchange(t)
    PROVE  Guards!ContextInv'
<1> DEFINE g == Guards!Last(guards[t])
           n == Guards!MaybeExchangeDevice(Guards!State(t), g.prev)
<1>1. guards[t] # <<>> /\ g.kind = "exchange" /\ Guards!PopGuard(t)
      /\ want' = [want EXCEPT ![t] = g.prev]
      /\ UNCHANGED <<streams, wantStream, launch>> /\ Guards!Becomes(t, n)
  BY DEF Guards!exitExchange, Guards!Top
<1>2. g.idx = want[t] /\ g.prev \in Guards!Devices
  BY <1>1, LastGuard
<1>3. Guards!State(t).k \in {-1, g.prev}
  <2>1. CASE Guards!State(t).k >= 0
    <3>1. Guards!State(t).k = g.idx
      BY <1>2, <2>1, AtThread DEF Guards!GetDevice
    <3>2. Len(guards[t]) \in 1..Len(guards[t]) /\ g = guards[t][Len(guards[t])]
      BY <1>1, AtThread, FrontLast
    <3>3. g.prev = g.idx
      BY <1>1, <3>1, <3>2, AtThread DEF Guards!Entered
    <3> QED BY <3>1, <3>3
  <2>2. CASE ~(Guards!State(t).k >= 0)
    BY <2>2, AtThread DEF Guards!Contexts
  <2> QED BY <2>1, <2>2
<1>4. Guards!Follows(Guards!State(t), n) /\ Guards!GetDevice(n) = g.prev
  BY <1>2, <1>3, AtThread, MaybeExchangeFact
<1>5. \A d \in Guards!Devices : ~Guards!Touches(g, d)
  BY <1>1 DEF Guards!Touches
<1>6. streams' = [streams EXCEPT ![t] = streams[t]]
      /\ streams[t] \in [Guards!Devices -> Guards!Streams]
  BY <1>1, AtThread
<1> HIDE DEF n
<1> QED BY <1>1, <1>4, <1>5, <1>6, ExitStep

\* SUPAStreamGuard ends.
LEMMA exitStreamInv ==
    ASSUME Guards!ContextAssumption, Guards!ContextInv, NEW t \in contexts.Threads,
           Guards!exitStream(t)
    PROVE  Guards!ContextInv'
<1> DEFINE g == Guards!Last(guards[t])
           n == Guards!SetDevice(Guards!State(t), g.prev)
           c == [streams[t] EXCEPT ![g.idx] = g.dst]
<1>1. guards[t] # <<>> /\ g.kind = "stream" /\ Guards!PopGuard(t)
      /\ want' = [want EXCEPT ![t] = g.prev]
      /\ streams' = [streams EXCEPT ![t] = c] /\ UNCHANGED <<wantStream, launch>>
      /\ Guards!Becomes(t, n)
  BY DEF Guards!exitStream, Guards!Top
<1>2. g.idx \in Guards!Devices /\ g.prev \in Guards!Devices /\ g.dst \in Guards!Streams
  BY <1>1, LastGuard
<1>3. Guards!Follows(Guards!State(t), n) /\ Guards!GetDevice(n) = g.prev
  BY <1>2, AtThread, SetDeviceFact
<1>4. c \in [Guards!Devices -> Guards!Streams]
      /\ \A d \in Guards!Devices : c[d] = IF d = g.idx THEN g.dst ELSE streams[t][d]
  BY <1>2, AtThread
<1>5. \A d \in Guards!Devices : (Guards!Touches(g, d) <=> d = g.idx) /\ Guards!Saved(g, d) = g.dst
  BY <1>1 DEF Guards!Touches, Guards!Saved
<1> HIDE DEF n, c
<1>6. \A d \in Guards!Devices : c[d] = IF Guards!Touches(g, d) THEN Guards!Saved(g,
      d) ELSE streams[t][d]
  BY <1>4, <1>5
<1> QED BY <1>1, <1>3, <1>4, <1>6, ExitStep

\* The end of with torch.supa.stream
LEMMA exitContextInv ==
    ASSUME Guards!ContextAssumption, Guards!ContextInv, NEW t \in contexts.Threads,
           Guards!exitContext(t)
    PROVE  Guards!ContextInv'
<1> DEFINE g == Guards!Last(guards[t])
           m == Guards!setStream(Guards!State(t), g.idx)
           n == Guards!setStream(m, g.prev)
           c == [streams[t] EXCEPT ![g.idx] = g.dst, ![g.prev] = g.src]
<1>1. guards[t] # <<>> /\ g.kind = "context" /\ Guards!PopGuard(t)
      /\ want' = [want EXCEPT ![t] = g.prev]
      /\ streams' = [streams EXCEPT ![t] = c] /\ UNCHANGED <<wantStream, launch>>
      /\ Guards!Becomes(t, n)
  BY DEF Guards!exitContext, Guards!Top
<1>2. g.idx \in Guards!Devices /\ g.prev \in Guards!Devices /\ g.dst \in Guards!Streams
      /\ g.src \in Guards!Streams
      /\ g.idx = want[t]
  BY <1>1, LastGuard
<1>3. m = Guards!State(t)
  BY <1>2, AtThread DEF Guards!setStream
<1>4. Guards!Follows(Guards!State(t), n) /\ Guards!GetDevice(n) = g.prev
  BY <1>2, <1>3, AtThread, setStreamFact
<1>5. c \in [Guards!Devices -> Guards!Streams]
      /\ \A d \in Guards!Devices :
            c[d] = IF d = g.prev THEN g.src ELSE IF d = g.idx THEN g.dst ELSE streams[t][d]
  BY <1>2, AtThread
<1> HIDE DEF m, n, c
<1>6. \A d \in Guards!Devices : c[d] = IF Guards!Touches(g, d) THEN Guards!Saved(g,
      d) ELSE streams[t][d]
  BY <1>1, <1>5 DEF Guards!Touches, Guards!Saved
<1> QED BY <1>1, <1>4, <1>5, <1>6, ExitStep

\* No guard is open.
LEMMA ContextInvInit == Guards!ContextAssumption /\ Guards!Init => Guards!ContextInv
<1> SUFFICES ASSUME Guards!ContextAssumption, Guards!Init PROVE Guards!ContextInv
  OBVIOUS
<1>1. 0 \in Guards!Devices /\ -1 \in -1..contexts.NumDevices - 1
  BY DEF Guards!ContextAssumption, Guards!Devices
<1>2. Guards!ContextTypes
  BY <1>1 DEF Guards!Init, Guards!ContextTypes, Guards!Streams
<1>3. Guards!CurrentRestored /\ Guards!LaunchedThere
  BY DEF Guards!Init, Guards!CurrentRestored, Guards!LaunchedThere, Guards!GetDevice, Guards!State
<1>4. \A t \in contexts.Threads : guards[t] = <<>> /\ streams[t] = wantStream[t]
  BY DEF Guards!Init
<1>5. \A t \in contexts.Threads : Guards!Chained(guards[t], want[t])
      /\ Guards!Entered(guards[t], Guards!State(t))
                         /\ Guards!SavedStreams(guards[t], streams[t], wantStream[t])
  BY <1>4 DEF Guards!Chained, Guards!Entered, Guards!SavedStreams
<1> QED BY <1>2, <1>3, <1>5 DEF Guards!ContextInv

\* One step per action of a thread
LEMMA ContextInvNext ==
    ASSUME Guards!ContextAssumption, Guards!ContextInv, [Guards!Next]_(Guards!vars)
    PROVE  Guards!ContextInv'
<1>1. CASE UNCHANGED Guards!vars
  BY <1>1 DEF Guards!vars, Guards!ContextInv, Guards!ContextTypes, Guards!CurrentRestored,
     Guards!LaunchedThere, Guards!State
<1>2. ASSUME NEW t \in contexts.Threads, Guards!Thread(t) PROVE Guards!ContextInv'
  <2>1. ASSUME NEW d \in Guards!Devices, NEW x \in Guards!Streams,
               Guards!enterStream(t, d, x) \/ Guards!enterContext(t, d, x)
                   \/ Guards!setCurrentStream(t, d, x)
        PROVE  Guards!ContextInv'
    BY <2>1, enterStreamInv, enterContextInv, setCurrentStreamInv
  <2>2. ASSUME NEW d \in Guards!Devices,
               Guards!set_device(t, d) \/ Guards!enterDevice(t, d)
                   \/ Guards!enterExchange(t, d) \/ Guards!workOn(t, d)
                  \/ Guards!impl(t, d) \/ Guards!freeUsed(t, d)
        PROVE  Guards!ContextInv'
    BY <2>2, set_deviceInv, enterDeviceInv, enterExchangeInv, ScopesInv
  <2> QED BY <1>2, <2>1, <2>2, exitDeviceInv, exitExchangeInv, exitStreamInv, exitContextInv,
             launchCurrentInv DEF Guards!Thread
<1> QED BY <1>1, <1>2 DEF Guards!Next

\* Outside the guards no stream is saved, so each is the one the program set.
LEMMA ContextCorrect ==
    ASSUME Guards!ContextInv PROVE Guards!CurrentRestored /\ Guards!LaunchedThere
           /\ Guards!StreamsRestored
<1>1. ASSUME NEW t \in contexts.Threads, guards[t] = <<>> PROVE streams[t] = wantStream[t]
  <2>1. \A d \in Guards!Devices : streams[t][d] = wantStream[t][d]
    BY <1>1 DEF Guards!ContextInv, Guards!SavedStreams
  <2> QED BY <2>1 DEF Guards!ContextInv, Guards!ContextTypes
<1> QED BY <1>1 DEF Guards!ContextInv, Guards!StreamsRestored

-----------------------------------------------------------------------------
(* The services side by side.                                                *)

\* What the proofs use of the constants: what each service assumes, and one setting
\* of host_register during a run.
ServicesAssumption ==
    /\ HostAddresses!HostAssumption
    /\ HostStreams!HostAssumption
    /\ Config!ConfigAssumption
    /\ Guards!ContextAssumption
    /\ PoolDraws!PoolAssumption
    /\ PoolThreads!PoolAssumption
    /\ LibraryHandles!HandlesAssumption
    /\ Workspaces!HandlesAssumption
    /\ MathModes!HandlesAssumption
    /\ LaunchRing!LaunchAssumption
    /\ LaunchBuffers!LaunchAssumption
    /\ HostAddresses!OneSetting /\ HostStreams!OneSetting

\* The service that a behaviour is of keeps its own invariant.
ServicesInv ==
    /\ at = "HostAddresses" => HostAddresses!FInv
    /\ at = "HostStreams" => HostStreams!FInv
    /\ at = "Config" => Config!ConfigInv
    /\ at = "Guards" => Guards!ContextInv
    /\ at = "PoolDraws" => PoolDraws!PoolInv
    /\ at = "PoolThreads" => PoolThreads!PoolInv
    /\ at = "LibraryHandles" => LibraryHandles!HandleInv
    /\ at = "Workspaces" => Workspaces!HandleInv
    /\ at = "MathModes" => MathModes!HandleInv
    /\ at = "LaunchRing" => LaunchRing!LaunchInv
    /\ at = "LaunchBuffers" => LaunchBuffers!LaunchInv

\* HostAddresses keeps its invariant.
LEMMA HostAddressesStep ==
    ASSUME ServicesAssumption, ServicesInv, at = "HostAddresses", [ServicesNext]_servicesVars
    PROVE  at' = at /\ HostAddresses!FInv'
<1>1. HostAddresses!HostAssumption /\ HostAddresses!FInv /\ HostAddresses!OneSetting
    BY DEF ServicesAssumption, ServicesInv
<1>2. at' = at /\ [HostAddresses!Next]_(HostAddresses!vars)
    BY DEF ServicesNext, servicesVars, HostAddresses!vars, HostAddresses!lists, HostAddresses!ghost
<1> QED BY <1>1, <1>2, HostAddresses!FInvNext

\* HostStreams keeps its invariant.
LEMMA HostStreamsStep ==
    ASSUME ServicesAssumption, ServicesInv, at = "HostStreams", [ServicesNext]_servicesVars
    PROVE  at' = at /\ HostStreams!FInv'
<1>1. HostStreams!HostAssumption /\ HostStreams!FInv /\ HostStreams!OneSetting
    BY DEF ServicesAssumption, ServicesInv
<1>2. at' = at /\ [HostStreams!Next]_(HostStreams!vars)
    BY DEF ServicesNext, servicesVars, HostStreams!vars, HostStreams!lists, HostStreams!ghost
<1> QED BY <1>1, <1>2, HostStreams!FInvNext

\* Config keeps its invariant.
LEMMA ConfigStep ==
    ASSUME ServicesAssumption, ServicesInv, at = "Config", [ServicesNext]_servicesVars
    PROVE  at' = at /\ Config!ConfigInv'
<1>1. Config!ConfigAssumption /\ Config!ConfigInv
    BY DEF ServicesAssumption, ServicesInv
<1>2. at' = at /\ [Config!Next]_(Config!vars)
    BY DEF ServicesNext, servicesVars, Config!vars
<1> QED BY <1>1, <1>2, ConfigInvNext

\* Guards keeps its invariant.
LEMMA GuardsStep ==
    ASSUME ServicesAssumption, ServicesInv, at = "Guards", [ServicesNext]_servicesVars
    PROVE  at' = at /\ Guards!ContextInv'
<1>1. Guards!ContextAssumption /\ Guards!ContextInv
    BY DEF ServicesAssumption, ServicesInv
<1>2. at' = at /\ [Guards!Next]_(Guards!vars)
    BY DEF ServicesNext, servicesVars, Guards!vars
<1> QED BY <1>1, <1>2, ContextInvNext

\* PoolDraws keeps its invariant.
LEMMA PoolDrawsStep ==
    ASSUME ServicesAssumption, ServicesInv, at = "PoolDraws", [ServicesNext]_servicesVars
    PROVE  at' = at /\ PoolDraws!PoolInv'
<1>1. PoolDraws!PoolAssumption /\ PoolDraws!PoolInv
    BY DEF ServicesAssumption, ServicesInv
<1>2. at' = at /\ [PoolDraws!Next]_(PoolDraws!vars)
    BY DEF ServicesNext, servicesVars, PoolDraws!vars
<1> QED BY <1>1, <1>2, PoolDraws!PoolInvNext

\* PoolThreads keeps its invariant.
LEMMA PoolThreadsStep ==
    ASSUME ServicesAssumption, ServicesInv, at = "PoolThreads", [ServicesNext]_servicesVars
    PROVE  at' = at /\ PoolThreads!PoolInv'
<1>1. PoolThreads!PoolAssumption /\ PoolThreads!PoolInv
    BY DEF ServicesAssumption, ServicesInv
<1>2. at' = at /\ [PoolThreads!Next]_(PoolThreads!vars)
    BY DEF ServicesNext, servicesVars, PoolThreads!vars
<1> QED BY <1>1, <1>2, PoolThreads!PoolInvNext

\* LibraryHandles keeps its invariant.
LEMMA LibraryHandlesStep ==
    ASSUME ServicesAssumption, ServicesInv, at = "LibraryHandles", [ServicesNext]_servicesVars
    PROVE  at' = at /\ LibraryHandles!HandleInv'
<1>1. LibraryHandles!HandlesAssumption /\ LibraryHandles!HandleInv
    BY DEF ServicesAssumption, ServicesInv
<1>2. at' = at /\ [LibraryHandles!Next]_(LibraryHandles!vars)
    BY DEF ServicesNext, servicesVars, LibraryHandles!vars
<1> QED BY <1>1, <1>2, LibraryHandles!HandleInvNext

\* Workspaces keeps its invariant.
LEMMA WorkspacesStep ==
    ASSUME ServicesAssumption, ServicesInv, at = "Workspaces", [ServicesNext]_servicesVars
    PROVE  at' = at /\ Workspaces!HandleInv'
<1>1. Workspaces!HandlesAssumption /\ Workspaces!HandleInv
    BY DEF ServicesAssumption, ServicesInv
<1>2. at' = at /\ [Workspaces!Next]_(Workspaces!vars)
    BY DEF ServicesNext, servicesVars, Workspaces!vars
<1> QED BY <1>1, <1>2, Workspaces!HandleInvNext

\* MathModes keeps its invariant.
LEMMA MathModesStep ==
    ASSUME ServicesAssumption, ServicesInv, at = "MathModes", [ServicesNext]_servicesVars
    PROVE  at' = at /\ MathModes!HandleInv'
<1>1. MathModes!HandlesAssumption /\ MathModes!HandleInv
    BY DEF ServicesAssumption, ServicesInv
<1>2. at' = at /\ [MathModes!Next]_(MathModes!vars)
    BY DEF ServicesNext, servicesVars, MathModes!vars
<1> QED BY <1>1, <1>2, MathModes!HandleInvNext

\* LaunchRing keeps its invariant.
LEMMA LaunchRingStep ==
    ASSUME ServicesAssumption, ServicesInv, at = "LaunchRing", [ServicesNext]_servicesVars
    PROVE  at' = at /\ LaunchRing!LaunchInv'
<1>1. LaunchRing!LaunchAssumption /\ LaunchRing!LaunchInv
    BY DEF ServicesAssumption, ServicesInv
<1>2. at' = at /\ [LaunchRing!Next]_(LaunchRing!vars)
    BY DEF ServicesNext, servicesVars, LaunchRing!vars
<1> QED BY <1>1, <1>2, LaunchRing!LaunchInvNext

\* LaunchBuffers keeps its invariant.
LEMMA LaunchBuffersStep ==
    ASSUME ServicesAssumption, ServicesInv, at = "LaunchBuffers", [ServicesNext]_servicesVars
    PROVE  at' = at /\ LaunchBuffers!LaunchInv'
<1>1. LaunchBuffers!LaunchAssumption /\ LaunchBuffers!LaunchInv
    BY DEF ServicesAssumption, ServicesInv
<1>2. at' = at /\ [LaunchBuffers!Next]_(LaunchBuffers!vars)
    BY DEF ServicesNext, servicesVars, LaunchBuffers!vars
<1> QED BY <1>1, <1>2, LaunchBuffers!LaunchInvNext

\* Whichever service a behaviour is of, it begins with its invariant.
LEMMA ServicesInvInit == ServicesAssumption /\ ServicesInit => ServicesInv
  BY HostAddresses!FInvInit, HostStreams!FInvInit, ConfigInvInit, ContextInvInit,
     PoolDraws!PoolInvInit, PoolThreads!PoolInvInit, LibraryHandles!HandleInvInit,
     Workspaces!HandleInvInit, MathModes!HandleInvInit, LaunchRing!LaunchInvInit,
     LaunchBuffers!LaunchInvInit
     DEF ServicesAssumption, ServicesInit, ServicesInv

\* A step is one of the service that the behaviour is of.
LEMMA ServicesInvNext ==
    ASSUME ServicesAssumption, ServicesInv, [ServicesNext]_servicesVars
    PROVE  ServicesInv'
<1>1. at' = at
    BY DEF ServicesNext, servicesVars
<1> QED BY <1>1, HostAddressesStep, HostStreamsStep, ConfigStep, GuardsStep, PoolDrawsStep,
    PoolThreadsStep, LibraryHandlesStep, WorkspacesStep, MathModesStep, LaunchRingStep,
    LaunchBuffersStep DEF ServicesInv

\* Pinned memory that may be handed out again is quiescent, no block is forgotten and every event
\* is counted, for every number of threads, streams and blocks, also when calls of the runtime
\* fail in between (SUPAHostAllocator::allocate, free, process_events).
THEOREM HostMemoryCorrect == ServicesAssumption => (ServicesSpec => []HostMemorySafe)
<1> SUFFICES ASSUME ServicesAssumption PROVE ServicesSpec => []HostMemorySafe
    OBVIOUS
<1>1. ServicesInit => ServicesInv
    BY ServicesInvInit
<1>2. ServicesInv /\ [ServicesNext]_servicesVars => ServicesInv'
    BY ServicesInvNext
<1>3. ServicesInv => HostMemorySafe
    BY HostAddresses!InvQuiescent, HostAddresses!FInvNotForgotten, HostAddresses!InvCounted,
       HostStreams!InvQuiescent, HostStreams!FInvNotForgotten, HostStreams!InvCounted
           DEF ServicesAssumption, ServicesInv, HostMemorySafe, HostAddresses!FInv, HostStreams!FInv
<1> QED BY <1>1, <1>2, <1>3, PTL DEF ServicesSpec

\* After any strings with any numbers, refused ones included, the split size and the threshold are
\* what the last string says, every other setting is what the last string that named it says, but
\* for release_lock_on_supamalloc, which is never set, and all are usable (parseArgs).
THEOREM SettingsCorrect == ServicesAssumption => (ServicesSpec => []SettingsFollow)
<1> SUFFICES ASSUME ServicesAssumption PROVE ServicesSpec => []SettingsFollow
    OBVIOUS
<1>1. ServicesInit => ServicesInv
    BY ServicesInvInit
<1>2. ServicesInv /\ [ServicesNext]_servicesVars => ServicesInv'
    BY ServicesInvNext
<1>3. ServicesInv => SettingsFollow
    BY ConfigCorrect DEF ServicesAssumption, ServicesInv, SettingsFollow
<1> QED BY <1>1, <1>2, <1>3, PTL DEF ServicesSpec

\* Every scope restores the device and the streams it found, at any depth of nesting, for every
\* number of threads and devices, and every pool hands out its streams in turn once they exist
\* (SUPAGuardImpl.cpp, SUPAFunctions.cpp, SUPAStream.cpp).
THEOREM ScopesCorrect == ServicesAssumption => (ServicesSpec => []ScopesRestored)
<1> SUFFICES ASSUME ServicesAssumption PROVE ServicesSpec => []ScopesRestored
    OBVIOUS
<1>1. ServicesInit => ServicesInv
    BY ServicesInvInit
<1>2. ServicesInv /\ [ServicesNext]_servicesVars => ServicesInv'
    BY ServicesInvNext
<1>3. ServicesInv => ScopesRestored
    BY ContextCorrect, PoolThreads!RoundRobinFact, PoolDraws!RoundRobinFact,
       PoolDraws!IdsDecodeFact DEF ServicesAssumption, ServicesInv, ScopesRestored,
       PoolThreads!PoolInv, PoolDraws!PoolInv
<1> QED BY <1>1, <1>2, <1>3, PTL DEF ServicesSpec

\* A handle is in one place, works as the call asked, and there are no more handles than threads
\* were active, for every number of threads, devices and streams (DeviceThreadHandles.h,
\* getCurrentSuBlasHandle).
THEOREM HandlesSafeCorrect == ServicesAssumption => (ServicesSpec => []HandlesSafe)
<1> SUFFICES ASSUME ServicesAssumption PROVE ServicesSpec => []HandlesSafe
    OBVIOUS
<1>1. ServicesInit => ServicesInv
    BY ServicesInvInit
<1>2. ServicesInv /\ [ServicesNext]_servicesVars => ServicesInv'
    BY ServicesInvNext
<1>3. ServicesInv => HandlesSafe
    BY LibraryHandles!CountsFollow DEF ServicesAssumption, ServicesInv, HandlesSafe,
       LibraryHandles!HandleInv,
       Workspaces!HandleInv, Workspaces!CallsKept, Workspaces!HeldCall, Workspaces!HeldPcs,
       Workspaces!LaunchAsAsked,
       Workspaces!StreamOfWork, Workspaces!WorkspacesPerStream,
       MathModes!HandleInv, MathModes!CallsKept, MathModes!HeldCall, MathModes!HeldPcs,
       MathModes!LaunchAsAsked,
       MathModes!StreamOfWork, MathModes!WorkspacesPerStream
<1> QED BY <1>1, <1>2, <1>3, PTL DEF ServicesSpec

\* No report names a launch that did not fail, but for entries the device took during the pause
\* and has not written, and no failure is written where the host does not look, for every number of
\* threads, devices, launches and slots (SUPADeviceAssertionHost.cpp).
THEOREM AssertionsCorrect == ServicesAssumption => (ServicesSpec => []AssertionsReported)
<1> SUFFICES ASSUME ServicesAssumption PROVE ServicesSpec => []AssertionsReported
    OBVIOUS
<1>1. ServicesInit => ServicesInv
    BY ServicesInvInit
<1>2. ServicesInv /\ [ServicesNext]_servicesVars => ServicesInv'
    BY ServicesInvNext
<1>3. ServicesInv => AssertionsReported
    BY DEF ServicesAssumption, ServicesInv, AssertionsReported, LaunchRing!LaunchInv,
       LaunchBuffers!LaunchInv
<1> QED BY <1>1, <1>2, <1>3, PTL DEF ServicesSpec
=============================================================================
