----------------------------- MODULE DispatchPlan -----------------------------
(***************************************************************************)
(* What scripts/pressure-vessel-direct-dispatch.py executes for a request: *)
(* the command and the environment that pv_smoke_invocation and the run_*  *)
(* functions build, as functions of the mode of the server, the operator's *)
(* settings (variables of the server), what Steam sent, and which of the   *)
(* files the plan relies on pass validation.                               *)
(*                                                                         *)
(* An environment gives each name a set of words, {} where it is not set:  *)
(* what matters of a value is who it comes from and what it switches on.   *)
(* A setting is a pair of selector and value; those left out have their    *)
(* default, and "?" is a value the code does not know.                     *)
(*                                                                         *)
(* The operators called ...Bug each hold the definition after them with    *)
(* one mistake, for mutation runs.                                         *)
(***************************************************************************)
EXTENDS TLC

Raiders == {"tombraider", "tombraider-benchmark", "tombraider-diagnostic"}
Games == Raiders \cup {"no-mans-sky"}
Protons == Games \cup {"proton-entry-smoke", "proton-cmd-smoke", "proton-arm64-cmd-smoke",
                       "fex-offline-compile"}
Modes == Protons \cup {"final-smoke", "pv-smoke"}

------------------------------------------------------------------------------
(* Environments *)

FexKeys == {"FEX_TSOENABLED", "FEX_MULTIBLOCK", "FEX_STRICTINPROCESSSPLITLOCKS",
            "STEAM_ARM64_FEX_PROFILE"}

BvbNames == {"BVB_COMMAND_STREAM", "BVB_MAPPED_MEMORY", "BVB_DESCRIPTOR_JOURNAL",
             "BVB_FIRST_REJECTION_DIAGNOSTIC", "BVB_FRAME_PROFILE", "BVB_ICD_DIAGNOSTICS",
             "VK_LOADER_DEBUG"}

\* What request_environment takes out of the variables that Steam sent.
Scrubbed == BvbNames \cup
    {"LD_PRELOAD", "LD_LIBRARY_PATH", "TGCOMPAT_EXEC_LD_PRELOAD", "TGCOMPAT_LIBRARY_PATH",
     "BVB_VULKAN_TRACE_FILE", "MANGOHUD", "VK_INSTANCE_LAYERS", "STEAMCLIENTTERMUX_NMS_XINPUT",
     "TGCOMPAT_RAKNET_RECV_SLEEP_US", "FEX_ENABLECODECACHINGWIP", "FEX_APP_CACHE_LOCATION",
     "FEX_SMCCHECKS", "DXVK_CONFIG", "DXVK_CONFIG_FILE", "DXVK_STATE_CACHE_PATH", "WINEDLLPATH",
     "STEAMCLIENTTERMUX_DXVK_VARIANT", "STEAMCLIENTTERMUX_DXVK_COMPILER_THREADS"}

\* What every plan, or every plan for a game, gives a value of its own.
Given == {"TGCOMPAT_PROC_NET", "TGCOMPAT_PROC_STAT", "PATH", "VK_DRIVER_FILES", "VK_ICD_FILENAMES"}
GivenToGames == {"HOME", "TZ", "ALSA_CONFIG_PATH", "WINEDEBUG"}

EnvNames == Scrubbed \cup Given \cup GivenToGames \cup FexKeys \cup
         {"WINEDLLOVERRIDES", "WINEPREFIX", "FEX_APP_CONFIG", "SteamAppId",
          "STEAM_COMPAT_LIBRARY_PATHS", "DXVK_LOG_PATH", "BVB_BRIDGE_SOCKET",
          "TGCOMPAT_EXEC_FINAL_LD_PRELOAD"}

\* Options of pv-adverb, which Pressure Vessel has start the command, with who wrote them.
Adverb == {<<o, "steam">> : o \in {"--generate-locales", "--regenerate-ld.so-cache", "--prefix",
                                   "--set-ld-library-path", "--fd", "--assign-fd"}}

\* A plan so far; ok: nothing has refused it.  command is what Steam asks for, run what is run.
\* A request carries values for the names in carried.
Request(mode, settings, carried, command, broken) ==
    [mode |-> mode, settings |-> settings, command |-> command, broken |-> broken, ok |-> TRUE,
     run |-> "nothing", adverb |-> Adverb, processors |-> {}, forwarded |-> {},
     env |-> [n \in EnvNames |-> IF n \in carried THEN {"steam"} ELSE {}]]

Is(plan, selector, value) == <<selector, value>> \in plan.settings

Unknown(plan, selectors) == \E s \in selectors : Is(plan, s, "?")

RefusedIf(plan, cond) == [plan EXCEPT !.ok = @ /\ ~cond]

\* A file that is checked before it is used.
Needs(plan, files) == RefusedIf(plan, files \cap plan.broken # {})

Put(plan, values) == [plan EXCEPT !.env = values @@ @]

Drop(plan, names) == [plan EXCEPT !.env = [n \in EnvNames |-> IF n \in names THEN {} ELSE @[n]]]

OnlyRaiders(plan) == RefusedIf(plan, plan.mode \notin Raiders)

------------------------------------------------------------------------------
(* The command *)

\* validated_tombraider_command, validated_no_mans_sky_command, runtime_true_from_plan.
Asks(mode, preset) ==
    CASE mode \in {"final-smoke", "pv-smoke"} -> "true"
      [] mode = "no-mans-sky" -> "sky"
      [] mode = "tombraider-benchmark" -> IF preset THEN "raider -benchmarkini"
                                          ELSE "raider -benchmark"
      [] OTHER -> "raider"

\* tombraider_benchmark_arguments: a preset has an INI of its own, which is compared.
BenchmarkArguments(plan) ==
    IF plan.mode = "tombraider-benchmark" /\ Is(plan, "preset", "720p-high")
    THEN Needs(plan, {"benchmark ini"})
    ELSE RefusedIf(plan, plan.mode = "tombraider-benchmark" /\ Unknown(plan, {"preset"}))

Validated(plan) ==
    LET asked == RefusedIf(plan, plan.command
                                 # Asks(plan.mode, Is(plan, "preset", "720p-high")))
    IN IF plan.mode = "no-mans-sky" THEN Needs(asked, {"sky tool", "openvr"}) ELSE asked

\* proton_smoke_command.
SmokeProgram == [m \in {"proton-entry-smoke", "proton-cmd-smoke", "proton-arm64-cmd-smoke"} |->
    CASE m = "proton-entry-smoke" -> "probe"
      [] m = "proton-cmd-smoke" -> "cmd x86_64"
      [] OTHER -> "cmd aarch64"]

\* canonical_external_game_environment.
Library(plan) == Needs(plan, {"library"})

\* Wine 10, all of whose files are known.
Wine10(plan) == Needs(plan, {"wine10"})

\* selected_no_mans_sky_prefix.
SkyPrefix(plan) ==
    Needs(RefusedIf(plan, Unknown(plan, {"sky prefix"})),
          IF Is(plan, "sky prefix", "isolated") THEN {"isolated prefix"} ELSE {})

\* The game is found through a drive of the prefix that is selected.
WindowsCommand(plan) == Needs(RefusedIf(SkyPrefix(plan), Unknown(plan, {"drive"})), {"drive"})

\* validated_fex_offline_compiler.
Compiler(plan) == Needs(plan, {"compiler"})

\* Start of pv_smoke_invocation: the options that are about the container go, those about
\* descriptors stay.
Rewritten(plan) ==
    [Needs(plan, {"runtime", "proc-net", "proc-stat", "pv-adverb"}) EXCEPT !.adverb =
        {o \in @ : o[1] \in {"--fd", "--assign-fd"}}
        \cup {<<"--prefix", "own">>, <<"--set-ld-library-path", "own">>}]

Unassigned(adverb) == {o \in adverb : o[1] # "--assign-fd"}

Command(plan) ==
    LET valid == BenchmarkArguments(Validated(plan)) IN
    CASE plan.mode \in {"final-smoke", "pv-smoke"} -> [valid EXCEPT !.run = "true"]
      [] plan.mode = "no-mans-sky" ->
            [WindowsCommand(Wine10(Library(Needs(valid, {"python", "proton", "game"}))))
                EXCEPT !.run = "sky"]
      [] plan.mode \in Raiders ->
            [Needs(valid, {"python", "proton", "game"}) EXCEPT !.run = plan.command]
      [] plan.mode = "fex-offline-compile" ->
            [Compiler(Needs(valid, {"python", "proton", "offline root"})) EXCEPT !.run = "compiler"]
      [] OTHER -> [Needs(valid, {"python", "proton"})
                      EXCEPT !.run = SmokeProgram[plan.mode], !.adverb = Unassigned(@)]

------------------------------------------------------------------------------
(* The libraries put into its processes *)

Traced(plan) == Is(plan, "trace preload", "set") \/ Is(plan, "trace file", "set")

\* validated_vulkan_trace: both of its variables, or none.
VulkanTrace(plan) ==
    IF ~Traced(plan) THEN plan
    ELSE Needs(RefusedIf(plan, ~(Is(plan, "trace preload", "set") /\ Is(plan, "trace file", "set"))),
               {"trace"})

Backoff(plan) == Is(plan, "raknet", "1000")

RaknetBackoff(plan) ==
    IF Backoff(plan) THEN Needs(OnlyRaiders(plan), {"raknet shim"})
    ELSE RefusedIf(plan, Unknown(plan, {"raknet"}))

Lean == {"lean", "lean-tmp-only", "lean-debug-wait", "lean-nms"}

Profile(plan) == IF \E p \in Lean : Is(plan, "child preload", p)
                 THEN CHOOSE p \in Lean : Is(plan, "child preload", p) ELSE "full"

\* The final process has the libraries of its profile, and those that were asked for.
FinalPreload(plan) ==
    (CASE Profile(plan) = "lean-nms" -> {"tmp", "robust"}
       [] Profile(plan) = "lean-tmp-only" -> {"tmp"}
       [] OTHER -> {"tmp", "android-root", "robust", "mprotect"})
    \cup (IF Profile(plan) = "lean-debug-wait" THEN {"debug-wait"} ELSE {})
    \cup (IF Traced(plan) THEN {"trace"} ELSE {})
    \cup (IF Backoff(plan) THEN {"raknet"} ELSE {})

Preloads(plan) ==
    LET tools == RaknetBackoff(VulkanTrace(Needs(plan, {"preloads"})))
        lean == Profile(plan) # "full"
        refused == \/ Unknown(plan, {"child preload"})
                   \/ Profile(plan) = "lean-nms" /\ plan.mode # "no-mans-sky"
                   \/ lean /\ plan.mode \notin Protons
                   \/ ~lean /\ (Traced(plan) \/ Backoff(plan))
    IN Needs(RefusedIf(tools, refused),
             IF Profile(plan) = "lean-debug-wait" THEN {"debug-wait"} ELSE {})

------------------------------------------------------------------------------
(* The environment, in the order in which it is built *)

\* request_environment.
RequestEnvironment(plan) == Drop(plan, Scrubbed)

\* The modes that look at the setting for diagnostics.
Diagnosed == (Games \ {"tombraider-diagnostic"})
             \cup {"proton-arm64-cmd-smoke", "fex-offline-compile"}

\* direct_diagnostics_enabled, where it is called.
DiagnosticsChecked(plan) ==
    RefusedIf(plan, Unknown(plan, {"diagnostics"}) /\ plan.mode \in Diagnosed)

Diagnostics(plan) ==
    \/ plan.mode = "tombraider-diagnostic"
    \/ plan.mode \in Diagnosed /\ Is(plan, "diagnostics", "1")

\* proton_smoke_environment; the entry probe gets nothing.
SmokeEnvironment(plan) ==
    IF plan.mode \in Protons \ {"proton-entry-smoke"}
    THEN Put(plan, "WINEDEBUG" :> IF Diagnostics(plan) THEN {"channels"} ELSE {"-all"})
    ELSE plan

DxvkLog(plan) == Put(Needs(plan, {"logs"}), "DXVK_LOG_PATH" :> {"fresh"})

\* The Runtime's ALSA, through a file that the dispatcher writes.
Audio(plan) == Put(Needs(plan, {"alsa"}), "ALSA_CONFIG_PATH" :> {"direct"})

\* validated_direct_home.
Home(plan) == Put(Needs(plan, {"home"}), "HOME" :> {"native-home"})

GameEnvironment(plan) ==
    LET own == Put(Home(Audio(plan)), "TZ" :> {"UTC0"}) IN
    IF plan.mode \notin Games THEN plan
    ELSE IF Diagnostics(plan) THEN DxvkLog(own) ELSE own

\* A profile starts from none of the keys, whatever set them.
FexProfile(plan, profile) ==
    LET values == CASE profile \in {"extreme", "fast"} -> {"0"}
                    [] profile = "proton" -> {}
                    [] OTHER -> {"1"}
    IN Put(Drop(RefusedIf(plan, profile = "?"), FexKeys \cup {"FEX_SMCCHECKS"}),
           ("FEX_TSOENABLED" :> values)
           @@ ("FEX_MULTIBLOCK" :> IF profile = "proton" THEN {} ELSE {"by profile"})
           @@ ("FEX_SMCCHECKS" :> CASE profile = "smc-full" -> {"full"}
                                    [] profile \in {"safe", "fast"} -> {"mtrack"}
                                    [] OTHER -> {})
           @@ ("FEX_STRICTINPROCESSSPLITLOCKS" :> IF profile = "strict-locks" THEN {"1"} ELSE {})
           @@ ("STEAM_ARM64_FEX_PROFILE" :> {profile}))

FexProfiles == {"proton", "stability", "strict-locks", "smc-full", "extreme", "safe", "fast", "?"}

Chosen(plan) == {p \in FexProfiles : Is(plan, "fex profile", p)}

\* The compiler must not record maps of its own start.
CompileEnvironment(plan) ==
    IF plan.mode # "fex-offline-compile" THEN plan
    ELSE Put(Drop(FexProfile(plan, "safe"), {"FEX_ENABLECODECACHINGWIP"}),
             "FEX_APP_CACHE_LOCATION" :> {"offline root"})

MangoHud(plan) ==
    IF Is(plan, "mangohud", "1")
    THEN Put(Needs(plan, {"mangohud"}), ("MANGOHUD" :> {"1"}) @@ ("VK_INSTANCE_LAYERS" :> {"overlay"}))
    ELSE RefusedIf(plan, Unknown(plan, {"mangohud"}))

XInput(plan) ==
    IF Is(plan, "xinput", "1")
    THEN Put(Needs(plan, {"xinput"}), ("STEAMCLIENTTERMUX_NMS_XINPUT" :> {"1"})
                                      @@ ("WINEDLLOVERRIDES" :> {"xinput"}))
    ELSE RefusedIf(plan, Unknown(plan, {"xinput"}))

\* selected_no_mans_sky_fex_overlay.
SkyFex(plan) ==
    Needs(RefusedIf(plan, Unknown(plan, {"fex core"})),
          IF Is(plan, "fex core", "proton10-2512") THEN {"fex 2512"} ELSE {})

SkyEnvironment(plan) ==
    LET profiled == FexProfile(SkyFex(plan),
                               IF Chosen(plan) = {} THEN "safe" ELSE CHOOSE p \in Chosen(plan) : TRUE)
    IN IF plan.mode # "no-mans-sky" THEN plan
       ELSE Put(XInput(MangoHud(profiled)),
                ("WINEPREFIX" :> IF Is(plan, "sky prefix", "isolated") THEN {"isolated"} ELSE {"own"})
                @@ ("WINEDLLPATH" :> IF Is(plan, "fex core", "proton10-2512")
                                     THEN {"wine10", "fex 2512"} ELSE {"wine10"})
                @@ ("WINEDLLOVERRIDES" :> {"steam", "xinput"})
                @@ ("FEX_APP_CONFIG" :> {"275850"}) @@ ("SteamAppId" :> {"275850"})
                @@ ("STEAM_COMPAT_LIBRARY_PATHS" :> {"library"}))

CodeCache(plan) ==
    LET bare == Drop(RefusedIf(plan, Unknown(plan, {"code cache"})),
                     {"FEX_ENABLECODECACHINGWIP", "FEX_APP_CACHE_LOCATION"})
        cached(file) == Put(Needs(OnlyRaiders(bare), {file}),
                            ("FEX_ENABLECODECACHINGWIP" :> {"1"})
                            @@ ("FEX_APP_CACHE_LOCATION" :> {file}))
    IN IF Is(plan, "code cache", "compiled") THEN cached("compiled cache")
       ELSE IF Is(plan, "code cache", "on") THEN cached("code cache") ELSE bare

SmcChecks(plan) ==
    Put(RefusedIf(plan, Unknown(plan, {"smc"})),
        "FEX_SMCCHECKS" :> IF Is(plan, "smc", "none") THEN {"none"} ELSE {"mtrack"})

RelaxedBarriers(plan) ==
    LET bare == Drop(RefusedIf(plan, Unknown(plan, {"barriers"})), {"DXVK_CONFIG", "DXVK_CONFIG_FILE"})
    IN IF Is(plan, "barriers", "on") THEN Put(OnlyRaiders(bare), "DXVK_CONFIG" :> {"relaxed"})
       ELSE bare

\* What is in DXVK_CONFIG stays there.
CompilerThreads(plan) ==
    LET bare == Drop(RefusedIf(plan, Unknown(plan, {"threads"})),
                     {"STEAMCLIENTTERMUX_DXVK_COMPILER_THREADS"})
    IN IF Is(plan, "threads", "4")
       THEN Put(OnlyRaiders(bare),
                ("DXVK_CONFIG" :> bare.env["DXVK_CONFIG"] \cup {"threads"})
                @@ ("STEAMCLIENTTERMUX_DXVK_COMPILER_THREADS" :> {"4"}))
       ELSE bare

Variants == {"dxvk-1.10.3-x32", "dxvk-2.4.1-x32"}

Variant(plan) ==
    LET bare == Drop(RefusedIf(plan, Unknown(plan, {"variant"})), {"WINEDLLPATH"}) IN
    IF \E v \in Variants : Is(plan, "variant", v)
    THEN LET v == CHOOSE v \in Variants : Is(plan, "variant", v) IN
         Put(DxvkLog(Needs(OnlyRaiders(bare), {v})),
             ("STEAMCLIENTTERMUX_DXVK_VARIANT" :> {v}) @@ ("WINEDLLOVERRIDES" :> {"dxvk"}))
    ELSE bare

StateCache(plan) ==
    LET bare == Drop(RefusedIf(plan, Unknown(plan, {"state cache"})), {"DXVK_STATE_CACHE_PATH"}) IN
    IF Is(plan, "state cache", "internal")
    THEN Put(Needs(OnlyRaiders(bare), {"state cache"}), "DXVK_STATE_CACHE_PATH" :> {"internal"})
    ELSE bare

\* The threads are set before the barriers start DXVK_CONFIG again.
RaiderEnvironmentBug(plan) ==
    LET profiled == IF Chosen(plan) = {} THEN plan
                    ELSE FexProfile(plan, CHOOSE p \in Chosen(plan) : TRUE)
    IN IF plan.mode \notin Raiders THEN plan
       ELSE StateCache(Variant(RelaxedBarriers(CompilerThreads(SmcChecks(CodeCache(profiled))))))

RaiderEnvironment(plan) ==
    LET profiled == IF Chosen(plan) = {} THEN plan
                    ELSE FexProfile(plan, CHOOSE p \in Chosen(plan) : TRUE)
    IN IF plan.mode \notin Raiders THEN plan
       ELSE StateCache(Variant(CompilerThreads(RelaxedBarriers(SmcChecks(CodeCache(profiled))))))

\* bvb_vulkan_environment; without the bridge, none of its levers may be pulled.
BridgeLevers == {"stream", "memory", "journal", "rejection"}

Bridge(plan) ==
    LET pulled == {s \in BridgeLevers : \E o \in plan.settings : o[1] = s}
        on == Is(plan, "bvb", "1")
        lever(name, selector) ==
            name :> {o[2] : o \in {o \in plan.settings : o[1] = selector}}
        checked == RefusedIf(plan, \/ Unknown(plan, BridgeLevers \cup {"bvb"})
                                   \/ ~on /\ pulled # {})
    IN IF ~on THEN checked
       ELSE Put(Needs(checked, {"bridge socket"}),
                ("BVB_BRIDGE_SOCKET" :> {"own"}) @@ lever("BVB_COMMAND_STREAM", "stream")
                @@ lever("BVB_MAPPED_MEMORY", "memory") @@ lever("BVB_DESCRIPTOR_JOURNAL", "journal")
                @@ lever("BVB_FIRST_REJECTION_DIAGNOSTIC", "rejection")
                @@ ("BVB_ICD_DIAGNOSTICS" :> {"1"}) @@ ("VK_LOADER_DEBUG" :> {"error"}))

\* validated_host_vulkan_icd.
Icd(plan) == IF Is(plan, "bvb", "1") THEN "bridge icd" ELSE "freedreno icd"

\* The variables that every plan sets.
HostEnvironment(plan) ==
    Put(Needs(plan, {Icd(plan)}),
        [n \in Given |-> IF n \in {"VK_DRIVER_FILES", "VK_ICD_FILENAMES"} THEN {Icd(plan)}
                         ELSE {"own"}]
        @@ ("LD_PRELOAD" :> {"tmp", "android-root", "exec", "robust", "mprotect"})
        @@ ("TGCOMPAT_LIBRARY_PATH" :> {"runtime"})
        @@ ("TGCOMPAT_EXEC_LD_PRELOAD" :> IF Profile(plan) = "full"
                                          THEN {"tmp", "android-root", "exec", "robust", "mprotect"}
                                          ELSE {"tmp", "exec", "robust"}))

FinalEnvironment(plan) ==
    LET backed == IF Backoff(plan) THEN Put(plan, "TGCOMPAT_RAKNET_RECV_SLEEP_US" :> {"1000"}) ELSE plan
        final == IF Profile(plan) = "full" THEN backed
                 ELSE Put(backed, "TGCOMPAT_EXEC_FINAL_LD_PRELOAD" :> FinalPreload(plan))
    IN IF Traced(plan) THEN Put(final, "BVB_VULKAN_TRACE_FILE" :> {"trace"}) ELSE final

\* clean_loader_environment: the smoke of the Runtime's true has the server's variables.
Clean(plan) == Drop(plan, EnvNames)

\* run_tombraider, run_no_mans_sky and run_tombraider_benchmark: a game starts in its own
\* directory, on all of the processors, and waits for six of them if it must.
OnProcessors(plan) ==
    IF plan.mode \notin Games THEN plan
    ELSE [Needs(RefusedIf(plan, plan.mode \in Raiders /\ Unknown(plan, {"topology"})),
                {"game directory"})
             EXCEPT !.processors = {"all"} \cup IF plan.mode \in Raiders /\ Is(plan, "topology", "full")
                                                THEN {"six at least"} ELSE {}]

Strace(plan) ==
    \/ plan.mode = "tombraider-diagnostic"
    \/ plan.mode = "proton-arm64-cmd-smoke" /\ Diagnostics(plan)

\* Under strace, the libraries are for what it starts, and not for strace.
Tracing(plan) ==
    IF Strace(plan)
    THEN [Drop(Needs(plan, {"strace"}), {"LD_PRELOAD", "LD_LIBRARY_PATH"})
             EXCEPT !.forwarded = plan.env["LD_PRELOAD"]]
    ELSE plan

\* pv_smoke_invocation, and the run_* functions around it.
Planned(plan) ==
    LET built == Preloads(Command(Rewritten(DiagnosticsChecked(plan))))
        started == CompileEnvironment(SmokeEnvironment(RequestEnvironment(built)))
        plain == RaiderEnvironment(SkyEnvironment(GameEnvironment(started)))
    IN IF plan.mode = "final-smoke" THEN Clean(Command(Needs(plan, {"runtime"})))
       ELSE Tracing(OnProcessors(FinalEnvironment(Bridge(HostEnvironment(plain)))))

------------------------------------------------------------------------------
(* What the operator and Steam are owed *)

\* A setting, and the words that a plan must then show.
Shows(o) ==
    CASE o = <<"bvb", "1">> -> {<<"VK_DRIVER_FILES", "bridge icd">>, <<"BVB_BRIDGE_SOCKET", "own">>}
      [] o = <<"stream", "shared">> -> {<<"BVB_COMMAND_STREAM", "shared">>}
      [] o = <<"memory", "direct">> -> {<<"BVB_MAPPED_MEMORY", "direct">>}
      [] o = <<"journal", "shared">> -> {<<"BVB_DESCRIPTOR_JOURNAL", "shared">>}
      [] o = <<"rejection", "1">> -> {<<"BVB_FIRST_REJECTION_DIAGNOSTIC", "1">>}
      [] o = <<"raknet", "1000">> -> {<<"TGCOMPAT_EXEC_FINAL_LD_PRELOAD", "raknet">>,
                                      <<"TGCOMPAT_RAKNET_RECV_SLEEP_US", "1000">>}
      [] o[1] \in {"trace preload", "trace file"} ->
            {<<"TGCOMPAT_EXEC_FINAL_LD_PRELOAD", "trace">>, <<"BVB_VULKAN_TRACE_FILE", "trace">>}
      [] o = <<"child preload", "lean-debug-wait">> ->
            {<<"TGCOMPAT_EXEC_FINAL_LD_PRELOAD", "debug-wait">>}
      [] OTHER -> {}

ShowsRaiders(o) ==
    CASE o = <<"code cache", "on">> -> {<<"FEX_APP_CACHE_LOCATION", "code cache">>,
                                        <<"FEX_ENABLECODECACHINGWIP", "1">>}
      [] o = <<"code cache", "compiled">> -> {<<"FEX_APP_CACHE_LOCATION", "compiled cache">>,
                                              <<"FEX_ENABLECODECACHINGWIP", "1">>}
      [] o = <<"smc", "none">> -> {<<"FEX_SMCCHECKS", "none">>}
      [] o = <<"barriers", "on">> -> {<<"DXVK_CONFIG", "relaxed">>}
      [] o = <<"threads", "4">> -> {<<"DXVK_CONFIG", "threads">>,
                                    <<"STEAMCLIENTTERMUX_DXVK_COMPILER_THREADS", "4">>}
      [] o[1] = "variant" -> {<<"STEAMCLIENTTERMUX_DXVK_VARIANT", o[2]>>, <<"WINEDLLOVERRIDES", "dxvk">>,
                              <<"DXVK_LOG_PATH", "fresh">>}
      [] o = <<"state cache", "internal">> -> {<<"DXVK_STATE_CACHE_PATH", "internal">>}
      [] OTHER -> {}

ShowsSky(o) ==
    CASE o = <<"mangohud", "1">> -> {<<"MANGOHUD", "1">>, <<"VK_INSTANCE_LAYERS", "overlay">>}
      [] o = <<"xinput", "1">> -> {<<"STEAMCLIENTTERMUX_NMS_XINPUT", "1">>,
                                   <<"WINEDLLOVERRIDES", "xinput">>}
      [] o = <<"fex core", "proton10-2512">> -> {<<"WINEDLLPATH", "fex 2512">>}
      [] o = <<"sky prefix", "isolated">> -> {<<"WINEPREFIX", "isolated">>}
      [] OTHER -> {}

SmcFull == <<"FEX_SMCCHECKS", "full">>

\* A profile is its name and, where it is named for one, the switch that makes it.
ShowsGames(o) ==
    IF o[1] # "fex profile" THEN {}
    ELSE {<<"STEAM_ARM64_FEX_PROFILE", o[2]>>}
         \cup (IF o[2] = "smc-full" THEN {SmcFull} ELSE {})
         \cup (IF o[2] = "strict-locks" THEN {<<"FEX_STRICTINPROCESSSPLITLOCKS", "1">>} ELSE {})

Owed(mode, o) ==
    (IF mode = "final-smoke" THEN {} ELSE Shows(o))
    \cup (IF mode \in Games THEN ShowsGames(o) ELSE {})
    \cup (IF mode \in Diagnosed /\ o = <<"diagnostics", "1">> THEN {<<"WINEDEBUG", "channels">>}
          ELSE {})
    \cup (IF mode \in Raiders THEN ShowsRaiders(o) ELSE {})
    \cup (IF mode = "no-mans-sky" THEN ShowsSky(o) ELSE {})

Singles == {<<"bvb", "1">>, <<"stream", "shared">>, <<"memory", "direct">>, <<"journal", "shared">>,
            <<"rejection", "1">>, <<"raknet", "1000">>, <<"trace preload", "set">>,
            <<"trace file", "set">>, <<"smc", "none">>, <<"barriers", "on">>, <<"threads", "4">>,
            <<"state cache", "internal">>, <<"diagnostics", "1">>, <<"preset", "720p-high">>,
            <<"mangohud", "1">>, <<"xinput", "1">>, <<"fex core", "proton10-2512">>,
            <<"sky prefix", "isolated">>, <<"topology", "full">>}

Options == Singles \cup {<<"code cache", v>> : v \in {"on", "compiled"}}
           \cup {<<"variant", v>> : v \in Variants}
           \cup {<<"child preload", p>> : p \in Lean}
           \cup {<<"fex profile", p>> : p \in FexProfiles \ {"?"}}

\* One value for a selector.
Selection(settings) == \A o, p \in settings : o[1] = p[1] => o = p

\* The names whose values are the server's to give.
Levers(plan) ==
    IF plan.mode = "final-smoke" THEN EnvNames
    ELSE Scrubbed \cup Given \cup (IF plan.mode \in Games THEN GivenToGames ELSE {})
         \cup (IF Chosen(plan) # {} /\ plan.mode \in Games THEN FexKeys ELSE {})

\* A plan that is not refused shows every setting made for its mode and none that was not,
\* nothing that Steam sent decides a lever, and it is the game that Steam asks for that runs.
\* What is said of the words in overruled is left open.
AsSelected(plan, overruled) ==
    /\ \A o \in Options : \A w \in Owed(plan.mode, o) \ overruled :
          w[2] \in plan.env[w[1]] <=> \/ \E p \in plan.settings : w \in Owed(plan.mode, p)
                                      \/ w = <<"WINEDLLOVERRIDES", "xinput">>
                                      \/ /\ w[1] = "DXVK_LOG_PATH" /\ Diagnostics(plan)
                                      \/ /\ plan.mode = "no-mans-sky" /\ Chosen(plan) = {}
                                         /\ w = <<"STEAM_ARM64_FEX_PROFILE", "safe">>
    /\ \A n \in Levers(plan) : "steam" \notin plan.env[n]
    /\ plan.mode \in Games => plan.run = plan.command /\ <<"--assign-fd", "steam">> \in plan.adverb
    /\ <<"--fd", "steam">> \in plan.adverb
    /\ plan.mode # "final-smoke" => <<"--prefix", "steam">> \notin plan.adverb
    /\ Strace(plan) => plan.env["LD_PRELOAD"] = {}
    /\ plan.mode = "final-smoke" \/ "exec" \in plan.env["LD_PRELOAD"] \cup plan.forwarded
    /\ "all" \in plan.processors <=> plan.mode \in Games
    /\ "six at least" \in plan.processors
          <=> plan.mode \in Raiders /\ <<"topology", "full">> \in plan.settings

\* The settings that are tried: up to two, beside the bridge or a lean profile, or a value that
\* the code does not know.
Selectors == {o[1] : o \in Options}

Selections ==
    LET bases == {{}, {<<"bvb", "1">>}, {<<"child preload", "lean">>}} IN
    {S \in {base \cup {o, p} : base \in bases, o \in Options, p \in Options} : Selection(S)}
    \cup {{<<s, "?">>} : s \in Selectors \ {"trace preload", "trace file"}} \cup {{}}

Commands == {"true", "sky", "raider", "raider -benchmark", "raider -benchmarkini", "other"}

\* The files that a plan needs.
Files == {"runtime", "pv-adverb", "preloads", "proc-net", "proc-stat", "freedreno icd", "bridge icd",
          "bridge socket", "benchmark ini", "sky tool", "openvr", "python", "proton", "game", "compiler",
          "offline root", "library", "wine10", "drive", "isolated prefix", "trace", "raknet shim",
          "debug-wait", "alsa", "home", "logs", "mangohud", "xinput", "fex 2512", "compiled cache",
          "code cache", "state cache", "game directory", "strace"} \cup Variants

\* In the Tomb Raider modes the setting for these checks, made or by default, takes the switch of
\* the profile smc-full away and leaves its name (SmcChecks).
Overruled(mode) == IF mode \in Raiders THEN {SmcFull} ELSE {}

Outcome(mode, settings, carried, command, broken) ==
    LET plan == Planned(Request(mode, settings, carried, command, broken)) IN
    IF ~plan.ok THEN "refused"
    ELSE IF AsSelected(plan, Overruled(mode)) THEN "selected" ELSE "other"

\* What a server may make of a sound request: of the settings of its mode; and of each option,
\* when the command is the one its mode expects or another, and a file may not be what it was.
SettingOutcomes ==
    {Outcome(mode, settings, carried, Asks(mode, <<"preset", "720p-high">> \in settings), {}) :
        mode \in Modes, settings \in Selections, carried \in {{}, EnvNames}}

Breaks == {{}} \cup {{f} : f \in Files}
Alternatives == {{option} : option \in Options}

OptionOutcomes ==
    {Outcome(mode, settings, EnvNames, command, broken) :
        mode \in Modes, settings \in Alternatives, command \in Commands, broken \in Breaks}

Outcomes == SettingOutcomes \cup OptionOutcomes

==============================================================================
