------------------------------- MODULE Startup -------------------------------
(***************************************************************************)
(* From main to the first request: main.cpp reads the environment and the  *)
(* arguments, creates the root, and unless the mode is disabled has        *)
(* Sandbox::initialize and Sandbox::activate (sandbox.cpp, reached through *)
(* sandbox_setup.cpp) build a Landlock ruleset rule by rule and restrict   *)
(* the process to it.  Only then does it construct the server and serve.   *)
(* Every system call on the way may fail; the kernel may have no Landlock. *)
(***************************************************************************)
EXTENDS Naturals, Sequences

CONSTANTS
    EnvModes,   \* values of CRIPER_MCP_SANDBOX_MODE, "unset" among them
    EnvPorts,   \* values of CRIPER_MCP_PORT, "unset" among them
    ArgLists,   \* the argument lists main may be called with
    Kernels,    \* what landlock_create_ruleset answers: see Kernel
    Roots,      \* what the root path names: see RootKind
    MayFail     \* may the other system calls fail?

Kernel == {"ok", "enosys", "eopnotsupp", "other"}
RootKind == {"directory", "missing", "file", "denied"}

ASSUME EnvAssumption == Kernels \subseteq Kernel /\ Roots \subseteq RootKind
ASSUME ArgAssumption == \A a \in ArgLists : Len(a) \in Nat
ASSUME FailAssumption == MayFail \in BOOLEAN

VARIABLES
    phase,      \* where main is
    exitCode,   \* what main returned
    envMode, envPort, args, kernel, root,   \* the environment of the process
    index,      \* the next argument
    mode,       \* sandbox_mode
    supported,  \* Sandbox::supported_
    active,     \* Sandbox::active_
    rulesetFd,  \* is the ruleset descriptor open?
    added,      \* how many rules the ruleset has
    noNewPrivs, \* PR_SET_NO_NEW_PRIVS
    domain      \* the rules the process is restricted to, or Unrestricted

envVars == <<envMode, envPort, args, kernel, root>>
sandboxVars == <<supported, active, rulesetFd, added, noNewPrivs, domain>>
startVars == <<phase, exitCode, envVars, index, mode, sandboxVars>>

-----------------------------------------------------------------------------
\* The access masks and the paths of sandbox.cpp.

kLandlockReadWriteAccess ==
    {"EXECUTE", "WRITE_FILE", "READ_FILE", "READ_DIR", "REMOVE_DIR",
     "REMOVE_FILE", "MAKE_CHAR", "MAKE_DIR", "MAKE_REG", "MAKE_SOCK",
     "MAKE_FIFO", "MAKE_BLOCK", "MAKE_SYM"}
kLandlockReadOnlyAccess == {"EXECUTE", "READ_FILE", "READ_DIR"}
kLandlockDeviceAccess == {"READ_FILE", "WRITE_FILE"}

kHostToolReadOnlyDirectories ==
    <<"/bin", "/sbin", "/usr/bin", "/usr/sbin", "/lib", "/lib64", "/usr/lib",
      "/usr/lib64">>
kDeviceReadWritePaths == <<"/dev/null", "/dev/zero", "/dev/urandom">>

Rule(p, a) == [path |-> p, access |-> a]
SeqRange(s) == {s[i] : i \in DOMAIN s}

\* The paths activate adds a rule for, in its order, and the mask of each.
PathList(m) ==
    <<"root">> \o kDeviceReadWritePaths
               \o (IF m = "host-tools" THEN kHostToolReadOnlyDirectories ELSE <<>>)

Mask(p) ==
    CASE p = "root" -> kLandlockReadWriteAccess
      [] p \in SeqRange(kDeviceReadWritePaths) -> kLandlockDeviceAccess
      [] OTHER -> kLandlockReadOnlyAccess

Unrestricted == {Rule("/", kLandlockReadWriteAccess)}

-----------------------------------------------------------------------------
\* Environment and arguments.

\* sandbox_mode_from_string lowers the case; "none" stands for nullopt.
sandbox_mode_from_string(v) ==
    CASE v \in {"strict", "STRICT"} -> "strict"
      [] v \in {"host-tools", "Host-Tools"} -> "host-tools"
      [] v \in {"disabled", "DISABLED"} -> "disabled"
      [] OTHER -> "none"

\* parse_port_or_throw: a number that std::stoul reads and that is not above
\* 65535.
PortOk(v) == v \in {"0", "9999", "65535"}

ValueOk(option, v) ==
    /\ option = "--port" => PortOk(v)
    /\ option = "--sandbox-mode" => sandbox_mode_from_string(v) # "none"

Switches == {"--debug", "--verbose"}
Options == {"--root", "--host", "--port", "--sandbox-mode"}

StartTypeOK ==
    /\ phase \in {"environment", "arguments", "create_root", "initialize",
                  "create_ruleset", "add_rules", "no_new_privs", "restrict",
                  "construct", "serving", "exited"}
    /\ exitCode \in {"none", "0", "1"}
    /\ envMode \in EnvModes /\ envPort \in EnvPorts /\ args \in ArgLists
    /\ kernel \in Kernels /\ root \in Roots \cup {"directory"}
    /\ index \in Nat \ {0}
    /\ mode \in {"strict", "host-tools", "disabled"}
    /\ supported \in BOOLEAN /\ active \in BOOLEAN
    /\ rulesetFd \in BOOLEAN /\ noNewPrivs \in BOOLEAN
    /\ added \in 0..Len(PathList(mode))

\* Sandbox's constructor probes the kernel: any error but the two that mean
\* "not there" counts as support.
StartInit ==
    /\ phase = "environment"
    /\ exitCode = "none"
    /\ envMode \in EnvModes
    /\ envPort \in EnvPorts
    /\ args \in ArgLists
    /\ kernel \in Kernels
    /\ root \in Roots
    /\ index = 1
    /\ mode = "strict"
    /\ supported = (kernel \notin {"enosys", "eopnotsupp"})
    /\ active = FALSE
    /\ rulesetFd = FALSE
    /\ added = 0
    /\ noNewPrivs = FALSE
    /\ domain = Unrestricted

Exit(code) == phase' = "exited" /\ exitCode' = code
Goto(p) == phase' = p /\ UNCHANGED exitCode

\* The port and the mode of the environment, with their defaults; the current
\* directory, the default of the root, may be gone.
ReadEnvironment ==
    /\ phase = "environment"
    /\ LET m == IF envMode = "unset" THEN "strict"
                                     ELSE sandbox_mode_from_string(envMode)
           p == IF envPort = "unset" THEN "9999" ELSE envPort
       IN  \/ /\ MayFail \/ ~PortOk(p) \/ m = "none"
              /\ Exit("1") /\ UNCHANGED mode
           \/ /\ PortOk(p) /\ m # "none"
              /\ Goto("arguments") /\ mode' = m
    /\ UNCHANGED <<envVars, index, sandboxVars>>

Left == phase = "arguments" /\ index <= Len(args)
Argument == args[index]

Help ==
    /\ Left /\ Argument \in {"--help", "-h"}
    /\ Exit("0")
    /\ UNCHANGED <<envVars, index, mode, sandboxVars>>

Switch ==
    /\ Left /\ Argument \in Switches
    /\ index' = index + 1
    /\ UNCHANGED <<phase, exitCode, envVars, mode, sandboxVars>>

\* An unknown argument, an option without its value, or a value out of range.
BadArgument ==
    /\ Left /\ Argument \notin Switches \cup {"--help", "-h"}
    /\ \/ index + 1 > Len(args)
       \/ Argument \notin Options
       \/ index + 1 <= Len(args) /\ ~ValueOk(Argument, args[index + 1])
    /\ Exit("1")
    /\ UNCHANGED <<envVars, index, mode, sandboxVars>>

\* Mutant: the environment has precedence over the argument.
OptionIfUnset ==
    /\ Left /\ Argument \in Options /\ index + 1 <= Len(args)
    /\ ValueOk(Argument, args[index + 1])
    /\ mode' = IF Argument = "--sandbox-mode" /\ envMode = "unset"
                 THEN sandbox_mode_from_string(args[index + 1]) ELSE mode
    /\ index' = index + 2
    /\ UNCHANGED <<phase, exitCode, envVars, sandboxVars>>

Option ==
    /\ Left /\ Argument \in Options /\ index + 1 <= Len(args)
    /\ ValueOk(Argument, args[index + 1])
    /\ mode' = IF Argument = "--sandbox-mode"
                 THEN sandbox_mode_from_string(args[index + 1]) ELSE mode
    /\ index' = index + 2
    /\ UNCHANGED <<phase, exitCode, envVars, sandboxVars>>

ArgumentsDone ==
    /\ phase = "arguments" /\ index > Len(args)
    /\ Goto("create_root")
    /\ UNCHANGED <<envVars, index, mode, sandboxVars>>

\* create_directories throws when the root is a file or may not be created.
CreateRoot ==
    /\ phase = "create_root"
    /\ IF root \in {"file", "denied"}
         THEN Exit("1") /\ UNCHANGED root
         ELSE /\ root' = "directory"
              /\ Goto(IF mode = "disabled" THEN "construct" ELSE "initialize")
    /\ UNCHANGED <<envMode, envPort, args, kernel, index, mode, sandboxVars>>

-----------------------------------------------------------------------------
\* The sandbox.

\* The ruleset after activate has added a rule for each of the first paths.
Ruleset == {Rule(PathList(mode)[i], Mask(PathList(mode)[i])) : i \in 1..added}

\* Sandbox::initialize.  active_ is false: main calls it once.  The root may
\* have been removed, or become something else, since create_directories.
Initialize ==
    /\ phase = "initialize"
    /\ \/ ~active /\ root = "directory" /\ Goto("create_ruleset")
       \/ MayFail /\ Exit("1")
    /\ UNCHANGED <<envVars, index, mode, sandboxVars>>

\* The first half of Sandbox::activate.
CreateRuleset ==
    /\ phase = "create_ruleset"
    /\ IF ~supported \/ kernel # "ok"
         THEN Exit("1") /\ UNCHANGED rulesetFd
         ELSE Goto("add_rules") /\ rulesetFd' = TRUE
    /\ UNCHANGED <<envVars, index, mode, supported, active, added, noNewPrivs,
                   domain>>

\* add_rule for the next path of the list.
AddRule ==
    /\ phase = "add_rules"
    /\ added < Len(PathList(mode))
    /\ added' = added + 1
    /\ UNCHANGED <<phase, exitCode, envVars, index, mode, supported, active,
                   rulesetFd, noNewPrivs, domain>>

\* Mutant: the rules that could be added are enough.
AddRulesPartly ==
    /\ phase = "add_rules" /\ MayFail
    /\ added < Len(PathList(mode))
    /\ Goto("no_new_privs")
    /\ UNCHANGED <<envVars, index, mode, sandboxVars>>

\* A path that is missing (not every host has /lib64), or a rule that the
\* kernel refuses: the ruleset is closed and the start is given up.
AddRuleFails ==
    /\ phase = "add_rules" /\ MayFail
    /\ added < Len(PathList(mode))
    /\ Exit("1")
    /\ rulesetFd' = FALSE
    /\ UNCHANGED <<envVars, index, mode, supported, active, added, noNewPrivs,
                   domain>>

RulesDone ==
    /\ phase = "add_rules"
    /\ added = Len(PathList(mode))
    /\ Goto("no_new_privs")
    /\ UNCHANGED <<envVars, index, mode, sandboxVars>>

NoNewPrivs ==
    /\ phase = "no_new_privs"
    /\ \/ Goto("restrict") /\ noNewPrivs' = TRUE /\ UNCHANGED rulesetFd
       \/ MayFail /\ Exit("1") /\ rulesetFd' = FALSE /\ UNCHANGED noNewPrivs
    /\ UNCHANGED <<envVars, index, mode, supported, active, added, domain>>

\* landlock_restrict_self, and the close that both outcomes share.
RestrictSelf ==
    /\ phase = "restrict"
    /\ rulesetFd' = FALSE
    /\ \/ Goto("construct") /\ domain' = Ruleset /\ active' = TRUE
       \/ MayFail /\ Exit("1") /\ UNCHANGED <<domain, active>>
    /\ UNCHANGED <<envVars, index, mode, supported, added, noNewPrivs>>

\* McpServer's constructor and run; an exception of either ends main with 1.
Construct ==
    /\ phase = "construct"
    /\ Goto("serving") \/ (MayFail /\ Exit("1"))
    /\ UNCHANGED <<envVars, index, mode, sandboxVars>>

\* run returns or throws: the address is in use, the listener is stopped.
Stop ==
    /\ phase = "serving" /\ MayFail
    /\ \E code \in {"0", "1"} : Exit(code)
    /\ UNCHANGED <<envVars, index, mode, sandboxVars>>

StartNext ==
    \/ ReadEnvironment \/ Help \/ Switch \/ BadArgument \/ Option
    \/ ArgumentsDone \/ CreateRoot \/ Initialize \/ CreateRuleset \/ AddRule
    \/ AddRuleFails \/ RulesDone \/ NoNewPrivs \/ RestrictSelf \/ Construct \/ Stop

StartSpec == StartInit /\ [][StartNext]_startVars

-----------------------------------------------------------------------------
\* No request is served outside the sandbox that the mode calls for: the root
\* with every right, three devices with reading and writing only, the host's tools
\* only in host-tools mode and never writable, and nothing else.  A failure on
\* the way, a kernel without Landlock included, never leaves a process that serves
\* with a part of the rules or with none.
FailClosed ==
    phase = "serving" /\ mode # "disabled" =>
        /\ active /\ noNewPrivs
        /\ domain = {Rule("root", kLandlockReadWriteAccess)}
              \cup {Rule(d, {"READ_FILE", "WRITE_FILE"}) :
                      d \in SeqRange(kDeviceReadWritePaths)}
              \cup IF mode = "host-tools"
                     THEN {Rule(d, {"EXECUTE", "READ_FILE", "READ_DIR"}) :
                             d \in SeqRange(kHostToolReadOnlyDirectories)}
                     ELSE {}

\* What README.md says of the sandbox: "If Landlock is not available, the server
\* still runs" (line 142), and in strict mode "only the configured MCP root is
\* visible" (line 136).  Neither is so: the start is given up, and three devices are
\* open too.
SandboxAsDocumented ==
    [][/\ phase = "create_ruleset" /\ ~supported => phase' # "exited"
       /\ phase' = "serving" /\ mode = "strict" =>
             {rule.path : rule \in domain'} = {"root"}]_startVars

\* The descriptor of the ruleset is closed on every path out of activate: the
\* commands that fs_exec starts do not inherit it.
RulesetClosed ==
    phase \in {"construct", "serving", "exited"} => ~rulesetFd

\* What the last --sandbox-mode of the arguments asks for, found from the end.
LastMode(a) ==
    LET from[i \in 1..Len(a) + 2] ==
          IF i > Len(a) THEN "none"
          ELSE IF a[i] \in Switches THEN from[i + 1]
          ELSE IF from[i + 2] # "none" THEN from[i + 2]
          ELSE IF a[i] = "--sandbox-mode" THEN sandbox_mode_from_string(a[i + 1])
          ELSE "none"
    IN  from[1]

\* The server runs in the mode that was asked for: the last --sandbox-mode, else
\* the environment variable, else strict; a value that only looks like an option
\* does not count.
ModeAsRequested ==
    phase = "serving" =>
        mode = IF LastMode(args) # "none" THEN LastMode(args)
               ELSE IF envMode = "unset" THEN "strict"
               ELSE sandbox_mode_from_string(envMode)

=============================================================================
