---------------------------- MODULE StartupProofs ----------------------------
(***************************************************************************)
(* No request is ever served outside the sandbox, whatever fails on the    *)
(* way, and the mode is the one that was asked for, for every environment  *)
(* and every argument list.                                                *)
(***************************************************************************)
EXTENDS Startup, Integers, WellFoundedInduction, TLAPS

-----------------------------------------------------------------------------
\* Every set of natural numbers with an element has a least one.
LEMMA LeastExists ==
  ASSUME NEW T \in SUBSET Nat, T # {}
  PROVE  \E x \in T : \A y \in T : x <= y
<1>1. PICK R : R = OpToRel(<, Nat)
  OBVIOUS
<1>2. \E x \in T : \A y \in T : <<y, x>> \notin R
  BY <1>1, NatLessThanWellFounded, WFMin
<1>3. \A x, y \in Nat : y < x => <<y, x>> \in R
  BY <1>1 DEF OpToRel
<1>4. \A x, y \in Nat : ~(y < x) => x <= y
  OBVIOUS
<1> QED
  BY <1>2, <1>3, <1>4

\* The paths of the two sandboxed modes, one by one.
LEMMA HostToolsPaths ==
    /\ Len(PathList("host-tools")) = 12
    /\ \A i \in 1..12 :
         PathList("host-tools")[i] =
           IF i = 1 THEN "root"
           ELSE IF i <= 4 THEN kDeviceReadWritePaths[i - 1]
           ELSE kHostToolReadOnlyDirectories[i - 4]
BY DEF PathList, kDeviceReadWritePaths, kHostToolReadOnlyDirectories

\* The same in strict mode: the root and the devices only.
LEMMA StrictPaths ==
    /\ Len(PathList("strict")) = 4
    /\ \A i \in 1..4 :
         PathList("strict")[i] =
           IF i = 1 THEN "root" ELSE kDeviceReadWritePaths[i - 1]
BY DEF PathList, kDeviceReadWritePaths

\* A complete ruleset is the one that FailClosed describes.
LEMMA CompleteRuleset ==
    ASSUME mode \in {"strict", "host-tools"}, added = Len(PathList(mode))
    PROVE  Ruleset = {Rule("root", kLandlockReadWriteAccess)}
              \cup {Rule(d, {"READ_FILE", "WRITE_FILE"}) :
                      d \in SeqRange(kDeviceReadWritePaths)}
              \cup IF mode = "host-tools"
                     THEN {Rule(d, {"EXECUTE", "READ_FILE", "READ_DIR"}) :
                             d \in SeqRange(kHostToolReadOnlyDirectories)}
                     ELSE {}
<1> DEFINE dev == SeqRange(kDeviceReadWritePaths)
           dir == SeqRange(kHostToolReadOnlyDirectories)
<1>1. /\ "root" \notin dev \cup dir /\ dev \cap dir = {}
      /\ dev = {kDeviceReadWritePaths[i] : i \in 1..3}
      /\ dir = {kHostToolReadOnlyDirectories[i] : i \in 1..8}
  BY DEF SeqRange, kDeviceReadWritePaths, kHostToolReadOnlyDirectories
<1>2. /\ Mask("root") = kLandlockReadWriteAccess
      /\ \A d \in dev : Mask(d) = {"READ_FILE", "WRITE_FILE"}
      /\ \A d \in dir : Mask(d) = {"EXECUTE", "READ_FILE", "READ_DIR"}
  BY <1>1 DEF Mask, kLandlockDeviceAccess, kLandlockReadOnlyAccess
<1>3. Ruleset = {Rule(p, Mask(p)) : p \in {PathList(mode)[i] : i \in 1..added}}
  BY DEF Ruleset
<1>4. CASE mode = "strict"
  <2>1. {PathList(mode)[i] : i \in 1..added} = {"root"} \cup dev
    BY <1>1, <1>4, StrictPaths
  <2>2. Ruleset = {Rule("root", Mask("root"))} \cup {Rule(d, Mask(d)) : d \in dev}
    BY <1>3, <2>1
  <2> QED
    BY <1>2, <1>4, <2>2
<1>5. CASE mode = "host-tools"
  <2> DEFINE P(i) == PathList("host-tools")[i]
  <2>1. /\ added = 12 /\ P(1) = "root"
        /\ \A i \in 2..4 : P(i) \in dev
        /\ \A i \in 5..12 : P(i) \in dir
    <3>1. added = 12
      BY <1>5, HostToolsPaths
    <3>2. P(1) = "root"
      BY HostToolsPaths
    <3>3. \A i \in 2..4 : P(i) = kDeviceReadWritePaths[i - 1] /\ i - 1 \in 1..3
      BY HostToolsPaths
    <3>4. \A i \in 5..12 : P(i) = kHostToolReadOnlyDirectories[i - 4] /\ i - 4 \in 1..8
      BY HostToolsPaths
    <3> QED
      BY <1>1, <3>1, <3>2, <3>3, <3>4
  <2>2. \A d \in dev : \E i \in 1..12 : P(i) = d
    <3>1. \A j \in 1..3 : j + 1 \in 1..12 /\ P(j + 1) = kDeviceReadWritePaths[j]
      <4> SUFFICES ASSUME NEW j \in 1..3
                   PROVE  /\ j + 1 \in 1..12
                          /\ P(j + 1) = kDeviceReadWritePaths[j]
        OBVIOUS
      <4>1. /\ j + 1 \in 1..12 /\ j + 1 # 1
            /\ j + 1 <= 4 /\ (j + 1) - 1 = j
        OBVIOUS
      <4> QED
        BY <4>1, HostToolsPaths
    <3> QED
      BY <1>1, <3>1
  <2>3. \A d \in dir : \E i \in 1..12 : P(i) = d
    <3>1. \A j \in 1..8 :
             j + 4 \in 1..12 /\ P(j + 4) = kHostToolReadOnlyDirectories[j]
      <4> SUFFICES ASSUME NEW j \in 1..8
                   PROVE  /\ j + 4 \in 1..12
                          /\ P(j + 4) = kHostToolReadOnlyDirectories[j]
        OBVIOUS
      <4>1. /\ j + 4 \in 1..12 /\ j + 4 # 1
            /\ ~(j + 4 <= 4) /\ (j + 4) - 4 = j
        OBVIOUS
      <4> QED
        BY <4>1, HostToolsPaths
    <3> QED
      BY <1>1, <3>1
  <2>4. {PathList(mode)[i] : i \in 1..added} = {"root"} \cup dev \cup dir
    <3>1. \A i \in 1..12 : i = 1 \/ i \in 2..4 \/ i \in 5..12
      OBVIOUS
    <3> HIDE DEF dev, dir
    <3>2. {P(i) : i \in 1..12} = {"root"} \cup dev \cup dir
      BY <2>1, <2>2, <2>3, <3>1
    <3> QED
      BY <1>5, <2>1, <3>2
  <2> HIDE DEF dev, dir
  <2>5. Ruleset = {Rule("root", Mask("root"))}
                    \cup {Rule(d, Mask(d)) : d \in dev}
                    \cup {Rule(d, Mask(d)) : d \in dir}
    BY <1>3, <2>4
  <2>6. {Rule(d, Mask(d)) : d \in dev} = {Rule(d, {"READ_FILE", "WRITE_FILE"}) : d \in dev}
    BY <1>2
  <2>7. {Rule(d, Mask(d)) : d \in dir}
          = {Rule(d, {"EXECUTE", "READ_FILE", "READ_DIR"}) : d \in dir}
    BY <1>2
  <2> QED
    BY <1>2, <1>5, <2>5, <2>6, <2>7 DEF dev, dir
<1> QED
  BY <1>4, <1>5

-----------------------------------------------------------------------------
\* Where main is tells what of the sandbox has been set up.
SandboxInv ==
    /\ added \in Nat
    /\ mode \in {"strict", "host-tools", "disabled"}
    /\ phase \in {"initialize", "create_ruleset", "add_rules", "no_new_privs",
                  "restrict"} => mode # "disabled"
    /\ phase \in {"no_new_privs", "restrict"} => added = Len(PathList(mode))
    /\ phase = "restrict" => noNewPrivs
    /\ rulesetFd => phase \in {"add_rules", "no_new_privs", "restrict"}
    /\ phase \in {"construct", "serving"} /\ mode # "disabled"
         => /\ active /\ noNewPrivs
            /\ added = Len(PathList(mode)) /\ domain = Ruleset

\* Every step of main keeps that account right.
THEOREM SandboxCorrect == StartSpec => []SandboxInv
<1> USE DEF SandboxInv, Goto, Exit
<1>1. StartInit => SandboxInv
  BY DEF StartInit
<1>2. SandboxInv /\ [StartNext]_startVars => SandboxInv'
  <2> SUFFICES ASSUME SandboxInv, [StartNext]_startVars PROVE SandboxInv'
    OBVIOUS
  <2> USE DEF envVars, sandboxVars
  <2>1. CASE UNCHANGED startVars
    BY <2>1 DEF startVars, Ruleset
  <2>2. CASE ReadEnvironment
    BY <2>2 DEF ReadEnvironment, sandbox_mode_from_string
  <2>3. CASE Help
    BY <2>3 DEF Help, Left
  <2>4. CASE Switch
    BY <2>4 DEF Switch, Left
  <2>5. CASE BadArgument
    BY <2>5 DEF BadArgument, Left
  <2>6. CASE Option
    BY <2>6 DEF Option, Left, ValueOk, sandbox_mode_from_string
  <2>7. CASE ArgumentsDone
    BY <2>7 DEF ArgumentsDone
  <2>8. CASE CreateRoot
    BY <2>8 DEF CreateRoot
  <2>9. CASE Initialize
    BY <2>9 DEF Initialize
  <2>10. CASE CreateRuleset
    BY <2>10 DEF CreateRuleset
  <2>11. CASE AddRule
    BY <2>11 DEF AddRule
  <2>12. CASE AddRuleFails
    BY <2>12 DEF AddRuleFails
  <2>13. CASE RulesDone
    BY <2>13 DEF RulesDone
  <2>14. CASE NoNewPrivs
    BY <2>14 DEF NoNewPrivs
  <2>15. CASE RestrictSelf
    BY <2>15 DEF RestrictSelf, Ruleset
  <2>16. CASE Construct
    BY <2>16 DEF Construct, Ruleset
  <2>17. CASE Stop
    BY <2>17 DEF Stop
  <2> QED
    BY <2>1, <2>2, <2>3, <2>4, <2>5, <2>6, <2>7, <2>8, <2>9, <2>10, <2>11,
       <2>12, <2>13, <2>14, <2>15, <2>16, <2>17 DEF StartNext
<1> QED
  BY <1>1, <1>2, PTL DEF StartSpec

\* A server that serves in a sandboxed mode is restricted to exactly the rules
\* of that mode.
THEOREM ServesOnlyRestricted == StartSpec => []FailClosed
<1>1. SandboxInv => FailClosed
  <2> SUFFICES ASSUME SandboxInv, phase = "serving", mode # "disabled"
               PROVE  FailClosed
    BY DEF FailClosed
  <2>1. /\ mode \in {"strict", "host-tools"} /\ added = Len(PathList(mode))
        /\ active /\ noNewPrivs /\ domain = Ruleset
    BY DEF SandboxInv
  <2> QED
    BY <2>1, CompleteRuleset DEF FailClosed
<1> QED
  BY <1>1, SandboxCorrect, PTL

\* The ruleset's descriptor never survives the start.
THEOREM RulesetNotInherited == StartSpec => []RulesetClosed
<1>1. SandboxInv => RulesetClosed
  BY DEF SandboxInv, RulesetClosed
<1> QED
  BY <1>1, SandboxCorrect, PTL

-----------------------------------------------------------------------------
\* What the arguments from i on ask for, given what those behind i do.
ModeAt(a, g, i) ==
    IF i > Len(a) THEN "none"
    ELSE IF a[i] \in Switches THEN g[i + 1]
    ELSE IF g[i + 2] # "none" THEN g[i + 2]
    ELSE IF a[i] = "--sandbox-mode" THEN sandbox_mode_from_string(a[i + 1])
    ELSE "none"

AsksFrom(a) == CHOOSE g : g = [i \in 1..Len(a) + 2 |-> ModeAt(a, g, i)]

\* Such a function exists: the arguments have no last position without a value.
LEMMA AsksExists ==
  ASSUME NEW a, Len(a) \in Nat
  PROVE  \E g : g = [i \in 1..Len(a) + 2 |-> ModeAt(a, g, i)]
<1> DEFINE L == Len(a)
           From(m) == \E g : g = [i \in L + 1 - m..L + 2 |-> ModeAt(a, g, i)]
           bad == {m \in 0..L : ~From(m)}
<1>1. From(0)
  <2> DEFINE g == [i \in L + 1..L + 2 |-> "none"]
  <2>1. \A i \in L + 1..L + 2 : ModeAt(a, g, i) = "none"
    BY DEF ModeAt
  <2>2. g = [i \in L + 1..L + 2 |-> ModeAt(a, g, i)] /\ L + 1 - 0 = L + 1
    BY <2>1
  <2> QED
    BY <2>2
<1>2. ASSUME NEW m \in 1..L, From(m - 1) PROVE From(m)
  <2>1. PICK g : g = [i \in L + 1 - (m - 1)..L + 2 |-> ModeAt(a, g, i)]
    BY <1>2
  <2> DEFINE s == L + 1 - m
             h == [i \in s..L + 2 |-> IF i = s THEN ModeAt(a, g, i) ELSE g[i]]
  <2>2. L + 1 - (m - 1) = s + 1 /\ \A i \in s + 1..L + 2 : h[i] = g[i]
    OBVIOUS
  <2>3. ASSUME NEW i \in s..L + 2 PROVE ModeAt(a, h, i) = ModeAt(a, g, i)
    <3>1. ~(i > L) => i + 1 \in s + 1..L + 2 /\ i + 2 \in s + 1..L + 2
      OBVIOUS
    <3> HIDE DEF h, s
    <3> QED
      BY <2>2, <3>1 DEF ModeAt
  <2>4. ASSUME NEW i \in s..L + 2 PROVE h[i] = ModeAt(a, h, i)
    <3>1. CASE i = s
      BY <2>3, <3>1
    <3>2. CASE i # s
      <4>1. i \in s + 1..L + 2
        BY <3>2
      <4>2. g[i] = ModeAt(a, g, i)
        BY <2>1, <2>2, <4>1
      <4> QED
        BY <2>2, <2>3, <4>1, <4>2
    <3> QED
      BY <3>1, <3>2
  <2>5. h = [i \in s..L + 2 |-> ModeAt(a, h, i)]
    BY <2>4
  <2> QED
    BY <2>5
<1>3. \A m \in 0..L : From(m)
  <2> SUFFICES ASSUME bad # {} PROVE FALSE
    OBVIOUS
  <2> HIDE DEF From
  <2>1. bad \in SUBSET Nat
    OBVIOUS
  <2>2. PICK m \in bad : \A k \in bad : m <= k
    BY <2>1, LeastExists
  <2>3. m # 0
    BY <1>1, <2>2
  <2>4. m - 1 \in 0..L /\ m - 1 \notin bad /\ m \in 1..L
    BY <2>1, <2>2, <2>3
  <2> QED
    BY <1>2, <2>2, <2>4
<1>4. From(L) /\ L + 1 - L = 1
  BY <1>3
<1> QED
  BY <1>4

\* The search from the end, one argument at a time.
LEMMA AsksStep ==
  ASSUME NEW a, Len(a) \in Nat, NEW i \in 1..Len(a) + 2
  PROVE  AsksFrom(a)[i] = ModeAt(a, AsksFrom(a), i) /\ LastMode(a) = AsksFrom(a)[1]
<1>1. AsksFrom(a) = [j \in 1..Len(a) + 2 |-> ModeAt(a, AsksFrom(a), j)]
  BY AsksExists DEF AsksFrom
<1>2. AsksFrom(a)[i] = ModeAt(a, AsksFrom(a), i)
  BY <1>1
<1>3. LastMode(a) = AsksFrom(a)[1]
  BY DEF LastMode, AsksFrom, ModeAt
<1> QED
  BY <1>2, <1>3

Requested ==
    IF LastMode(args) # "none" THEN LastMode(args)
    ELSE IF envMode = "unset" THEN "strict" ELSE sandbox_mode_from_string(envMode)

\* The mode so far, unless one of the arguments that are left overrides it, is the
\* mode asked for.
ModeInv ==
    /\ args \in ArgLists /\ index \in Nat \ {0}
    /\ phase = "environment" => index = 1
    /\ phase = "arguments" =>
         /\ index \in 1..Len(args) + 2
         /\ Requested = IF AsksFrom(args)[index] # "none" THEN AsksFrom(args)[index]
                        ELSE mode
    /\ phase \notin {"environment", "arguments", "exited"} => mode = Requested

\* The mode of the start stays the one the arguments ask for.
LEMMA ModeStep ==
  ASSUME ModeInv, [StartNext]_startVars
  PROVE  ModeInv'
<1> USE DEF Goto, Exit, envVars, sandboxVars
<1> DEFINE g == AsksFrom(args)
<1>0. Len(args) \in Nat /\ args \in ArgLists
  BY ArgAssumption DEF ModeInv
<1>1. UNCHANGED <<args, envMode>> => Requested' = Requested
  BY DEF Requested
<1>2. CASE UNCHANGED startVars
  BY <1>1, <1>2 DEF startVars, ModeInv
<1>3. CASE ReadEnvironment
  <2>1. LastMode(args) = g[1]
    BY <1>0, AsksStep
  <2> HIDE DEF g
  <2> QED
    BY <1>0, <1>1, <1>3, <2>1 DEF ReadEnvironment, ModeInv, Requested, g
<1>4. CASE Switch
  <2>1. /\ index \in 1..Len(args) /\ index + 1 \in 1..Len(args) + 2
        /\ args[index] \in Switches
    BY <1>0, <1>4 DEF Switch, Left, Argument, ModeInv
  <2>2. g[index] = g[index + 1]
    <3>1. g[index] = ModeAt(args, g, index)
      BY <1>0, <2>1, AsksStep
    <3> HIDE DEF g
    <3> QED
      BY <1>0, <2>1, <3>1 DEF ModeAt
  <2> HIDE DEF g
  <2> QED
    BY <1>0, <1>1, <1>4, <2>1, <2>2 DEF Switch, Left, ModeInv, g
<1>5. CASE Option
  <2>1. /\ index \in 1..Len(args) /\ index + 2 \in 1..Len(args) + 2
        /\ args[index] \notin Switches
    BY <1>0, <1>5 DEF Option, Left, Argument, ModeInv, Options, Switches
  <2>2. g[index] = IF g[index + 2] # "none" THEN g[index + 2]
                   ELSE IF args[index] = "--sandbox-mode"
                        THEN sandbox_mode_from_string(args[index + 1]) ELSE "none"
    <3>1. g[index] = ModeAt(args, g, index)
      BY <1>0, <2>1, AsksStep
    <3> HIDE DEF g
    <3> QED
      BY <1>0, <2>1, <3>1 DEF ModeAt
  <2>3. args[index] = "--sandbox-mode" =>
           /\ mode' = sandbox_mode_from_string(args[index + 1])
           /\ sandbox_mode_from_string(args[index + 1]) # "none"
    BY <1>5 DEF Option, Argument, ValueOk
  <2>4. args[index] # "--sandbox-mode" => mode' = mode
    BY <1>5 DEF Option, Argument
  <2> HIDE DEF g
  <2>5. /\ phase = "arguments" /\ phase' = phase /\ index' = index + 2
        /\ UNCHANGED <<args, envMode>>
    BY <1>5 DEF Option, Left
  <2>6. Requested = IF g[index + 2] # "none" THEN g[index + 2] ELSE mode'
    BY <2>2, <2>3, <2>4, <2>5 DEF ModeInv, g
  <2> QED
    BY <1>0, <1>1, <2>1, <2>5, <2>6 DEF ModeInv, g
<1>6. CASE ArgumentsDone
  <2>1. phase = "arguments" /\ index \in 1..Len(args) + 2 /\ index > Len(args)
    BY <1>6 DEF ArgumentsDone, ModeInv
  <2>2. g[index] = "none"
    <3>1. g[index] = ModeAt(args, g, index)
      BY <1>0, <2>1, AsksStep
    <3> HIDE DEF g
    <3> QED
      BY <2>1, <3>1 DEF ModeAt
  <2> HIDE DEF g
  <2> QED
    BY <1>0, <1>1, <1>6, <2>1, <2>2 DEF ArgumentsDone, ModeInv, g
<1>7. CASE Help \/ BadArgument
  BY <1>1, <1>7 DEF Help, BadArgument, Left, ModeInv
<1>8. CASE CreateRoot
  BY <1>1, <1>8 DEF CreateRoot, ModeInv
<1>9. CASE Initialize \/ CreateRuleset \/ AddRule \/ AddRuleFails \/ RulesDone
  BY <1>1, <1>9 DEF Initialize, CreateRuleset, AddRule, AddRuleFails, RulesDone, ModeInv
<1>10. CASE NoNewPrivs \/ RestrictSelf \/ Construct \/ Stop
  BY <1>1, <1>10 DEF NoNewPrivs, RestrictSelf, Construct, Stop, ModeInv
<1> QED
  BY <1>2, <1>3, <1>4, <1>5, <1>6, <1>7, <1>8, <1>9, <1>10 DEF StartNext

\* The mode a server runs in is the one that the last --sandbox-mode asks for, else
\* the environment variable, else strict, for every argument list.
THEOREM RunsAsRequested == StartSpec => []ModeAsRequested
<1>1. StartInit => ModeInv
  BY DEF StartInit, ModeInv
<1>2. ModeInv /\ [StartNext]_startVars => ModeInv'
  BY ModeStep
<1>3. ModeInv => ModeAsRequested
  BY DEF ModeInv, ModeAsRequested, Requested
<1> QED
  BY <1>1, <1>2, <1>3, PTL DEF StartSpec

-----------------------------------------------------------------------------
\* No rule before add_rules: until then the mode, and with it the list of paths, may
\* change.
TypeInv ==
    /\ StartTypeOK
    /\ phase \in {"environment", "arguments", "create_root", "initialize",
                  "create_ruleset"} => added = 0

\* Every variable keeps its type, and a ruleset has no more rules than its mode.
THEOREM StartupTypes == StartSpec => []StartTypeOK
<1> DEFINE Modes == {"strict", "host-tools", "disabled"}
<1>0. \A m \in Modes : Len(PathList(m)) \in Nat
  BY DEF PathList, kDeviceReadWritePaths, kHostToolReadOnlyDirectories
<1> USE DEF TypeInv, StartTypeOK, Goto, Exit, envVars, sandboxVars
<1>1. StartInit => TypeInv
  <2> SUFFICES ASSUME StartInit PROVE TypeInv
    OBVIOUS
  <2>1. added \in 0..Len(PathList(mode)) /\ added = 0
    BY <1>0 DEF StartInit
  <2>2. index \in Nat \ {0}
    BY DEF StartInit
  <2> QED
    BY <2>1, <2>2, Zenon DEF StartInit
<1>2. TypeInv /\ [StartNext]_startVars => TypeInv'
  <2> SUFFICES ASSUME TypeInv, [StartNext]_startVars PROVE TypeInv'
    OBVIOUS
  <2>1. CASE UNCHANGED startVars
    BY <2>1 DEF startVars
  <2>2. CASE ReadEnvironment
    <3>1. mode' \in Modes /\ added' = 0
      BY <2>2 DEF ReadEnvironment, sandbox_mode_from_string
    <3>2. added' \in 0..Len(PathList(mode'))
      BY <1>0, <3>1
    <3> QED
      BY <2>2, <3>1, <3>2 DEF ReadEnvironment
  <2>3. CASE Help \/ BadArgument \/ Switch
    BY <2>3 DEF Help, BadArgument, Switch, Left
  <2>4. CASE Option
    <3>1. mode' \in Modes /\ added' = 0
      BY <2>4 DEF Option, Left, ValueOk, sandbox_mode_from_string
    <3>2. added' \in 0..Len(PathList(mode'))
      BY <1>0, <3>1
    <3> QED
      BY <2>4, <3>1, <3>2 DEF Option, Left
  <2>5. CASE ArgumentsDone \/ CreateRoot \/ Initialize
    BY <2>5 DEF ArgumentsDone, CreateRoot, Initialize
  <2>6. CASE CreateRuleset \/ AddRuleFails
    BY <2>6 DEF CreateRuleset, AddRuleFails
  <2>7. CASE AddRule
    <3>1. added' \in 0..Len(PathList(mode'))
      BY <1>0, <2>7 DEF AddRule
    <3> QED
      BY <2>7, <3>1 DEF AddRule
  <2>8. CASE RulesDone \/ NoNewPrivs \/ RestrictSelf
    BY <2>8 DEF RulesDone, NoNewPrivs, RestrictSelf
  <2>9. CASE Construct \/ Stop
    BY <2>9 DEF Construct, Stop
  <2> QED
    BY <2>1, <2>2, <2>3, <2>4, <2>5, <2>6, <2>7, <2>8, <2>9 DEF StartNext
<1> QED
  BY <1>1, <1>2, PTL DEF StartSpec
=============================================================================
