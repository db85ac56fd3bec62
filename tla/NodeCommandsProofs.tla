-------------------------- MODULE NodeCommandsProofs --------------------------
(* What start-nodes.js makes of any configuration, at any time of any day. *)
EXTENDS NodeCommands, SubstitutionProofs, TLAPS

USE ClockAssumption, TemplateAssumption, ConfigsAssumption, TimesAssumption

\* What is read never changes, and the templates keep the parameters that are
\* documented, whatever definitions are written into them.
Templates ==
    /\ config \in Configs /\ time \in Times
    /\ DOMAIN templates = DOMAIN TemplateFile
    /\ \A name \in DOMAIN TemplateFile :
          /\ DOMAIN templates[name] = DOMAIN TemplateFile[name]
          /\ templates[name].params = TemplateFile[name].params

\* The node configs that have been processed are good ones.
Processed ==
    /\ next \in 1 .. Len(config) + 1
    /\ commands \in Seq(Range(commands)) /\ Len(commands) = next - 1
    /\ \A i \in 1 .. next - 1 :
          /\ config[i].template \in DOMAIN TemplateFile
          /\ ParamsGiven(TemplateFile[config[i].template], config[i])

\* The timer is set for the next occurrence.
TimerSet ==
    phase = "launched" /\ time # NoTime =>
        /\ ValidTime(time)
        /\ timer.now \in 0 .. Day - 1
        /\ timer.delay = MsUntilNextOccurrence(time, timer.now)

IInv == Templates /\ Processed /\ TimerSet /\ AllOrNothing

-----------------------------------------------------------------------------
\* The invariant holds initially.
LEMMA InitInv == Init => IInv
<1> SUFFICES ASSUME Init PROVE IInv
  OBVIOUS
<1>1. config \in Seq(Range(config)) /\ Len(config) \in Nat
  BY DEF Init
<1>2. commands \in Seq(Range(commands)) /\ Len(commands) = 0
  BY DEF Init
<1> QED BY <1>1, <1>2 DEF Init, IInv, Templates, Processed, TimerSet, AllOrNothing

\* A step preserves the invariant: one step of the proof per action.
LEMMA StepInv == IInv /\ [Next]_vars => IInv'
<1> SUFFICES ASSUME IInv, [Next]_vars PROVE IInv'
  OBVIOUS
<1> USE DEF IInv
<1>0. config \in Seq(Range(config)) /\ Len(config) \in Nat
      /\ DOMAIN config = 1 .. Len(config)
  BY DEF Templates
<1>1. CASE ProcessNode
  <2> DEFINE name == config[next].template
  <2>1. /\ phase = "reading" /\ next \in 1 .. Len(config)
        /\ name \in DOMAIN TemplateFile
        /\ ParamsGiven(TemplateFile[name], config[next])
    BY <1>1, <1>0 DEF ProcessNode, Acceptable, Templates, Processed, ParamsGiven
  <2>2. \E d : templates' = templates \/
                templates' = [templates EXCEPT ![name].defs = d]
    BY <1>1 DEF ProcessNode
  <2>3. Templates'
    BY <1>1, <2>1, <2>2 DEF ProcessNode, Templates
  <2>4. PICK c : commands' = Append(commands, c)
    BY <1>1 DEF ProcessNode
  <2>5. commands' \in Seq(Range(commands')) /\ Len(commands') = next
    <3> DEFINE S == Range(commands) \cup {c}
    <3>1. commands \in Seq(Range(commands)) /\ Len(commands) \in Nat
      BY DEF Processed
    <3>1a. commands \in Seq(S)
      BY <3>1
    <3>2. commands' \in Seq(S) /\ Len(commands') = Len(commands) + 1
      BY <2>4, <3>1
    <3> QED BY <3>2, SMTT(20) DEF Processed, Range
  <2>6. Processed'
    <3>1. config' = config /\ next' = next + 1
      BY <1>1 DEF ProcessNode
    <3>2. \A i \in 1 .. next :
             /\ config[i].template \in DOMAIN TemplateFile
             /\ ParamsGiven(TemplateFile[config[i].template], config[i])
      BY <2>1 DEF Processed
    <3>3. next' \in 1 .. Len(config') + 1
      BY <1>0, <2>1, <3>1
    <3> QED BY <2>1, <2>5, <3>1, <3>2, <3>3 DEF Processed
  <2>7. TimerSet' /\ AllOrNothing'
    BY <1>1 DEF ProcessNode, TimerSet, AllOrNothing
  <2> QED BY <2>3, <2>6, <2>7
<1>2. CASE RejectNode \/ RejectTime \/ UNCHANGED vars
  BY <1>2 DEF RejectNode, RejectTime, vars, Templates, Processed, TimerSet,
              AllOrNothing, ParamsGiven, ValidTime, MsUntilNextOccurrence
<1>3. CASE LaunchAll
  <2>1. Templates' /\ Processed'
    BY <1>3 DEF LaunchAll, Templates, Processed, ParamsGiven
  <2>2. time = NoTime \/ ValidTime(time)
    BY <1>3 DEF LaunchAll
  <2>3. TimerSet'
    BY <1>3, <2>2 DEF LaunchAll, TimerSet
  <2>4. next = Len(config) + 1
    BY <1>3, <1>0 DEF LaunchAll, Processed
  <2>5. AllOrNothing'
    BY <1>3, <1>0, <2>2, <2>4 DEF LaunchAll, Processed, AllOrNothing, ParamsGiven
  <2> QED BY <2>1, <2>3, <2>5
<1> QED BY <1>1, <1>2, <1>3 DEF Next

\* The inductive invariant holds of every behaviour.
THEOREM InvariantHolds == Spec => []IInv
BY InitInv, StepInv, PTL DEF Spec

\* Whatever the configuration: all of its nodes are launched or none.
THEOREM AllNodesOrNone == Spec => []AllOrNothing
<1>1. IInv => AllOrNothing
  BY DEF IInv
<1> QED BY InvariantHolds, <1>1, PTL

-----------------------------------------------------------------------------
(* The clock.                                                              *)

\* Products of natural numbers grow with their factors.
LEMMA ProductsGrow ==
    ASSUME NEW a \in Nat, NEW b \in Nat, NEW c \in Nat, a <= b
    PROVE  a * c \in Nat /\ a * c <= b * c
<1>1. (b - a) * c >= 0 /\ (b - a) * c = b * c - a * c
  OBVIOUS
<1> QED BY <1>1

\* A day is so long that every valid time is in it.
LEMMA MomentInDay ==
    ASSUME NEW t \in Seq(Int), ValidTime(t)
    PROVE  Day \in Nat \ {0} /\ Moment(t) \in 0 .. Day - 1
<1> DEFINE h == t[1]
           m == t[2]
<1>1. /\ Hours \in Nat \ {0} /\ Minutes \in Nat \ {0} /\ Millis \in Nat \ {0}
      /\ h \in 0 .. Hours - 1 /\ m \in 0 .. Minutes - 1
  BY DEF ValidTime
<1> HIDE DEF h, m
<1>2. h * Minutes \in Nat /\ h * Minutes <= (Hours - 1) * Minutes
  BY <1>1, ProductsGrow
<1>3. (Hours - 1) * Minutes = Hours * Minutes - Minutes /\ Hours * Minutes \in Nat
  BY <1>1
<1> DEFINE k == h * Minutes + m
           n == Hours * Minutes
<1>4. k \in Nat /\ n \in Nat /\ k + 1 <= n
  BY <1>1, <1>2, <1>3
<1> HIDE DEF k, n
<1>5. k * Millis \in Nat /\ (k + 1) * Millis <= n * Millis
  BY <1>1, <1>4, ProductsGrow
<1>6. (k + 1) * Millis = k * Millis + Millis
  BY <1>1, <1>4
<1>7. n * Millis \in Nat \ {0} /\ k * Millis \in 0 .. n * Millis - 1
  <2>1. n * Millis \in Nat
    BY <1>1, <1>4
  <2> QED BY <1>1, <1>5, <1>6, <2>1
<1> QED BY <1>7 DEF Day, Moment, h, m, k, n

\* Within two days, the clock shows what it showed a day before.
LEMMA ClockIsDaily ==
    ASSUME NEW d \in Nat \ {0}, NEW x \in 0 .. 2 * d - 1
    PROVE  x % d = IF x < d THEN x ELSE x - d
<1>1. CASE x < d
  BY <1>1
<1>2. CASE x >= d
  <2> DEFINE y == x - d
  <2>1. y \in 0 .. d - 1 /\ x = y + d
    BY <1>2
  <2> QED BY <2>1
<1> QED BY <1>1, <1>2

\* Wherever in the day the launcher starts, its restart is the next time that
\* the clock shows what is configured.
THEOREM RestartsOnTime == Spec => []RestartOnTime
<1>1. IInv => RestartOnTime
  <2> SUFFICES ASSUME IInv, phase = "launched", time # NoTime
               PROVE  /\ timer.delay > 0
                      /\ Shows(timer.now + timer.delay)
                      /\ \A early \in 1 .. timer.delay - 1 :
                             ~ Shows(timer.now + early)
    BY DEF RestartOnTime
  <2>1. /\ Day \in Nat \ {0} /\ Moment(time) \in 0 .. Day - 1
        /\ timer.now \in 0 .. Day - 1
        /\ timer.delay = MsUntilNextOccurrence(time, timer.now)
    BY MomentInDay DEF IInv, Templates, TimerSet
  <2>2. /\ timer.delay \in 1 .. Day
        /\ timer.now + timer.delay \in {Moment(time), Moment(time) + Day}
        /\ timer.now + timer.delay = Moment(time) => timer.now < Moment(time)
        /\ timer.now + timer.delay # Moment(time) => timer.now >= Moment(time)
    BY <2>1 DEF MsUntilNextOccurrence
  <2>3. Shows(timer.now + timer.delay)
    BY <2>1, <2>2, ClockIsDaily DEF Shows
  <2>4. ASSUME NEW early \in 1 .. timer.delay - 1
        PROVE  ~ Shows(timer.now + early)
    <3> DEFINE x == timer.now + early
    <3>1. x \in 0 .. 2 * Day - 1 /\ x \in Int
      BY <2>1, <2>2
    <3>2. x % Day = IF x < Day THEN x ELSE x - Day
      BY <2>1, <3>1, ClockIsDaily
    <3>3. x # Moment(time) /\ x - Day # Moment(time)
      BY <2>1, <2>2
    <3> QED BY <3>2, <3>3 DEF Shows
  <2> QED BY <2>2, <2>3, <2>4
<1> QED BY InvariantHolds, <1>1, PTL

-----------------------------------------------------------------------------
(* The commands.                                                           *)

\* The template of a node config as it is in the file.
TemplateOf(i) == TemplateFile[config[i].template]
ParamsOf(i) == Params(TemplateOf(i), config[i])

\* Of a template in memory nothing changes but the definitions, and these only
\* where there is an object to write them into.
Kept ==
    \A name \in DOMAIN TemplateFile :
        /\ templates[name].hasDefs = TemplateFile[name].hasDefs
        /\ templates[name].capabilities = TemplateFile[name].capabilities
        /\ ~ TemplateFile[name].hasDefs =>
               templates[name].defs = TemplateFile[name].defs

SameDefs(name) ==
    LET new == templates[name].defs
        old == TemplateFile[name].defs
    IN DOMAIN new = DOMAIN old /\ \A key \in DOMAIN old : new[key] = old[key]

\* A template whose definitions have changed was instantiated by a node config
\* that has definitions.
Traced ==
    \A name \in DOMAIN TemplateFile :
        SameDefs(name) \/ \E j \in 1 .. next - 1 :
            config[j].template = name /\ DOMAIN config[j].defs # {}

\* The capabilities of a command are those of its own config.
OwnCapabilities ==
    \A i \in 1 .. next - 1 :
        commands[i].capabilities = Capabilities(TemplateOf(i), ParamsOf(i))

\* Its definitions are so if nothing is overridden that is used again.
OwnDefs ==
    Separate(config) => \A i \in 1 .. next - 1 :
        commands[i].defs = DefArgs(Defs(TemplateOf(i), config[i]), ParamsOf(i))

CommandInv == Kept /\ Traced /\ OwnCapabilities /\ OwnDefs

\* What a command is made of.
LEMMA CommandIs ==
    ASSUME NEW template, NEW nodeConfig
    PROVE  LET params == Params(template, nodeConfig)
               command == Command(template, nodeConfig)
           IN /\ command.defs = DefArgs(Defs(template, nodeConfig), params)
              /\ command.capabilities = Capabilities(template, params)
BY DEF Command

\* A template with the same parameters, capabilities or definitions makes the
\* same of a node config.
LEMMA SameParams ==
    ASSUME NEW t, NEW u, NEW nodeConfig, t.params = u.params
    PROVE  Params(t, nodeConfig) = Params(u, nodeConfig)
BY DEF Params

LEMMA SameCapabilities ==
    ASSUME NEW t, NEW u, NEW params, t.capabilities = u.capabilities
    PROVE  Capabilities(t, params) = Capabilities(u, params)
BY DEF Capabilities

LEMMA SameAssigned ==
    ASSUME NEW t, NEW u, NEW nodeConfig, DOMAIN t.defs = DOMAIN u.defs,
           \A key \in DOMAIN u.defs : t.defs[key] = u.defs[key]
    PROVE  Defs(t, nodeConfig) = Defs(u, nodeConfig)
BY DEF Defs, Assigned

\* The command of the config that is processed next is made of its template as
\* it is in the file.
LEMMA NextCommand ==
    ASSUME IInv, CommandInv, ProcessNode
    PROVE  /\ next \in 1 .. Len(config) /\ Len(commands) = next - 1
           /\ config[next].template \in DOMAIN TemplateFile
           /\ \E c : /\ commands' = Append(commands, c)
                     /\ c.capabilities = Capabilities(TemplateOf(next), ParamsOf(next))
                     /\ Separate(config) =>
                           c.defs = DefArgs(Defs(TemplateOf(next), config[next]),
                                            ParamsOf(next))
<1> DEFINE name == config[next].template
           c == Command(templates[name], config[next])
<1>1. /\ config \in Seq(Range(config)) /\ Len(config) \in Nat
      /\ DOMAIN config = 1 .. Len(config)
  BY DEF IInv, Templates
<1>2. /\ next \in 1 .. Len(config) /\ Len(commands) = next - 1
      /\ name \in DOMAIN TemplateFile /\ templates[name].params = TemplateFile[name].params
  BY <1>1 DEF ProcessNode, Acceptable, IInv, Processed, Templates
<1>3. commands' = Append(commands, c)
  BY DEF ProcessNode
<1>4. PICK t : t = templates[name]
  OBVIOUS
<1>5. PICK u : u = TemplateOf(next)
  OBVIOUS
<1>6. PICK own : own = config[next]
  OBVIOUS
<1>7. c = Command(t, own) /\ u = TemplateFile[name]
  BY <1>4, <1>5, <1>6 DEF TemplateOf
<1>8. PICK params : params = Params(t, own)
  OBVIOUS
<1>9. c.defs = DefArgs(Defs(t, own), params)
      /\ c.capabilities = Capabilities(t, params)
  BY <1>7, <1>8, CommandIs
<1>10. params = ParamsOf(next)
  <2>1. t.params = u.params
    BY <1>2, <1>4, <1>7
  <2>2. params = Params(u, own)
    BY <2>1, <1>8, SameParams
  <2> QED BY <2>2, <1>5, <1>6 DEF ParamsOf
<1>11. c.capabilities = Capabilities(TemplateOf(next), ParamsOf(next))
  <2>1. t.capabilities = u.capabilities
    BY <1>2, <1>4, <1>7 DEF CommandInv, Kept
  <2>2. Capabilities(t, params) = Capabilities(u, params)
    BY <2>1, SameCapabilities
  <2> QED BY <1>10, <1>5, <1>9, <2>2
<1>12. ASSUME Separate(config) PROVE SameDefs(name)
  <2>1. CASE ~ TemplateFile[name].hasDefs
    BY <1>2, <2>1 DEF CommandInv, Kept, SameDefs
  <2>2. CASE TemplateFile[name].hasDefs
    <3>1. ASSUME NEW j \in 1 .. next - 1, config[j].template = name
          PROVE  DOMAIN config[j].defs = {}
      <4>1. j \in DOMAIN config /\ next \in DOMAIN config /\ j < next
        BY <1>1, <1>2
      <4> QED BY <1>2, <1>12, <2>2, <3>1, <4>1 DEF Separate
    <3> QED BY <1>2, <3>1 DEF CommandInv, Traced
  <2> QED BY <2>1, <2>2
<1>13. ASSUME Separate(config)
      PROVE  c.defs = DefArgs(Defs(TemplateOf(next), config[next]), ParamsOf(next))
  <2>1. DOMAIN t.defs = DOMAIN u.defs
        /\ \A key \in DOMAIN u.defs : t.defs[key] = u.defs[key]
    BY <1>12, <1>13, <1>4, <1>7 DEF SameDefs
  <2>2. Defs(t, own) = Defs(u, own)
    BY <2>1, SameAssigned
  <2> QED BY <1>10, <1>5, <1>6, <1>9, <2>2
<1> QED BY <1>2, <1>3, <1>11, <1>13

LEMMA InitCommand == Init => CommandInv
<1> SUFFICES ASSUME Init PROVE CommandInv
  OBVIOUS
<1>1. templates = TemplateFile /\ next = 1
  BY DEF Init
<1> QED BY <1>1 DEF CommandInv, Kept, Traced, SameDefs, OwnCapabilities, OwnDefs

\* What is written into a template: nothing but its definitions, which stay as
\* they are in the file if the node config has none.
LEMMA WrittenTemplate ==
    ASSUME IInv, CommandInv, ProcessNode
    PROVE  Kept' /\ Traced'
<1> DEFINE name == config[next].template
<1>1. PICK d : d = Defs(templates[name], config[next])
  OBVIOUS
<1>2. /\ name \in DOMAIN TemplateFile /\ next \in Nat \ {0}
      /\ config' = config /\ next' = next + 1
  <2>1. next \in 1 .. Len(config) /\ name \in DOMAIN TemplateFile
    BY NextCommand
  <2>2. config \in Seq(Range(config))
    BY DEF IInv, Templates
  <2> QED BY <2>1, <2>2 DEF ProcessNode
<1>3. templates' = IF templates[name].hasDefs
                   THEN [templates EXCEPT ![name].defs = d] ELSE templates
  BY <1>1 DEF ProcessNode
<1>4. \A n \in DOMAIN TemplateFile :
        /\ n \in DOMAIN templates
        /\ DOMAIN templates[n] = {"params", "hasDefs", "defs", "capabilities"}
  BY DEF IInv, Templates
<1>5. \A n \in DOMAIN TemplateFile :
        /\ templates'[n].hasDefs = templates[n].hasDefs
        /\ templates'[n].capabilities = templates[n].capabilities
        /\ templates'[n].defs = templates[n].defs
           \/ (n = name /\ templates[n].hasDefs /\ templates'[n].defs = d)
  BY <1>2, <1>3, <1>4
<1>6. Kept'
  BY <1>5 DEF CommandInv, Kept
<1>7. ASSUME SameDefs(name), DOMAIN config[next].defs = {}
      PROVE  DOMAIN d = DOMAIN TemplateFile[name].defs
             /\ \A key \in DOMAIN d : d[key] = TemplateFile[name].defs[key]
  BY <1>1, <1>7 DEF SameDefs, Defs, Assigned
<1>8. ASSUME NEW n \in DOMAIN TemplateFile,
             ~ \E j \in 1 .. next' - 1 :
                 config[j].template = n /\ DOMAIN config[j].defs # {}
      PROVE  SameDefs(n)'
  <2>1. ~ \E j \in 1 .. next - 1 :
            config[j].template = n /\ DOMAIN config[j].defs # {}
    BY <1>2, <1>8
  <2>2. SameDefs(n)
    BY <2>1 DEF CommandInv, Traced
  <2>3. CASE templates'[n].defs = templates[n].defs
    BY <2>2, <2>3 DEF SameDefs
  <2>4. CASE n = name /\ templates'[n].defs = d
    <3>1. next \in 1 .. next' - 1
      BY <1>2
    <3>2. DOMAIN config[next].defs = {}
      BY <1>8, <2>4, <3>1
    <3> QED BY <1>7, <2>2, <2>4, <3>2 DEF SameDefs
  <2> QED BY <1>5, <2>3, <2>4
<1>9. Traced'
  BY <1>2, <1>8 DEF Traced
<1> QED BY <1>6, <1>9

\* A command that is built stays as it is, and the next is built as it should
\* be.
LEMMA BuiltCommands ==
    ASSUME IInv, CommandInv, ProcessNode
    PROVE  OwnCapabilities' /\ OwnDefs'
<1>1. PICK c : /\ commands' = Append(commands, c)
               /\ c.capabilities = Capabilities(TemplateOf(next), ParamsOf(next))
               /\ Separate(config) =>
                     c.defs = DefArgs(Defs(TemplateOf(next), config[next]),
                                      ParamsOf(next))
  BY NextCommand
<1>2. /\ commands \in Seq(Range(commands)) /\ Len(commands) = next - 1
      /\ next \in Nat \ {0}
  <2>1. config \in Seq(Range(config))
    BY DEF IInv, Templates
  <2> QED BY <2>1 DEF IInv, Processed
<1>3. config' = config /\ next' = next + 1
  BY DEF ProcessNode
<1>4. \A i \in 1 .. next - 1 : commands'[i] = commands[i]
  BY <1>1, <1>2
<1>5. commands'[next] = c
  BY <1>1, <1>2
<1>6. \A i \in 1 .. next' - 1 : i \in 1 .. next - 1 \/ i = next
  BY <1>2, <1>3
<1>7. OwnCapabilities'
  BY <1>1, <1>3, <1>4, <1>5, <1>6 DEF CommandInv, OwnCapabilities, TemplateOf, ParamsOf
<1>8. OwnDefs'
  <2> SUFFICES ASSUME Separate(config), NEW i \in 1 .. next' - 1
               PROVE  commands'[i].defs =
                        DefArgs(Defs(TemplateOf(i), config[i]), ParamsOf(i))
    BY <1>3 DEF OwnDefs, TemplateOf, ParamsOf
  <2>1. CASE i \in 1 .. next - 1
    BY <1>4, <2>1 DEF CommandInv, OwnDefs
  <2>2. CASE i = next
    BY <1>1, <1>5, <2>2
  <2> QED BY <1>6, <2>1, <2>2
<1> QED BY <1>7, <1>8

LEMMA StepCommand == IInv /\ CommandInv /\ [Next]_vars => CommandInv'
<1> SUFFICES ASSUME IInv, CommandInv, [Next]_vars PROVE CommandInv'
  OBVIOUS
<1>1. CASE ProcessNode
  BY <1>1, WrittenTemplate, BuiltCommands DEF CommandInv
<1>2. CASE UNCHANGED <<config, templates, next, commands>>
  <2>1. Kept' /\ Traced'
    BY <1>2 DEF CommandInv, Kept, Traced, SameDefs
  <2>2. OwnCapabilities' /\ OwnDefs'
    BY <1>2 DEF CommandInv, OwnCapabilities, OwnDefs, TemplateOf, ParamsOf
  <2> QED BY <2>1, <2>2 DEF CommandInv
<1> QED BY <1>1, <1>2 DEF Next, RejectNode, RejectTime, LaunchAll, vars

LEMMA CommandsHold == Spec => [](IInv /\ CommandInv)
BY InitInv, InitCommand, StepInv, StepCommand, PTL DEF Spec

\* What a plain configuration promises of the config processed at some time.
LEMMA PlainNode ==
    ASSUME NEW c, Plain(c), NEW i \in DOMAIN c,
           c[i].template \in DOMAIN TemplateFile
    PROVE  LET template == TemplateFile[c[i].template]
               params == Params(template, c[i])
               defs == Defs(template, c[i])
           IN /\ Distinct(params)
              /\ \A key \in DOMAIN template.capabilities :
                    Fillable(template.capabilities[key], params)
              /\ \A key \in DOMAIN defs : Fillable(defs[key], params)
BY DEF Plain

\* The capabilities of every node of a plain configuration are filled in as
\* documented, whatever nodes are configured before it.  Plain leaves out what
\* the code fills in otherwise: a variable referred to twice, one whose name
\* goes on after that of another, and a value with a reference or with one of
\* the patterns of String.replace() (start-nodes.js:201-203).
THEOREM CapabilitiesCorrect ==
    Spec => [](Plain(config) => CapabilitiesAsDocumented)
<1>1. ASSUME IInv, CommandInv, Plain(config) PROVE CapabilitiesAsDocumented
  <2> SUFFICES ASSUME NEW i \in DOMAIN commands
               PROVE  commands[i].capabilities =
                        [k \in DOMAIN TemplateOf(i).capabilities |->
                           Expanded(TemplateOf(i).capabilities[k],
                                    Values(TemplateOf(i), config[i]))]
    BY DEF CapabilitiesAsDocumented, TemplateOf
  <2>1. /\ i \in 1 .. next - 1 /\ i \in DOMAIN config
        /\ config[i].template \in DOMAIN TemplateFile
    <3>1. config \in Seq(Range(config)) /\ commands \in Seq(Range(commands))
          /\ Len(commands) = next - 1 /\ next \in 1 .. Len(config) + 1
      BY <1>1 DEF IInv, Templates, Processed
    <3>2. i \in 1 .. next - 1 /\ i \in 1 .. Len(config)
      BY <3>1
    <3> QED BY <1>1, <3>1, <3>2 DEF IInv, Processed
  <2>2. PICK name \in DOMAIN TemplateFile : name = config[i].template
    BY <2>1
  <2>3. PICK own : own = config[i]
    OBVIOUS
  <2>4. PICK template : template = TemplateFile[name]
    OBVIOUS
  <2>5. TemplateOf(i) = template
    BY <2>2, <2>4 DEF TemplateOf
  <2>6. Plain(config)
    BY <1>1
  <2>7. /\ Distinct(Params(template, own))
        /\ \A k \in DOMAIN template.capabilities :
              Fillable(template.capabilities[k], Params(template, own))
    BY <2>1, <2>2, <2>3, <2>4, <2>6, PlainNode
  <2>8. \A k \in DOMAIN template.capabilities :
           SubstituteParams(template.capabilities[k], Params(template, own))
             = Expanded(template.capabilities[k], Values(template, own))
    BY <2>4, <2>7, FilledAsDocumented
  <2>9. commands[i].capabilities = Capabilities(template, Params(template, own))
    BY <1>1, <2>1, <2>3, <2>5 DEF CommandInv, OwnCapabilities, ParamsOf
  <2> QED BY <2>3, <2>5, <2>8, <2>9 DEF Capabilities
<1> QED BY <1>1, CommandsHold, PTL

\* So are its definitions, if no node before it overrides what they share: a
\* definition of its own would stay in the template (start-nodes.js:428).
THEOREM DefsCorrect ==
    Spec => [](Plain(config) /\ Separate(config) => DefsAsDocumented)
<1>1. ASSUME IInv, CommandInv, Plain(config), Separate(config)
      PROVE  DefsAsDocumented
  <2> SUFFICES ASSUME NEW i \in DOMAIN commands
               PROVE  commands[i].defs = DocumentedDefs(config[i])
    BY DEF DefsAsDocumented
  <2>1. /\ i \in 1 .. next - 1 /\ i \in DOMAIN config
        /\ config[i].template \in DOMAIN TemplateFile
    <3>1. config \in Seq(Range(config)) /\ commands \in Seq(Range(commands))
          /\ Len(commands) = next - 1 /\ next \in 1 .. Len(config) + 1
      BY <1>1 DEF IInv, Templates, Processed
    <3>2. i \in 1 .. next - 1 /\ i \in 1 .. Len(config)
      BY <3>1
    <3> QED BY <1>1, <3>1, <3>2 DEF IInv, Processed
  <2>2. PICK name \in DOMAIN TemplateFile : name = config[i].template
    BY <2>1
  <2>3. PICK own : own = config[i]
    OBVIOUS
  <2>4. PICK template : template = TemplateFile[name]
    OBVIOUS
  <2>5. TemplateOf(i) = template
    BY <2>2, <2>4 DEF TemplateOf
  <2>6. Plain(config) /\ Separate(config)
    BY <1>1
  <2>7. PICK defs : defs = Defs(template, own)
    OBVIOUS
  <2>8. PICK params : params = Params(template, own)
    OBVIOUS
  <2>9. PICK values : values = Values(template, own)
    OBVIOUS
  <2>10. Distinct(params) /\ \A k \in DOMAIN defs : Fillable(defs[k], params)
    BY <2>1, <2>2, <2>3, <2>4, <2>6, <2>7, <2>8, PlainNode
  <2>11. \A k \in DOMAIN defs :
            SubstituteParams(defs[k], params) = Expanded(defs[k], values)
    BY <2>4, <2>8, <2>9, <2>10, FilledAsDocumented
  <2>12. commands[i].defs = DefArgs(defs, params)
    BY <1>1, <2>1, <2>3, <2>5, <2>6, <2>7, <2>8
       DEF CommandInv, OwnDefs, ParamsOf
  <2>13. /\ DOMAIN defs = DOMAIN template.defs \cup DOMAIN own.defs
         /\ \A k \in DOMAIN defs : defs[k] =
               IF k \in DOMAIN own.defs THEN own.defs[k] ELSE template.defs[k]
    BY <2>7 DEF Defs, Assigned
  <2>14. DefArgs(defs, params) = DocumentedDefs(own)
    <3> DEFINE value == [k \in DOMAIN defs |-> Expanded(defs[k], values)]
    <3>1. DefArgs(defs, params) =
            [k \in {key \in DOMAIN defs : value[key] # <<>>} |-> value[k]]
      BY <2>11 DEF DefArgs
    <3>2. DocumentedDefs(own) =
            [k \in {key \in DOMAIN defs : value[key] # <<>>} |-> value[k]]
      BY <2>2, <2>3, <2>4, <2>9, <2>13 DEF DocumentedDefs
    <3> QED BY <3>1, <3>2
  <2> QED BY <2>3, <2>12, <2>14
<1> QED BY <1>1, CommandsHold, PTL
=============================================================================
