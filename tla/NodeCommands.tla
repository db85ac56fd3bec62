----------------------------- MODULE NodeCommands -----------------------------
(***************************************************************************)
(* How main() of start-nodes.js turns the configuration into the commands  *)
(* it launches: one pass over the node configs, each of which instantiates *)
(* a template with parameters and definitions of its own, and then the     *)
(* timer of the daily restart.                                             *)
(*                                                                         *)
(* A text is a sequence of pieces; a piece is a literal or a reference     *)
(* such as $private-key-url, and none is joined with its neighbours.  A    *)
(* name is the sequence of its words: the hyphen between two words is a    *)
(* word boundary to a regular expression, and it is all that is told apart *)
(* of a name here.  All that is told apart of a literal is whether it is   *)
(* one of the patterns that String.replace() expands in what it inserts.   *)
(***************************************************************************)
EXTENDS Integers, Sequences, SequencesExt, Functions

CONSTANTS
    TemplateFile,  \* template name -> template, as in node-templates.yaml
    Configs,       \* sequences of node configs, as in the node config file
    Times,         \* values of daily_restart
    Hours, Minutes, Millis  \* of a day, of an hour, of a minute

ASSUME ClockAssumption == {Hours, Minutes, Millis} \subseteq Nat \ {0}

(***************************************************************************)
(* A template is a record of                                               *)
(*   params:  the sequence of its parameters, [name, optional, default]    *)
(*   hasDefs: whether it has a defs object                                 *)
(*   defs, capabilities: functions from keys to texts                      *)
(* and a node config one of                                                *)
(*   template: a name                                                      *)
(*   params:   a function from some parameter names to texts               *)
(*   defs:     a function from keys to texts                               *)
(*                                                                         *)
(* daily_restart is the sequence of the integers between its colons, -1    *)
(* for one that is none; a value that is no string is not looked at.       *)
(***************************************************************************)

ASSUME TemplateAssumption ==
    \A name \in DOMAIN TemplateFile :
        LET params == TemplateFile[name].params
        IN /\ DOMAIN TemplateFile[name] =
                  {"params", "hasDefs", "defs", "capabilities"}
           /\ params \in Seq(Range(params))
           /\ \A i \in DOMAIN params :
                 params[i].name \in Seq(Range(params[i].name))
ASSUME ConfigsAssumption == \A c \in Configs : c \in Seq(Range(c))
ASSUME TimesAssumption == Times \subseteq Seq(Int)

Lit(word) == [ref |-> FALSE, words |-> <<word>>]
Ref(name) == [ref |-> TRUE, words |-> name]

NoTime == <<>>  \* no daily_restart

VARIABLES config,     \* the node configs read
          time,       \* the daily_restart read
          templates,  \* the templates in memory
          next,       \* the node config that is processed next
          commands,   \* nodeCommands
          timer,      \* the restart timer, once it is set: [now, delay]
          phase       \* "reading", "exit" (code 1) or "launched"

vars == <<config, time, templates, next, commands, timer, phase>>

Init ==
    /\ config \in Configs
    /\ time \in Times
    /\ templates = TemplateFile
    /\ next = 1
    /\ commands = <<>>
    /\ timer = [now |-> 0, delay |-> 0]
    /\ phase = "reading"

-----------------------------------------------------------------------------
(* Parameters.                                                             *)

\* requiredParam() finds what it needs in the node config.
ParamsGiven(template, nodeConfig) ==
    \A i \in DOMAIN template.params :
        template.params[i].optional
            \/ template.params[i].name \in DOMAIN nodeConfig.params

\* The value of a parameter; the default is that of an optional one.
ParamValue(param, nodeConfig) ==
    IF param.name \in DOMAIN nodeConfig.params
    THEN nodeConfig.params[param.name] ELSE param.default

\* params, with exe and cmd last, as on macOS and Linux: both are blank.
BuiltIn == << [name |-> <<"exe">>, value |-> <<>>],
              [name |-> <<"cmd">>, value |-> <<>>] >>

Params(template, nodeConfig) ==
    [i \in DOMAIN template.params |->
        [name  |-> template.params[i].name,
         value |-> ParamValue(template.params[i], nodeConfig)]] \o BuiltIn

-----------------------------------------------------------------------------
(* Substitution.                                                           *)

\* /\$\bKEY\b/ matches at a reference to KEY, and at one that goes on after KEY
\* with a hyphen.
Matches(piece, key) == piece.ref /\ IsPrefix(key, piece.words)

\* What is left of the reference behind the match, as literal text.
Rest(piece, key) ==
    IF Len(piece.words) = Len(key) THEN <<>>
    ELSE << [ref |-> FALSE,
             words |-> SubSeq(piece.words, Len(key) + 1, Len(piece.words))] >>

\* What String.replace() does not insert as it stands; the last two are a dollar
\* with a backquote and one with a quote.
Patterns == {Lit("$$"), Lit("$&"), Lit("$before"), Lit("$behind")}

\* What it inserts for a piece of the value: a dollar, the match, what is before
\* it, what is behind it, or the piece.
Inserted(piece, key, before, behind) ==
    CASE piece = Lit("$$") -> <<Lit("$")>>
      [] piece = Lit("$&") -> <<Ref(key)>>
      [] piece = Lit("$before") -> before
      [] piece = Lit("$behind") -> behind
      [] OTHER -> <<piece>>

\* string.replace(regex, value): the first match only.
Replace(text, param) ==
    LET matching == {i \in DOMAIN text : Matches(text[i], param.name)}
        first == CHOOSE i \in matching : \A j \in matching : i <= j
        before == SubSeq(text, 1, first - 1)
        behind == Rest(text[first], param.name)
                  \o SubSeq(text, first + 1, Len(text))
        value == [i \in DOMAIN param.value |->
                     Inserted(param.value[i], param.name, before, behind)]
    IN IF matching = {} THEN text
       ELSE before \o FlattenSeq(value) \o behind

\* substituteParams(): one parameter after the other, in their order.
SubstituteParams(text, params) ==
    LET after[i \in 0 .. Len(params)] ==
            IF i = 0 THEN text ELSE Replace(after[i - 1], params[i])
    IN after[Len(params)]

-----------------------------------------------------------------------------
(* The node configs.                                                       *)

\* Object.assign(): where both have a value, that of the source is taken.
Assigned(target, source) ==
    [key \in DOMAIN target \cup DOMAIN source |->
        IF key \in DOMAIN source THEN source[key] ELSE target[key]]

\* Mutated: the arguments of Object.assign() swapped.
DefsTemplateWins(template, nodeConfig) ==
    Assigned(nodeConfig.defs, template.defs)

\* Object.assign(template.defs || {}, nodeConfig.defs || {})
Defs(template, nodeConfig) == Assigned(template.defs, nodeConfig.defs)

\* The -D arguments, those with a blank value left out.
DefArgs(defs, params) ==
    LET value(key) == SubstituteParams(defs[key], params)
    IN [key \in {k \in DOMAIN defs : value(k) # <<>>} |-> value(key)]

\* Mutated: the capabilities as they are in the template.
CapabilitiesRaw(template, params) == template.capabilities

Capabilities(template, params) ==
    [key \in DOMAIN template.capabilities |->
        SubstituteParams(template.capabilities[key], params)]

Command(template, nodeConfig) ==
    LET params == Params(template, nodeConfig)
    IN [defs |-> DefArgs(Defs(template, nodeConfig), params),
        capabilities |-> Capabilities(template, params)]

\* A node config that main() does not exit over.
Acceptable(nodeConfig) ==
    /\ nodeConfig.template \in DOMAIN templates
    /\ ParamsGiven(templates[nodeConfig.template], nodeConfig)

\* One round of the loop.  Object.assign() writes into its first argument, the
\* defs object of the template if it has one.
ProcessNode ==
    /\ phase = "reading"
    /\ next <= Len(config)
    /\ Acceptable(config[next])
    /\ LET name == config[next].template
           template == templates[name]
       IN /\ commands' = Append(commands, Command(template, config[next]))
          /\ templates' = IF template.hasDefs
                THEN [templates EXCEPT ![name].defs =
                         Defs(template, config[next])]
                ELSE templates
    /\ next' = next + 1
    /\ UNCHANGED <<config, time, timer, phase>>

\* Mutated: the bad entry is left out.
SkipNode ==
    /\ phase = "reading"
    /\ next <= Len(config)
    /\ ~ Acceptable(config[next])
    /\ next' = next + 1
    /\ UNCHANGED <<config, time, templates, commands, timer, phase>>

\* getTemplate() or requiredParam() exits.
RejectNode ==
    /\ phase = "reading"
    /\ next <= Len(config)
    /\ ~ Acceptable(config[next])
    /\ phase' = "exit"
    /\ UNCHANGED <<config, time, templates, next, commands, timer>>

-----------------------------------------------------------------------------
(* The daily restart.                                                      *)

Day == Hours * Minutes * Millis

ValidTime(t) == Len(t) = 2 /\ t[1] \in 0 .. Hours - 1 /\ t[2] \in 0 .. Minutes - 1

\* When in its day a time is.
Moment(t) == (t[1] * Minutes + t[2]) * Millis

\* Mutated: at the very moment of the restart the next one is now.
MsUntilOccurrence(t, now) ==
    IF Moment(t) < now THEN Moment(t) + Day - now ELSE Moment(t) - now

\* getMsUntilNextOccurrence() so late in the day.
MsUntilNextOccurrence(t, now) ==
    IF Moment(t) <= now THEN Moment(t) + Day - now ELSE Moment(t) - now

\* getMsUntilNextOccurrence() exits.
RejectTime ==
    /\ phase = "reading"
    /\ next > Len(config)
    /\ time # NoTime /\ ~ ValidTime(time)
    /\ phase' = "exit"
    /\ UNCHANGED <<config, time, templates, next, commands, timer>>

\* All commands are built and the timer is set; nothing has been launched
\* before.
LaunchAll ==
    /\ phase = "reading"
    /\ next > Len(config)
    /\ \/ time = NoTime /\ UNCHANGED timer
       \/ /\ ValidTime(time)
          /\ \E now \in 0 .. Day - 1 :
                timer' = [now   |-> now,
                          delay |-> MsUntilNextOccurrence(time, now)]
    /\ phase' = "launched"
    /\ UNCHANGED <<config, time, templates, next, commands>>

Next == ProcessNode \/ RejectNode \/ RejectTime \/ LaunchAll

Spec == Init /\ [][Next]_vars

-----------------------------------------------------------------------------
(* The reference: what node-templates.md and shaka-lab-node-config.md say. *)

\* The value of each variable: what the node config gives, or the default of
\* an optional parameter; the built-in ones are blank.
Values(template, nodeConfig) ==
    LET params == template.params
        names == {params[i].name : i \in DOMAIN params}
        default(name) == params[CHOOSE i \in DOMAIN params :
                                    params[i].name = name].default
    IN [name \in names \cup {<<"exe">>, <<"cmd">>} |->
            IF name \notin names THEN <<>>
            ELSE IF name \in DOMAIN nodeConfig.params
            THEN nodeConfig.params[name] ELSE default(name)]

\* Every reference replaced by the value of the variable of exactly its name.
Expanded(text, values) ==
    FlattenSeq([i \in DOMAIN text |->
        IF text[i].ref /\ text[i].words \in DOMAIN values
        THEN values[text[i].words] ELSE <<text[i]>>])

\* The definitions a node gets: its own, and those of the template file that it
\* does not override, blank ones left out.
DocumentedDefs(nodeConfig) ==
    LET template == TemplateFile[nodeConfig.template]
        keys == DOMAIN template.defs \cup DOMAIN nodeConfig.defs
        value == [k \in keys |-> Expanded(
            IF k \in DOMAIN nodeConfig.defs THEN nodeConfig.defs[k]
                                            ELSE template.defs[k],
            Values(template, nodeConfig))]
    IN [k \in {key \in keys : value[key] # <<>>} |-> value[k]]

\* What is filled in as it is documented: a text that does not refer to one
\* variable twice, nor to one whose name goes on after that of a parameter ...
Fillable(text, params) ==
    /\ text \in Seq(Range(text))
    /\ \A i \in DOMAIN text : text[i].ref =>
          /\ \A j \in DOMAIN params : IsPrefix(params[j].name, text[i].words) =>
                params[j].name = text[i].words
          /\ \A j \in DOMAIN text :
                text[j].ref /\ text[j].words = text[i].words => j = i

\* What stays as it is wherever it is put.
Literal(piece) == ~ piece.ref /\ piece \notin Patterns

\* ... with parameters of different names, whose values refer to none and hold
\* no pattern of String.replace(): "pa$$word" is not given on as it is.
Distinct(params) ==
    \A i, j \in DOMAIN params :
        /\ params[i].name = params[j].name => i = j
        /\ LET value == params[i].value
           IN value \in Seq({piece \in Range(value) : Literal(piece)})

\* A configuration that asks for nothing else.
Plain(c) ==
    \A i \in DOMAIN c : c[i].template \in DOMAIN TemplateFile =>
        LET template == TemplateFile[c[i].template]
            params == Params(template, c[i])
            defs == Defs(template, c[i])
        IN /\ Distinct(params)
           /\ \A key \in DOMAIN template.capabilities :
                 Fillable(template.capabilities[key], params)
           /\ \A key \in DOMAIN defs : Fillable(defs[key], params)

\* One that overrides nothing in a template that is instantiated again later.
Separate(c) ==
    \A i, j \in DOMAIN c :
        i < j /\ c[i].template = c[j].template
              /\ c[i].template \in DOMAIN TemplateFile
            => ~ TemplateFile[c[i].template].hasDefs \/ DOMAIN c[i].defs = {}

\* A node's definitions are those of its template and of its own config, the
\* parameters filled in, whatever nodes are configured before it
\* (shaka-lab-node-config.md:182, node-templates.md:89-92).
DefsAsDocumented ==
    \A i \in DOMAIN commands : commands[i].defs = DocumentedDefs(config[i])

\* The capabilities a node declares to the hub are those of its template with
\* the parameters filled in (start-nodes.js:477-484).
CapabilitiesAsDocumented ==
    \A i \in DOMAIN commands :
        LET template == TemplateFile[config[i].template]
        IN commands[i].capabilities =
            [k \in DOMAIN template.capabilities |->
                Expanded(template.capabilities[k], Values(template, config[i]))]

\* Nodes are launched for the whole configuration or not at all: one bad entry,
\* or a bad time of the daily restart, keeps the good ones before it from being
\* launched too (start-nodes.js:83-126, 163-176, 399-493).
AllOrNothing ==
    phase = "launched" =>
        /\ Len(commands) = Len(config)
        /\ \A i \in DOMAIN config :
              /\ config[i].template \in DOMAIN TemplateFile
              /\ ParamsGiven(TemplateFile[config[i].template], config[i])
        /\ time = NoTime \/ ValidTime(time)

\* The time as the clock shows it.
Shows(moment) == moment % Day = Moment(time)

\* The restart comes when the clock next shows the configured time, and not
\* before: so once a day, also if the launcher is there again within the
\* moment of its restart (start-nodes.js:157-158, shaka-lab-node-config.md:59).
RestartOnTime ==
    phase = "launched" /\ time # NoTime =>
        /\ timer.delay > 0
        /\ Shows(timer.now + timer.delay)
        /\ \A early \in 1 .. timer.delay - 1 : ~ Shows(timer.now + early)
=============================================================================
