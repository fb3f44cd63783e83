---------------------------- MODULE CommandLine ----------------------------
(* From a line that is typed at the CLI controller                         *)
(* (controllers/cli-controller: Controller, CommandParser) through the     *)
(* daemon (PackageRouter) to the renderer that carries the command out,    *)
(* and the way of the acknowledgement back.  The CLI and the daemon each   *)
(* find and read the network specification: the CLI to know commands and   *)
(* parameters, the daemon whom it allows what and where it goes.           *)
(*                                                                         *)
(* Abstracted: one CLI, and one renderer, which is the focused one; the    *)
(* wire (see Connection); the numbers of packages but for the one the CLI  *)
(* waits for; what commands do that do not go to a renderer: they are      *)
(* acknowledged, or not answered at all; completion and help; options by   *)
(* one letter.  An entry of the specification is a record of what is read  *)
(* of it; NoTarget stands for a target that is missing.                    *)
EXTENDS Configuration

CONSTANTS
  Configurations,   \* configuration files: sequences of lines
  SpecFiles,        \* what the file may hold: sequences of entries
  SpecPath,         \* where it is
  Lines,            \* what is typed: sequences of words
  MaxLines,         \* bound: lines typed
  NoTarget

Texts == Seq(STRING)

(* A name is a word, and no sign of the two formats.                       *)
IsName(text) == Len(text) = 1 /\ text[1] \notin {Blank, "=", "{"}

Parameters == [name : Texts, type : STRING, required : BOOLEAN]

Entries ==
  [command : Texts, source : Seq(STRING), target : {NoTarget} \cup Texts, described : BOOLEAN,
   parameters : Seq(Parameters)]

ASSUME SpecIsWellFormed ==
  \A file \in SpecFiles :
    /\ file \in Seq(Entries)
    /\ \A i \in DOMAIN file :
         /\ IsName(file[i].command)
         /\ \A j \in DOMAIN file[i].parameters : IsName(file[i].parameters[j].name)

ASSUME LinesAreWords == \A line \in Lines : line \in Seq(Texts) /\ line # <<>>

VARIABLES
  config, spec,     \* the files
  commands,         \* the entries that the CLI has read
  routes,           \* the entries that the daemon has read
  cli,              \* "waiting" for an acknowledgement, or "prompt"
  held,             \* command -> what its options hold (CommandParser)
  number,           \* the number of the last line that was typed
  asked,            \* the id the CLI waits for
  toDaemon, toRenderer, toController,   \* serialised packages; NoLines if none
  answer,           \* the acknowledgement of the renderer
  job,              \* the id of a command that the renderer has to
                    \* acknowledge; NoText if none
  received,         \* the package the renderer has got last; NoKeys if none
  typed,            \* history: the last line of which a package was made
  refused           \* history: commands with a line that was refused for an
                    \* option, and none after it that was not

files == <<config, spec, commands, routes>>
client == <<cli, held, number, asked>>
wires == <<toDaemon, toRenderer, toController, answer>>
history == <<typed, refused>>
vars == <<files, client, wires, job, received, history>>

(* Texts of numbers; the daemon gives forwarded packages numbers of its    *)
(* own.                                                                    *)
Id(n) == <<ToString(n)>>
ForwardedId == <<"forwarded">>

Fields(pairs) == Serialized(Map(pairs))

NoLines == {}
-----------------------------------------------------------------------------
(* The two sides read the specification.                                   *)

(* parseSpecFile; without the file, quit, which has no effect before the   *)
(* event loop.                                                             *)
ReadByClient == IF ClientNetSpec(config) = SpecPath THEN spec ELSE <<>>

(* The daemon reads the specification: the constructor of PackageRouter.   *)
(* An entry without a target raises an exception, which ends the reading.  *)
ReadByDaemon ==
  LET missing == {i \in DOMAIN spec : spec[i].target = NoTarget}
  IN  IF DaemonNetSpec(config) # SpecPath THEN <<>>
      ELSE IF missing = {} THEN spec ELSE SubSeq(spec, 1, Min(missing) - 1)
-----------------------------------------------------------------------------
(* What the CLI has made of it.                                            *)

(* The first entry of a command that names the controller as a source.     *)
EntriesOf(command) ==
  {i \in DOMAIN commands :
     commands[i].command = command /\ "controller" \in ToSet(commands[i].source)}

Offered == {entry.command : entry \in {e \in ToSet(commands) : "controller" \in ToSet(e.source)}}

EntryOf(command) == commands[Min(EntriesOf(command))]

(* The constructor of CommandParser: without a description the exception   *)
(* is caught before any parameter is read.                                 *)
ParametersOf(command) ==
  IF EntryOf(command).described THEN EntryOf(command).parameters ELSE <<>>

IdKey == [renderer |-> <<"renderer-id">>, viewer |-> <<"viewer-id">>, view |-> <<"view-id">>]

IdTypes == DOMAIN IdKey

(* An option for an id is named for its type, whatever the name of the     *)
(* parameter is.                                                           *)
OptionName(parameter) ==
  IF parameter.type \in IdTypes THEN <<parameter.type>> ELSE parameter.name

IsWord(parameter) == parameter.required /\ parameter.type \notin IdTypes \cup {"boolean"}

OptionParameters(parameters) == {p \in ToSet(parameters) : ~IsWord(p)}

OptionsOf(parameters) == {OptionName(p) : p \in OptionParameters(parameters)}

FlagsOf(parameters) ==
  {p.name : p \in {q \in OptionParameters(parameters) : q.type = "boolean"}}

(* The places of the parameters that are words; the words of a line are    *)
(* for them in their order.                                                *)
WordsOf(parameters) == {i \in DOMAIN parameters : IsWord(parameters[i])}

WordFor(parameters, place) == Cardinality({i \in WordsOf(parameters) : i <= place})

IdsOf(parameters) == {p.type : p \in OptionParameters(parameters)} \cap IdTypes

(* What an option holds that is not set: no word that is typed.            *)
Unset == <<"unset">>

Cleared(parameters) == [option \in OptionsOf(parameters) |-> Unset]

(* Mutant: the flags stay.                                                 *)
ResetKeepsFlags(parameters, options) ==
  [option \in OptionsOf(parameters) |->
     IF option \in FlagsOf(parameters) THEN options[option] ELSE Unset]

Reset(parameters, options) == Cleared(parameters)
-----------------------------------------------------------------------------
(* A line is read.                                                         *)

IsOption(word) == word # NoText /\ Head(word) = "--"

(* poptGetNextOpt goes through the whole line, and stops at an option that *)
(* the command does not have.  `pending` is an option that wants a value:  *)
(* the next word, whatever it is.                                          *)
Step(parameters, reading, word) ==
  LET option == Tail(word)
      stored(name, value) == [reading.options EXCEPT ![name] = value]
  IN  CASE reading.bad -> reading
        [] ~reading.bad /\ reading.pending # NoText ->
             [reading EXCEPT !.options = stored(reading.pending, word), !.pending = NoText]
        [] ~reading.bad /\ reading.pending = NoText /\ ~IsOption(word) ->
             [reading EXCEPT !.words = Append(@, word)]
        [] ~reading.bad /\ reading.pending = NoText /\ IsOption(word) ->
             IF option \notin OptionsOf(parameters) THEN [reading EXCEPT !.bad = TRUE]
             ELSE IF option \in FlagsOf(parameters)
             THEN [reading EXCEPT !.options = stored(option, NoText)]
             ELSE [reading EXCEPT !.pending = option]

Reading(parameters, words, options) ==
  LET read[n \in 0..Len(words)] ==
        IF n = 0
        THEN [options |-> options, words |-> <<>>, pending |-> NoText, bad |-> FALSE]
        ELSE Step(parameters, read[n - 1], words[n])
  IN  read[Len(words)]

(* An option at the end of the line that wants a value is bad as well.     *)
Refused(reading) == reading.bad \/ reading.pending # NoText

Complete(parameters, reading) == Len(reading.words) >= Cardinality(WordsOf(parameters))

(* The map of the package: what is inserted first stays.                   *)
Given(parameters, options) ==
  {option \in OptionsOf(parameters) : options[option] # Unset}

IdOf(options, type) == IF options[<<type>>] = Unset THEN <<"focused">> ELSE options[<<type>>]

ConstructPackage(command, parameters, reading, id) ==
  LET place(name) == Min({i \in WordsOf(parameters) : parameters[i].name = name})
      words == [name \in {parameters[i].name : i \in WordsOf(parameters)} |->
                  reading.words[WordFor(parameters, place(name))]]
      named == [option \in Given(parameters, reading.options) \ {<<type>> : type \in IdTypes} |->
                  reading.options[option]]
      ids == [key \in {IdKey[type] : type \in IdsOf(parameters)} |->
                IdOf(reading.options, CHOOSE type \in IdTypes : IdKey[type] = key)]
      first == <<<<<<"type">>, <<"command">>>>, <<<<"id">>, id>>, <<<<"command">>, command>>>>
  IN  Inserted(Inserted(Inserted(Map(first), words), named), ids)

Ask(map) ==
  /\ toDaemon' = Serialized(map)
  /\ asked' = map[<<"id">>]
  /\ cli' = "waiting"

(* The constructor of Controller: initialize.                              *)
Init ==
  /\ config \in Configurations
  /\ spec \in SpecFiles
  /\ commands = ReadByClient /\ routes = ReadByDaemon
  /\ cli = "waiting" /\ number = 0 /\ asked = Id(0)
  /\ held = [command \in Offered |-> Cleared(ParametersOf(command))]
  /\ toDaemon = Fields(<<<<<<"type">>, <<"connection-management">>>>, <<<<"id">>, Id(0)>>,
                        <<<<"command">>, <<"initialize">>>>, <<<<"can-handle-requests">>, NoText>>>>)
  /\ toRenderer = NoLines /\ toController = NoLines /\ answer = NoLines
  /\ job = NoText /\ received = NoKeys
  /\ typed = <<>> /\ refused = {}

(* handleLine takes a number before the parser looks at the line.  (A      *)
(* command that is not offered changes nothing.)                           *)
HandleLine(line) ==
  /\ cli = "prompt" /\ number < MaxLines
  /\ Head(line) \in Offered
  /\ number' = number + 1
  /\ UNCHANGED <<files, toRenderer, toController, answer, job>>

LineRefused(line) ==
  LET command == Head(line)
      parameters == ParametersOf(command)
      reading == Reading(parameters, Tail(line), held[command])
  IN  /\ HandleLine(line)
      /\ Refused(reading)
      /\ held' = [held EXCEPT ![command] = reading.options]
      /\ refused' = refused \cup {command}
      /\ UNCHANGED <<cli, asked, toDaemon, received, typed>>

LineIncomplete(line) ==
  LET command == Head(line)
      parameters == ParametersOf(command)
      reading == Reading(parameters, Tail(line), held[command])
  IN  /\ HandleLine(line)
      /\ ~Refused(reading) /\ ~Complete(parameters, reading)
      /\ held' = [held EXCEPT ![command] = Reset(parameters, reading.options)]
      /\ refused' = refused \ {command}
      /\ UNCHANGED <<cli, asked, toDaemon, received, typed>>

LineSent(line) ==
  LET command == Head(line)
      parameters == ParametersOf(command)
      reading == Reading(parameters, Tail(line), held[command])
      package == ConstructPackage(command, parameters, reading, Id(number'))
  IN  /\ HandleLine(line)
      /\ ~Refused(reading) /\ Complete(parameters, reading)
      /\ held' = [held EXCEPT ![command] = Reset(parameters, reading.options)]
      /\ Ask(package)
      /\ received' = NoKeys
      /\ typed' = <<[line |-> line, package |-> package, clean |-> command \notin refused]>>
      /\ refused' = refused \ {command}

(* The acknowledgement that was waited for brings the prompt back.         *)
HandlePackage ==
  /\ toController # NoLines
  /\ toController' = NoLines
  /\ cli' = IF ValueOf(Parsed(toController), <<"id">>) = asked THEN "prompt" ELSE cli
  /\ UNCHANGED <<files, held, number, asked, toDaemon, toRenderer, answer, job, received, history>>
-----------------------------------------------------------------------------
(* Mutant: the first source only.                                          *)
AllowedByFirstSource == {entry.command : entry \in {e \in ToSet(routes) : Head(e.source) = "controller"}}

AllowedControllerCommands ==
  {entry.command : entry \in {e \in ToSet(routes) : "controller" \in ToSet(e.source)}}

(* stringToServerComponent, and the components that routeJob knows.        *)
Components ==
  {<<name>> : name \in {"decision-maker", "display-manager", "configuration-manager",
                        "persistence-manager", "hosts-manager", "server-controller",
                        "renderer-host"}}

ASSUME NoTargetIsNone == NoTarget \notin Components

RoutingTable ==
  Map([i \in DOMAIN routes |-> <<routes[i].command, routes[i].target>>])

Target(package) == ValueOf(RoutingTable, ValueOf(package, <<"command">>))
-----------------------------------------------------------------------------
(* processPackage of the host, isAllowed, and routeJob.                    *)
Acknowledgement(id, error) ==
  Fields(<<<<<<"type">>, <<"ack">>>>, <<<<"id">>, id>>>> \o
         (IF error = NoText THEN <<>> ELSE <<<<<<"error">>, error>>>>))

Read ==
  /\ toDaemon # NoLines
  /\ toDaemon' = NoLines
  /\ UNCHANGED <<files, client, answer, received, history>>

Acknowledge(package, error) ==
  /\ toController' = Acknowledgement(package[<<"id">>], error)
  /\ UNCHANGED <<toRenderer, job>>

Allowed(package) == ValueOf(package, <<"command">>) \in AllowedControllerCommands

Initialize ==
  LET package == Parsed(toDaemon) IN
    /\ Read
    /\ IsValid(package) /\ IsOfType(package, "connection-management")
    /\ Acknowledge(package, NoText)

Forbid ==
  LET package == Parsed(toDaemon) IN
    /\ Read
    /\ IsValid(package) /\ IsOfType(package, "command")
    /\ ~Allowed(package)
    /\ Acknowledge(package, <<"forbidden">>)

RouteNowhere ==
  LET package == Parsed(toDaemon) IN
    /\ Read
    /\ IsValid(package) /\ IsOfType(package, "command") /\ Allowed(package)
    /\ Target(package) \notin Components
    /\ Acknowledge(package, <<"unknown">>)

(* Some components acknowledge a command, as done or as failed; some, or   *)
(* sometimes, do not answer.                                               *)
RouteElsewhere ==
  LET package == Parsed(toDaemon) IN
    /\ Read
    /\ IsValid(package) /\ IsOfType(package, "command") /\ Allowed(package)
    /\ Target(package) \in Components \ {<<"renderer-host">>}
    /\ \/ \E error \in {NoText, <<"failed">>} : Acknowledge(package, error)
       \/ UNCHANGED <<toController, toRenderer, job>>

RouteToRenderer ==
  LET package == Parsed(toDaemon) IN
    /\ Read
    /\ IsValid(package) /\ IsOfType(package, "command") /\ Allowed(package)
    /\ Target(package) = <<"renderer-host">>
    /\ IF ValueOf(package, <<"renderer-id">>) = <<"focused">>
       THEN /\ toRenderer' = Serialized([package EXCEPT ![<<"id">>] = ForwardedId])
            /\ job' = package[<<"id">>]
            /\ UNCHANGED toController
       ELSE Acknowledge(package, <<"missing", Blank, "renderer", Blank, "id">>)

(* handleCommand of the renderer: what it needs for a command.             *)
Needs == [key \in {<<"open-uri">>, <<"search-in-page">>} |->
            IF key = <<"open-uri">> THEN <<"uri">> ELSE <<"text">>]

Known == DOMAIN Needs \cup {<<"reload-page">>, <<"go-back">>, <<"go-forward">>}

IsInvalid(package) ==
  LET command == ValueOf(package, <<"command">>)
  IN  command \notin Known \/ (command \in DOMAIN Needs /\ ~HasValue(package, Needs[command]))

(* A search may also find nothing.                                         *)
RendererReads ==
  /\ toRenderer # NoLines
  /\ received' = Parsed(toRenderer)
  /\ toRenderer' = NoLines
  /\ \E error \in {NoText, <<"invalid">>, <<"failed">>} :
       /\ error = <<"invalid">> <=> IsInvalid(received')
       /\ error = <<"failed">> => ValueOf(received', <<"command">>) = <<"search-in-page">>
       /\ answer' = Acknowledgement(ForwardedId, error)
  /\ UNCHANGED <<files, client, toDaemon, toController, job, history>>

(* The renderer's acknowledgement completes the job.  The error in it is   *)
(* not passed on: the command is acknowledged as done.                     *)
JobDone ==
  /\ answer # NoLines
  /\ IsOfType(Parsed(answer), "ack") /\ job # NoText
  /\ toController' = Acknowledgement(job, NoText)
  /\ job' = NoText
  /\ answer' = NoLines
  /\ UNCHANGED <<files, client, toDaemon, toRenderer, received, history>>
-----------------------------------------------------------------------------
Next ==
  \/ \E line \in Lines : LineRefused(line) \/ LineIncomplete(line) \/ LineSent(line)
  \/ HandlePackage
  \/ Initialize \/ Forbid \/ RouteNowhere \/ RouteElsewhere \/ RouteToRenderer
  \/ RendererReads \/ JobDone

Spec == Init /\ [][Next]_vars
-----------------------------------------------------------------------------
(* Properties.                                                             *)

(* A package is what its line alone says, as a parser reads it that has    *)
(* read no other: the options of a command, which all its lines share,     *)
(* pass nothing on (constructPackageFromLine, reset), except after a line  *)
(* of the same command that was refused for an option.                     *)
PackageIsItsLine ==
  \A t \in ToSet(typed) :
    t.clean =>
      LET command == Head(t.line)
          parameters == ParametersOf(command)
          reading == Reading(parameters, Tail(t.line), Cleared(parameters))
      IN  t.package = ConstructPackage(command, parameters, reading, t.package[<<"id">>])

(* What was typed is what the renderer gets, but for blanks around it:     *)
(* signs in a value that mean something in a serialised package change     *)
(* nothing on the way through two of them (serialize,                      *)
(* constructKeyValueMap, at either end).                                   *)
WhatIsTypedArrives ==
  received # NoKeys =>
    LET sent == Last(typed).package
    IN  /\ DOMAIN received = DOMAIN sent
        /\ \A key \in DOMAIN sent \ {<<"id">>} : received[key] = Trimmed(sent[key])

(* The daemon takes every command that the CLI offers, if both have found  *)
(* the specification and all of its targets are known (parseSpecFile,      *)
(* PackageRouter, isAllowed, routeJob).                                    *)
ReadByBoth ==
  /\ DaemonNetSpec(config) = SpecPath
  /\ \A i \in DOMAIN spec : spec[i].target \in Components

OfferedIsAccepted ==
  ReadByBoth => ValueOf(Parsed(toController), <<"error">>) \notin {<<"forbidden">>, <<"unknown">>}
=============================================================================
