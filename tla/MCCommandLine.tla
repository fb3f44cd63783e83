--------------------------- MODULE MCCommandLine ---------------------------
(* A network specification in the likeness of net-spec.yml, whole and with *)
(* faults, and five configuration files.                                   *)
EXTENDS CommandLine

Path == <<"/", "w", "/", "net-spec.yml">>

WorkingDirs == {<<"/", "w", "/">>, <<"/", "w">>}

Files ==
  {<< <<"#", "general", ".", "working-dir", "=", "/">>, <<>>,
      <<"general", ".", "working-dir", "=">> \o dir,
      <<"general", ".", "net-spec", Blank, "=", Blank>> \o name >> :
     dir \in WorkingDirs, name \in {<<"net-spec.yml">>, Path}}
  \cup {<< <<"general", ".", "working-dir", "=">> \o <<"/", "w", "/">> >>}

Renderer == [name |-> <<"renderer-id">>, type |-> "renderer", required |-> TRUE]
Text == [name |-> <<"text">>, type |-> "string", required |-> TRUE]
Backwards == [name |-> <<"backwards">>, type |-> "boolean", required |-> FALSE]
Engine == [name |-> <<"engine">>, type |-> "string", required |-> FALSE]

Search ==
  [command |-> <<"search-in-page">>, source |-> <<"renderer", "controller">>, target |-> <<"renderer-host">>,
   described |-> TRUE, parameters |-> <<Renderer, Text, Backwards>>]
Spawn ==
  [command |-> <<"spawn-renderer">>, source |-> <<"controller">>, target |-> <<"hosts-manager">>,
   described |-> TRUE, parameters |-> <<Engine>>]
ForRenderers == [Spawn EXCEPT !.source = <<"renderer">>]

NetSpecs ==
  {<<Search, Spawn>>, <<ForRenderers, Search, [Spawn EXCEPT !.described = FALSE]>>,
   <<[Spawn EXCEPT !.target = NoTarget], Search>>, <<Spawn, [Search EXCEPT !.target = <<"nowhere">>]>>}

Typed ==
  {<<<<"search-in-page">>>> \o words : words \in
     {<<>>, << <<"a", "=", "b">> >>, << <<"--", "backwards">>, <<Blank, "{", "a", "}">> >>,
      << <<"--", "backwards">>, <<"--", "forwards">> >>, << <<"--", "renderer">> >>,
      << <<"--", "renderer">>, <<"7">>, <<"=">> >> }}
  \cup {<<<<"spawn-renderer">>>> \o words : words \in {<<>>, << <<"--", "engine">>, <<"a">> >>}}
=============================================================================
