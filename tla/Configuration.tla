--------------------------- MODULE Configuration ---------------------------
(* The configuration file as the two sides read it: ConfigurationManager   *)
(* in the daemon (daemon/src/configuration_manager.cpp, through the        *)
(* FilePersistenceManager, see Persistence), ConfigurationReader in the    *)
(* clients (shared/configuration_reader.cpp).                              *)
(*                                                                         *)
(* Of wordexp, the expansion of "~" and the loss of the blanks between     *)
(* words are modelled.  Lookups as numbers or log levels are left out:     *)
(* nothing modelled depends on them.                                       *)
EXTENDS PackageText

Home == <<"/", "home", "/">>

(* getKeyPair: namespace and identifier.                                   *)
KeyPair(key) == IF Has(key, ".") THEN <<Before(key, "."), After(key, ".")>> ELSE <<NoText, key>>

Entry(line) == <<KeyPair(KeyValue(line)[1]), KeyValue(line)[2]>>

(* retrieveEntries of the client: comments become keys that nobody asks    *)
(* for.                                                                    *)
ClientEntries(lines) == Map([i \in DOMAIN lines |-> Entry(lines[i])])

(* The daemon skips blank lines and comments.                              *)
IsComment(line) == Trimmed(line) = NoText \/ Head(Trimmed(line)) = "#"

DaemonEntries(lines) == ClientEntries(SelectSeq(lines, LAMBDA line : ~IsComment(line)))

General(identifier) == <<<<"general">>, <<identifier>>>>

(* retrieve.                                                               *)
Retrieve(entries, identifier, default) ==
  IF General(identifier) \in DOMAIN entries THEN entries[General(identifier)] ELSE default

Expanded(path) ==
  LET words == SelectSeq(path, LAMBDA sign : sign # Blank)
  IN  IF words # NoText /\ Head(words) = "~"
      THEN Home \o SubSeq(words, IF Len(words) > 1 /\ words[2] = "/" THEN 3 ELSE 2, Len(words))
      ELSE words

(* retrieveAsPath without a default value: what is relative is put behind  *)
(* the working directory as it is written, with no "/" between them.       *)
RetrieveAsPath(entries, identifier, workingDir) ==
  IF General(identifier) \notin DOMAIN entries THEN NoText
  ELSE LET path == Expanded(entries[General(identifier)])
       IN  IF path # NoText /\ Head(path) = "/" THEN path ELSE workingDir \o path

ClientWorkingDir(lines) == RetrieveAsPath(ClientEntries(lines), "working-dir", NoText)

(* The working directory of the daemon's process.                          *)
DaemonWorkingDir(lines) == RetrieveAsPath(DaemonEntries(lines), "working-dir", NoText)

(* Where each side looks for the network specification.  The daemon does   *)
(* not expand the name, and has a default for it.                          *)
ClientNetSpec(lines) ==
  RetrieveAsPath(ClientEntries(lines), "net-spec", ClientWorkingDir(lines))

DaemonNetSpec(lines) ==
  LET name == Retrieve(DaemonEntries(lines), "net-spec", <<"net-spec.yml">>)
      dir == DaemonWorkingDir(lines)
  IN  IF name # NoText /\ Head(name) = "/" THEN name
      ELSE IF Last(dir) = "/" THEN dir \o name ELSE dir \o <<"/">> \o name
=============================================================================
