------------------------------- MODULE Startup -------------------------------
(***************************************************************************)
(* Which settings a start of the program uses: the command line, the       *)
(* environment and config.yaml, which main resolves, creates if there is   *)
(* none, and loads; and /api, which edits one line of that file in place,  *)
(* keeping its comments, for the next start.  Two settings stand for all:  *)
(* "provider" is a top-level key, "model" is a key of the api block, like  *)
(* the key, the URL and the fallback model.                                *)
(***************************************************************************)
EXTENDS Integers, Sequences, FiniteSetsExt

CONSTANTS
  Values,     \* values a setting is given
  BadValues,  \* those with a double quote: a line that has one cannot be read
  NoValue,    \* a setting that is not given
  MaxLines    \* bound: lines of config.yaml

Setting == {"provider", "model"}

(* A line by its indentation, its key and its value; a blank line or a     *)
(* comment has the key "#".                                                *)
L(indented, key, value) == [indented |-> indented, key |-> key, value |-> value]

Shipped == CHOOSE v \in Values : v \notin BadValues

(* kDefaultConfigYaml.                                                     *)
DefaultFile ==
  <<L(FALSE, "#", NoValue), L(FALSE, "provider", Shipped),
    L(FALSE, "api", NoValue), L(TRUE, "base_url", Shipped),
    L(TRUE, "model", Shipped), L(FALSE, "llm", NoValue),
    L(TRUE, "model", Shipped)>>

(* What users make of it: no api block, an api block without the key, a    *)
(* comment inside the block, a key of the same name in another block, or   *)
(* no file at all.                                                         *)
UsersFiles ==
  {<<>>, DefaultFile,
   <<L(FALSE, "llm", NoValue), L(TRUE, "model", Shipped)>>,
   <<L(FALSE, "api", NoValue), L(FALSE, "#", NoValue), L(TRUE, "model", Shipped)>>,
   <<L(FALSE, "provider", Shipped), L(FALSE, "llm", NoValue),
     L(TRUE, "model", Shipped), L(FALSE, "api", NoValue)>>}

-----------------------------------------------------------------------------
(* The scan of writeYamlValue: a key counts in the api block only, up to   *)
(* the next key that is not indented.                                      *)
InApi(lines, i) ==
  \E a \in 1..(i - 1) :
    /\ lines[a].key = "api" /\ ~lines[a].indented
    /\ \A k \in (a + 1)..i : lines[k].indented \/ lines[k].key = "#"

LinesOf(lines, setting) ==
  {i \in DOMAIN lines :
     /\ lines[i].key = setting
     /\ IF setting = "model" THEN lines[i].indented /\ InApi(lines, i)
                             ELSE ~lines[i].indented}

ApiLines(lines) == {i \in DOMAIN lines : lines[i].key = "api"
                                         /\ ~lines[i].indented}

WithLine(lines, setting, value) ==
  LET new == L(setting = "model", setting, value) IN
  CASE LinesOf(lines, setting) # {} ->
         [lines EXCEPT ![Min(LinesOf(lines, setting))] = new]
    [] LinesOf(lines, setting) = {} /\ setting # "model" -> Append(lines, new)
    [] LinesOf(lines, setting) = {} /\ setting = "model" ->
         IF ApiLines(lines) # {}
         THEN LET api == Min(ApiLines(lines)) IN
              Append(SubSeq(lines, 1, api), new) \o SubSeq(lines, api + 1, Len(lines))
         ELSE lines \o <<L(FALSE, "api", NoValue), new>>

(* A writer that does not look which block it is in.                       *)
WithAnyLine(lines, setting, value) ==
  LET at == {i \in DOMAIN lines : lines[i].key = setting} IN
  IF at = {} THEN Append(lines, L(setting = "model", setting, value))
             ELSE [lines EXCEPT ![Min(at)].value = value]

WriteYamlValue(lines, setting, value) == WithLine(lines, setting, value)

Readable(lines) == \A i \in DOMAIN lines : lines[i].value \notin BadValues

(* Config::load and getString: nothing of a file that does not parse.      *)
Loaded(lines, setting) ==
  IF Readable(lines) /\ LinesOf(lines, setting) # {}
  THEN lines[Min(LinesOf(lines, setting))].value
  ELSE NoValue

-----------------------------------------------------------------------------
VARIABLES
  file,    \* the lines of config.yaml; <<>> when there is none
  wanted,  \* what the user last put in the file, by hand or with /api
  cli,     \* the settings given on the command line of the running program
  env,     \* ... and in its environment
  used,    \* the settings the running program uses
  up

startupVars == <<file, wanted, cli, env, used, up>>

Unset == [s \in Setting |-> NoValue]

Init ==
  /\ file \in UsersFiles
  /\ wanted = [s \in Setting |-> Loaded(file, s)]
  /\ cli = Unset /\ env = Unset /\ used = Unset /\ up = FALSE

(* resolveConfigPath writes the default when no file is found.             *)
Resolved == IF file = <<>> THEN DefaultFile ELSE file

FirstGiven(values) ==
  LET given == {i \in DOMAIN values : values[i] # NoValue}
  IN  IF given = {} THEN NoValue ELSE values[Min(given)]

(* The file fills in what the command line leaves open, the environment    *)
(* what both leave open; the provider's variable overrides everything.     *)
Chosen(setting, c, e) ==
  LET f == Loaded(Resolved, setting) IN
  IF setting = "provider" THEN FirstGiven(<<e[setting], c[setting], f>>)
                          ELSE FirstGiven(<<c[setting], f, e[setting]>>)

Start ==
  /\ ~up /\ up' = TRUE
  /\ file' = Resolved
  /\ wanted' = IF file = <<>> THEN [s \in Setting |-> Loaded(DefaultFile, s)]
                              ELSE wanted
  /\ \E c, e \in [Setting -> (Values \ BadValues) \cup {NoValue}] :
       /\ cli' = c /\ env' = e
       /\ used' = [s \in Setting |-> Chosen(s, c, e)]

(* /api field=value.                                                       *)
SetField ==
  /\ up /\ Len(file) < MaxLines
  /\ \E s \in Setting, v \in Values :
       /\ file' = WriteYamlValue(file, s, v)
       /\ wanted' = [wanted EXCEPT ![s] = v]
  /\ UNCHANGED <<cli, env, used, up>>

Quit == up /\ up' = FALSE /\ cli' = Unset /\ env' = Unset /\ used' = Unset
           /\ UNCHANGED <<file, wanted>>

Next == Start \/ SetField \/ Quit

Spec == Init /\ [][Next]_startupVars

-----------------------------------------------------------------------------
(* What the user put in the file is what the next start uses, for every    *)
(* setting that the command line and, for the provider, the environment    *)
(* leave open: an edit hits its own line, in its own block, and no other   *)
(* (writeYamlValue, AdvancedCommands.h:331, against Config::getNode).      *)
SavedIsUsed ==
  [][Start => \A s \in Setting :
       /\ Readable(file) /\ wanted'[s] # NoValue /\ cli'[s] = NoValue
       /\ s = "provider" => env'[s] = NoValue
       => used'[s] = wanted'[s]]_startupVars

(* main's comment: "Priority: CLI args > env vars > config.yaml".  The     *)
(* code asks the file before the environment, and lets the provider's      *)
(* variable override the command line.                                     *)
PriorityIsCliEnvFile ==
  up => \A s \in Setting :
          FirstGiven(<<cli[s], env[s]>>) # NoValue
            => used[s] = FirstGiven(<<cli[s], env[s]>>)
=============================================================================
