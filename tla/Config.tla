------------------------------- MODULE Config -------------------------------
(***************************************************************************)
(* How a Go service gets its settings: defaults, then the config file's    *)
(* entries in the order the map yields them, then the environment, then    *)
(* the range checks.  It always starts; what was wrong is a problem that   *)
(* readyz reports.                                                         *)
(*                                                                         *)
(* Four settings stand for the numbers: "port" (its range is checked when  *)
(* it is read), "max" and "min" (DB_MAX_CONNS, DB_MIN_CONNS: integers      *)
(* checked at the end, the second against the first), "ratio"              *)
(* (OTEL_SAMPLE_RATIO, a float).  Two stand for the texts and lists, which *)
(* the file may also get wrong and nobody says so: "level" (LOG_LEVEL,     *)
(* SERVICE_NAME), where a blank entry counts for nothing, and "audience"   *)
(* (all others), where it counts.  The service's ENV is a text and picks   *)
(* the default file.                                                       *)
(***************************************************************************)
EXTENDS Integers, Sequences, Functions

CONSTANTS
    Raws,        \* what can be written for each number
    Defaults,    \* the default of each number
    PortLimit,   \* 65535
    Absent,      \* not set, or blank
    Junk,        \* not a number; for texts in the file: not a string
    NaN,         \* the float
    MaxEntries   \* bound: entries of the file

Settings == {"port", "max", "min", "ratio"}
Names    == {"staging", "prod", "dev"}
Texts    == {"level", "audience"}

TextDefaults == [level |-> "info", audience |-> Absent]

\* A default passes its own check, and only the float can be NaN.
ConfigAssumption ==
    /\ {Absent, Junk, NaN} \cap Int = {} /\ NaN # Junk
    /\ Absent \notin {Junk, NaN} \cup Names
    /\ {PortLimit, MaxEntries} \subseteq Nat
    /\ DOMAIN Raws = Settings
    /\ \A s \in Settings : Raws[s] \subseteq Int \cup {Junk} \cup (IF s = "ratio" THEN {NaN} ELSE {})
    /\ Defaults \in [Settings -> Nat]
    /\ Defaults.port \in 1 .. PortLimit /\ Defaults.max > 0 /\ Defaults.ratio <= 1

VARIABLES
    env,       \* the environment's numbers
    envTexts,  \* the environment's texts
    envName,   \* ENV in the environment
    explicit,  \* CONFIG_PATH is set
    file,      \* [state, entries]
    stage,     \* "load", "entries", "env", "check", "done"
    applied,   \* entries applied so far
    named,     \* envProvided
    cfg,       \* the numbers
    texts,     \* the texts
    name,      \* cfg.Env
    problems   \* fields with a problem

inputs == <<env, envTexts, envName, explicit, file>>
vars == <<inputs, stage, applied, named, cfg, texts, name, problems>>

\* Keys are compared without case, so a setting may have two entries.
Entries == (UNION {[key : {s}, raw : Raws[s]] : s \in Settings}) \cup
           [key : {"ENV"}, raw : {"prod", Absent, Junk}] \cup
           [key : Texts, raw : {"filed", Absent, Junk}]

Files == [state : {"ok"}, entries : UNION {[1 .. n -> Entries] : n \in 0 .. MaxEntries}] \cup
         [state : {"missing", "unreadable", "invalid"}, entries : {<<>>}]

Inputs ==
    /\ env      \in {e \in [Settings -> (UNION Range(Raws)) \cup {Absent}] :
                        \A s \in Settings : e[s] \in Raws[s] \cup {Absent}}
    /\ envTexts \in [Texts -> {"given", Absent}]
    /\ envName  \in {"staging", Absent}
    /\ explicit \in BOOLEAN
    /\ file     \in Files

Start ==
    /\ stage    = "load"
    /\ applied  = 0
    /\ named    = (envName # Absent)
    /\ cfg      = Defaults
    /\ texts    = TextDefaults
    /\ name     = envName
    /\ problems = {}

Init == Inputs /\ Start

-----------------------------------------------------------------------------
OutOfRange(s, n) ==
    CASE s = "port"  -> n <= 0 \/ n > PortLimit
      [] s = "max"   -> n <= 0
      [] s = "min"   -> n < 0
      [] s = "ratio" -> n # NaN /\ (n < 0 \/ n > 1)

\* What a setting takes over from the file or the environment: any number, but
\* for the port one in its range.
Taken(s, raw) == raw # Junk /\ (s = "port" => ~OutOfRange(s, raw))

\* What a text takes over from the file: any text, but for the level a blank one.
TakenText(t, raw) == raw # Junk /\ (t = "level" => raw # Absent)

\* Without CONFIG_PATH the file is the one named for ENV; without ENV there is none.
HasPath == explicit \/ envName # Absent

\* A missing or unreadable file is a problem only when it was asked for.
NoFile ==
    /\ stage = "load"
    /\ ~HasPath \/ file.state # "ok"
    /\ stage'    = "env"
    /\ problems' = IF \/ explicit /\ file.state # "ok"
                      \/ HasPath /\ file.state = "invalid"
                   THEN {"CONFIG_PATH"} ELSE {}
    /\ UNCHANGED <<inputs, applied, named, cfg, texts, name>>

\* readStringKey finds any one of the entries for ENV.
FileLoaded ==
    LET envs == {file.entries[n].raw : n \in {k \in DOMAIN file.entries : file.entries[k].key = "ENV"}}
    IN  /\ stage = "load"
        /\ HasPath /\ file.state = "ok"
        /\ stage' = "entries"
        /\ \/ envs = {} /\ UNCHANGED named
           \/ \E e \in envs : named' = (named \/ e \notin {Absent, Junk})
        /\ UNCHANGED <<inputs, applied, cfg, texts, name, problems>>

Entry == file.entries[applied + 1]

\* applyConfigMap, one entry for a number: what is not taken is a problem.
ApplyNumber ==
    /\ stage = "entries" /\ applied < Len(file.entries)
    /\ Entry.key \in Settings
    /\ applied' = applied + 1
    /\ IF Taken(Entry.key, Entry.raw)
       THEN cfg' = [cfg EXCEPT ![Entry.key] = Entry.raw] /\ UNCHANGED problems
       ELSE problems' = problems \cup {Entry.key} /\ UNCHANGED cfg
    /\ UNCHANGED <<inputs, stage, named, texts, name>>

\* One entry for a text or a list: what is not taken is passed over in silence.
ApplyText ==
    /\ stage = "entries" /\ applied < Len(file.entries)
    /\ Entry.key \in Texts
    /\ applied' = applied + 1
    /\ texts'   = IF TakenText(Entry.key, Entry.raw)
                  THEN [texts EXCEPT ![Entry.key] = Entry.raw] ELSE texts
    /\ UNCHANGED <<inputs, stage, named, cfg, name, problems>>

\* The file's ENV, blank or not, takes the place of the environment's.
ApplyName ==
    /\ stage = "entries" /\ applied < Len(file.entries)
    /\ Entry.key = "ENV"
    /\ applied' = applied + 1
    /\ name'    = IF Entry.raw = Junk THEN name ELSE Entry.raw
    /\ UNCHANGED <<inputs, stage, named, cfg, texts, problems>>

EntriesDone ==
    /\ stage = "entries" /\ applied = Len(file.entries)
    /\ stage' = "env"
    /\ UNCHANGED <<inputs, applied, named, cfg, texts, name, problems>>

\* applyEnv: it does not look at ENV.
ApplyEnv ==
    LET given == {s \in Settings : env[s] # Absent}
        taken == {s \in given : Taken(s, env[s])}
    IN  /\ stage = "env"
        /\ stage'    = "check"
        /\ cfg'      = [s \in Settings |-> IF s \in taken THEN env[s] ELSE cfg[s]]
        /\ texts'    = [t \in Texts |-> IF envTexts[t] # Absent THEN envTexts[t] ELSE texts[t]]
        /\ problems' = problems \cup (given \ taken)
        /\ UNCHANGED <<inputs, applied, named, name>>

\* What fails its check gets its default.
Checked(s, n) == IF OutOfRange(s, n) THEN Defaults[s] ELSE n

Lesser(a, b) == IF a < b THEN a ELSE b

\* Mutant of Check: min is compared with max before either is checked.
CheckOrderFirst ==
    /\ stage = "check"
    /\ stage'    = "done"
    /\ cfg'      = [s \in Settings |->
                       IF s = "min" THEN Lesser(Checked(s, cfg.min), cfg.max)
                       ELSE Checked(s, cfg[s])]
    /\ problems' = problems \cup {s \in Settings : OutOfRange(s, cfg[s])}
                            \cup {s \in {"min"} : cfg.min > cfg.max}
                            \cup {s \in {"ENV"} : ~named}
    /\ name'     = IF name = Absent THEN "dev" ELSE name
    /\ UNCHANGED <<inputs, applied, named, texts>>

Check ==
    LET max == Checked("max", cfg.max)
        min == Checked("min", cfg.min)
    IN  /\ stage = "check"
        /\ stage'    = "done"
        /\ cfg'      = [s \in Settings |->
                           IF s = "min" THEN Lesser(min, max) ELSE Checked(s, cfg[s])]
        /\ problems' = problems \cup {s \in Settings : OutOfRange(s, cfg[s])}
                                \cup {s \in {"min"} : min > max}
                                \cup {s \in {"ENV"} : ~named}
        /\ name'     = IF name = Absent THEN "dev" ELSE name
        /\ UNCHANGED <<inputs, applied, named, texts>>

Next ==
    \/ NoFile \/ FileLoaded
    \/ ApplyNumber \/ ApplyText \/ ApplyName \/ EntriesDone
    \/ ApplyEnv \/ Check

Spec == Init /\ [][Next]_vars

-----------------------------------------------------------------------------
(* Properties                                                              *)

TypeOK ==
    /\ stage    \in {"load", "entries", "env", "check", "done"}
    /\ applied  \in 0 .. MaxEntries
    /\ named    \in BOOLEAN
    /\ texts    \in [Texts -> {"info", "given", "filed", Absent}]
    /\ name     \in Names \cup {Absent}
    /\ problems \subseteq Settings \cup {"ENV", "CONFIG_PATH"}
    /\ \A s \in Settings : cfg[s] \in Raws[s] \cup {Defaults[s]} \cup
                                     (IF s = "min" THEN Raws["max"] \cup {Defaults["max"]} ELSE {})

InFile(s) == {file.entries[n].raw : n \in {k \in 1 .. applied : file.entries[k].key = s}}

\* What the last source that says anything about a number says.
LastWord(s) ==
    CASE env[s] # Absent                     -> {env[s]}
      [] env[s] = Absent /\ InFile(s) # {}   -> InFile(s)
      [] env[s] = Absent /\ InFile(s) = {}   -> {Defaults[s]}

\* What the file says of a text, leaving out what it passes over.
Usable(t) == {raw \in InFile(t) : TakenText(t, raw)}

FileText(t) == IF Usable(t) = {} THEN {TextDefaults[t]} ELSE Usable(t)

LastText(t) == IF envTexts[t] # Absent THEN {envTexts[t]} ELSE FileText(t)

\* A number is what the last source to mention it says, or readyz reports it;
\* and whatever was given, what the service runs with has passed every check at
\* once.
NumbersExplained ==
    stage = "done" =>
        /\ \A s \in Settings : cfg[s] \in LastWord(s) \/ s \in problems
        /\ \A s \in Settings : ~OutOfRange(s, cfg[s])
        /\ cfg.min <= cfg.max

\* Of texts and lists that is too much to ask: a wrong type in the file is not
\* reported, and the setting is what the last source with a usable word for it
\* says.
TextsExplained == stage = "done" => \A t \in Texts : texts[t] \in LastText(t)

\* What a service starts with is explained; all but its own ENV, of which not
\* even this is true: see EnvironmentWins.
SettingsExplained == NumbersExplained /\ TextsExplained

\* Sources take precedence as IMPLEMENTATION_PLAN.md:53 has it, config file <
\* env: what the environment says, ENV included, stands unless it is a problem.
EnvironmentWins ==
    stage = "done" =>
        /\ \A s \in Settings : env[s] # Absent => cfg[s] = env[s] \/ s \in problems
        /\ \A t \in Texts : envTexts[t] # Absent => texts[t] = envTexts[t]
        /\ envName # Absent => name = envName
=============================================================================
