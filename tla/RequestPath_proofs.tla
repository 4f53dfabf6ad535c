------------------------- MODULE RequestPath_proofs -------------------------
(***************************************************************************)
(* The promises on a request's way outside the API, for all tables, plans, *)
(* settings and bounds that PathAssumption allows.  One section for each   *)
(* component; the theorems of all three are at the end.                    *)
(***************************************************************************)
EXTENDS RequestPath, FiniteSetTheorems, NaturalsInduction, SequenceTheorems,
        WellFoundedInduction, TLAPS

-----------------------------------------------------------------------------
(* Gateway: one cluster for a place, and a producer for every cluster.     *)

\* The table is loaded, and the resolver says what it says.
LoadedOK ==
    /\ Gate!Loadable(table)
    /\ resolver = [clusters |-> DOMAIN table.clusters, index |-> Gate!Index(table),
                   default |-> table.default]
    /\ producers = DOMAIN table.clusters

PathAnswers == [status : {"invalid", "no route", "accepted", "failed"}, id : Nat]

\* Before the table is loaded, and without it, nothing is sent; what is sent is
\* sent where the resolver says; no answer is the 503.
RoutesInv ==
    /\ \/ LoadedOK
       \/ resolver = Gate!Empty /\ producers = {} /\ log = {}
    /\ Gate!Starting => log = {}
    /\ \A e \in log : e.cluster = Gate!Target(e.place, e.form)
    /\ answers \in Seq(PathAnswers)

LEMMA GateInitOK == Gate!Init => RoutesInv
BY DEF Gate!Init, Gate!Start, RoutesInv

\* What the index holds for a key: the cluster of a route of the table with it.
LEMMA IndexIs ==
    ASSUME LoadedOK, NEW key \in DOMAIN resolver.index
    PROVE  \E n \in DOMAIN table.routes :
               /\ Gate!KeyOf(table.routes[n]) = key
               /\ resolver.index[key] = table.routes[n].cluster
<1> DEFINE r == CHOOSE r \in Gate!Range(table.routes) : Gate!KeyOf(r) = key
<1>1. /\ resolver.index = Gate!Index(table)
      /\ key \in {Gate!KeyOf(table.routes[n]) : n \in DOMAIN table.routes}
  BY DEF LoadedOK, Gate!Index
<1>2. \E q \in Gate!Range(table.routes) : Gate!KeyOf(q) = key
  BY <1>1 DEF Gate!Range
<1>3. r \in Gate!Range(table.routes) /\ Gate!KeyOf(r) = key
  BY <1>2
<1>4. resolver.index[key] = r.cluster
  BY <1>1 DEF Gate!Index
<1> HIDE DEF r
<1>5. PICK n \in DOMAIN table.routes : r = table.routes[n]
  BY <1>3 DEF Gate!Range
<1> QED  BY <1>3, <1>4, <1>5

\* Where an event may be sent: to a cluster with a producer, or nowhere.
LEMMA TargetIs ==
    ASSUME RoutesInv, NEW place, NEW form
    PROVE  Gate!Target(place, form) \in producers \cup {None}
<1>1. CASE LoadedOK
  <2> DEFINE key == Gate!RouteKey(place, form)
  <2>1. CASE key \in DOMAIN resolver.index
    BY <1>1, <2>1, IndexIs DEF LoadedOK, Gate!Loadable, Gate!Target
  <2>2. CASE key \notin DOMAIN resolver.index
    BY <1>1, <2>2 DEF LoadedOK, Gate!Loadable, Gate!Target
  <2> QED  BY <2>1, <2>2
<1>2. CASE resolver = Gate!Empty
  <2>1. DOMAIN resolver.index = {} /\ resolver.default = None
    BY <1>2 DEF Gate!Empty
  <2> QED  BY <2>1 DEF Gate!Target
<1> QED  BY <1>1, <1>2 DEF RoutesInv

LEMMA AppendOK == ASSUME NEW S, NEW q \in Seq(S), NEW a \in S PROVE Append(q, a) \in Seq(S)
OBVIOUS

\* One response, with or without an event.
LEMMA ResponseOK ==
    ASSUME RoutesInv, Gate!Serving, NEW status \in {"invalid", "no route", "accepted", "failed"},
           NEW id \in Nat, Gate!Respond(status, id),
           UNCHANGED <<table, problems, resolver, producers>>,
           NEW place, NEW form,
           \/ log' = log
           \/ log' = log \cup {Gate!Event(place, form)} /\ Gate!Target(place, form) \in producers
    PROVE  RoutesInv'
<1>1. Gate!Event(place, form).place = place /\ Gate!Event(place, form).form = form
      /\ Gate!Event(place, form).cluster = Gate!Target(place, form)
  BY DEF Gate!Event
<1>2. ~Gate!Starting /\ ~Gate!Starting'
  BY DEF Gate!Serving, Gate!Starting
<1>3. ASSUME NEW e \in log' PROVE e.cluster = Gate!Target(e.place, e.form)'
  BY <1>1 DEF RoutesInv, Gate!Target
<1>4. LoadedOK' <=> LoadedOK
  BY DEF LoadedOK
<1>5. answers' \in Seq(PathAnswers)
  <2>1. answers \in Seq(PathAnswers)
    BY DEF RoutesInv
  <2>2. PICK a \in PathAnswers : a = [status |-> status, id |-> id]
    BY DEF PathAnswers
  <2>3. answers' = Append(answers, a)
    BY <2>2 DEF Gate!Respond
  <2> QED  BY <2>1, <2>3, AppendOK
<1> QED  BY <1>2, <1>3, <1>4, <1>5 DEF RoutesInv

LEMMA GateStepOK == ASSUME RoutesInv, [Gate!Next]_gateVars PROVE RoutesInv'
<1>1. CASE UNCHANGED gateVars
  BY <1>1 DEF gateVars, RoutesInv, LoadedOK, Gate!Starting, Gate!Target
<1>2. CASE Gate!Load
  <2>1. LoadedOK' /\ log = {} /\ log' = log /\ answers' = answers
    BY <1>2 DEF RoutesInv, LoadedOK, Gate!Load
  <2> QED  BY <2>1 DEF RoutesInv
<1>3. CASE Gate!LoadFails
  BY <1>3 DEF RoutesInv, LoadedOK, Gate!LoadFails, Gate!Starting, Gate!Target
<1>4. CASE Gate!Serving /\ Gate!Reject
  BY <1>4, ResponseOK DEF Gate!Reject
<1>5. ASSUME Gate!Serving, NEW place \in Places, NEW form \in Gate!Forms
      PROVE  /\ Gate!TurnDown(place, form) => RoutesInv'
             /\ Gate!Publish(place, form) => RoutesInv'
             /\ Gate!PublishFails(place, form) => RoutesInv'
  <2>1. CASE Gate!TurnDown(place, form)
    <3>1. Gate!Respond("no route", 0)
      BY <2>1, TargetIs DEF Gate!TurnDown
    <3> QED  BY <1>5, <2>1, <3>1, ResponseOK DEF Gate!TurnDown
  <2>2. CASE Gate!Publish(place, form)
    <3>1. Len(answers) + 1 \in Nat
      BY DEF RoutesInv
    <3> QED  BY <1>5, <2>2, <3>1, ResponseOK DEF Gate!Publish
  <2>3. CASE Gate!PublishFails(place, form)
    BY <1>5, <2>3, ResponseOK DEF Gate!PublishFails
  <2> QED  BY <2>1, <2>2, <2>3
<1> QED  BY <1>1, <1>2, <1>3, <1>4, <1>5 DEF Gate!Next

\* The routes of a loaded table have keys of their own, so the index sends a
\* place to the cluster of its one route.
LEMMA RoutesAreKept ==
    ASSUME RoutesInv
    PROVE  Gate!OneClusterPerPlace /\ Gate!TargetsAreReachable
<1>1. ASSUME NEW e \in log, e.form \in Gate!Spelled,
             NEW f \in log, f.form \in Gate!Spelled, f.place = e.place
      PROVE  f.cluster = e.cluster
  BY <1>1 DEF RoutesInv, Gate!Target, Gate!RouteKey, Gate!Spelled
<1>2. ASSUME NEW e \in log, e.form \in Gate!Spelled,
             NEW r \in Gate!Range(table.routes), r.form \in Gate!Spelled, r.place = e.place
      PROVE  r.cluster = e.cluster
  <2> DEFINE key == Gate!RouteKey(e.place, e.form)
  <2>1. LoadedOK
    BY DEF RoutesInv
  <2>2. PICK n \in DOMAIN table.routes : r = table.routes[n]
    BY DEF Gate!Range
  <2>3. Gate!KeyOf(table.routes[n]) = key
    BY <1>2, <2>2 DEF Gate!KeyOf, Gate!RouteKey, Gate!Spelled
  <2>4. key \in DOMAIN resolver.index
    BY <2>1, <2>3 DEF LoadedOK, Gate!Index
  <2>5. PICK k \in DOMAIN table.routes :
            Gate!KeyOf(table.routes[k]) = key /\ resolver.index[key] = table.routes[k].cluster
    BY <2>1, <2>4, IndexIs
  <2>6. k = n
    BY <2>1, <2>3, <2>5 DEF LoadedOK, Gate!Loadable
  <2>7. e.cluster = resolver.index[key]
    BY <2>4 DEF RoutesInv, Gate!Target
  <2> QED  BY <2>2, <2>5, <2>6, <2>7
<1>3. ASSUME NEW n \in DOMAIN answers PROVE answers[n].status # "unavailable"
  <2>1. answers[n] \in PathAnswers
    BY DEF RoutesInv
  <2> QED  BY <2>1 DEF PathAnswers
<1> QED  BY <1>1, <1>2, <1>3 DEF Gate!OneClusterPerPlace, Gate!TargetsAreReachable

-----------------------------------------------------------------------------
(* Config: what a service starts with is explained.                        *)

\* What a setting can hold: only the float can be NaN.
Number(s) == Int \cup (IF s = "ratio" THEN {NaN} ELSE {})

SettingsTyped ==
    /\ \A s \in Conf!Settings : env[s] \in Raws[s] \cup {Absent}
    /\ file \in Conf!Files
    /\ applied \in Nat
    /\ cfg = [s \in Conf!Settings |-> cfg[s]]
    /\ \A s \in Conf!Settings : cfg[s] \in Number(s)

\* What the file has said of a setting so far, or else the default.
FileWord(s) == IF Conf!InFile(s) = {} THEN {Defaults[s]} ELSE Conf!InFile(s)

\* Until the environment is read a setting is what the file says, after that
\* what the last source says; at the end also what the checks left of it.
SettingsInv ==
    /\ SettingsTyped
    /\ stage \in {"load", "entries", "env", "check", "done"}
    /\ stage = "load" => applied = 0 /\ cfg = Defaults
    /\ stage \in {"load", "entries", "env"} =>
        \A s \in Conf!Settings : cfg[s] \in FileWord(s) \/ s \in issues
    /\ stage = "check" =>
        \A s \in Conf!Settings : cfg[s] \in Conf!LastWord(s) \/ s \in issues
    /\ Conf!NumbersExplained

\* Before the first entry the file has said nothing.
LEMMA NothingYet == ASSUME applied = 0, NEW s PROVE Conf!InFile(s) = {}
BY DEF Conf!InFile

\* One more entry says one more thing of its own setting.
LEMMA OneMoreEntry ==
    ASSUME applied \in Nat, applied' = applied + 1, file' = file, NEW s
    PROVE  Conf!InFile(s)' =
               Conf!InFile(s) \cup (IF Conf!Entry.key = s THEN {Conf!Entry.raw} ELSE {})
<1>1. 1 .. applied' = (1 .. applied) \cup {applied + 1}
  OBVIOUS
<1> QED  BY <1>1 DEF Conf!InFile, Conf!Entry

LEMMA SettingsStart == ASSUME PathAssumption, Conf!Init PROVE SettingsInv
<1> USE DEF Conf!Init, Conf!Inputs, Conf!Start
<1>1. \A s \in Conf!Settings : cfg[s] \in Int
  BY DEF PathAssumption, Conf!ConfigAssumption
<1>2. SettingsTyped
  BY <1>1 DEF SettingsTyped, Number, PathAssumption, Conf!ConfigAssumption
<1>3. \A s \in Conf!Settings : cfg[s] \in FileWord(s)
  BY NothingYet DEF FileWord
<1> QED  BY <1>2, <1>3 DEF SettingsInv, Conf!NumbersExplained

\* The entry at hand is one for a number, with something that can be written for
\* it, or one for ENV or a text.
LEMMA EntryTyped ==
    ASSUME SettingsTyped, applied < Len(file.entries)
    PROVE  \/ Conf!Entry.key \in Conf!Settings /\ Conf!Entry.raw \in Raws[Conf!Entry.key]
           \/ Conf!Entry.key = "ENV" /\ Conf!Entry.raw \in {"prod", Absent, Junk}
           \/ Conf!Entry.key \in Conf!Texts /\ Conf!Entry.raw \in {"filed", Absent, Junk}
<1>1. CASE file.entries = <<>>
  BY <1>1 DEF SettingsTyped
<1>2. CASE file.entries # <<>>
  <2>1. file.entries \in UNION {[1 .. n -> Conf!Entries] : n \in 0 .. MaxEntries}
    BY <1>2 DEF SettingsTyped, Conf!Files
  <2>2. PICK n \in 0 .. MaxEntries : file.entries \in [1 .. n -> Conf!Entries]
    BY <2>1
  <2>3. Len(file.entries) = n
    BY <2>2, PathAssumption DEF PathAssumption, Conf!ConfigAssumption
  <2>4. Conf!Entry \in Conf!Entries
    BY <2>2, <2>3 DEF Conf!Entry, SettingsTyped
  <2>5. PICK e : e = Conf!Entry
    OBVIOUS
  <2> DEFINE Of(s)  == [key : {s}, raw : Raws[s]]
             known  == UNION {Of(s) : s \in Conf!Settings}
             ofENV  == [key : {"ENV"}, raw : {"prod", Absent, Junk}]
             text   == [key : Conf!Texts, raw : {"filed", Absent, Junk}]
  <2>6. e \in known \/ e \in ofENV \/ e \in text
    BY <2>4, <2>5 DEF Conf!Entries
  <2>7. CASE e \in known
    <3>1. PICK s \in Conf!Settings : e \in Of(s)
      BY <2>7
    <3> QED  BY <2>5, <3>1
  <2>8. CASE e \in ofENV
    BY <2>5, <2>8
  <2>9. CASE e \in text
    BY <2>5, <2>9
  <2> QED  BY <2>6, <2>7, <2>8, <2>9
<1> QED  BY <1>1, <1>2

\* What is taken over is a number.
LEMMA TakenIsNumber ==
    ASSUME PathAssumption, NEW s \in Conf!Settings, NEW raw \in Raws[s], Conf!Taken(s, raw)
    PROVE  raw \in Number(s)
BY DEF PathAssumption, Conf!ConfigAssumption, Conf!Taken, Number

\* The checks: what comes out of each is in its range, and explained.
LEMMA CheckExplains ==
    ASSUME PathAssumption, SettingsInv, Conf!Check PROVE SettingsInv'
<1> DEFINE max == Conf!Checked("max", cfg.max)
           min == Conf!Checked("min", cfg.min)
<1>1. \A s \in Conf!Settings : cfg[s] \in Number(s) /\ Defaults[s] \in Number(s)
  BY DEF PathAssumption, Conf!ConfigAssumption, SettingsInv, SettingsTyped, Number
<1>2. ASSUME NEW s \in Conf!Settings
      PROVE  /\ Conf!Checked(s, cfg[s]) \in Number(s)
             /\ ~Conf!OutOfRange(s, Conf!Checked(s, cfg[s]))
             /\ Conf!OutOfRange(s, cfg[s]) \/ Conf!Checked(s, cfg[s]) = cfg[s]
  <2>1. ~Conf!OutOfRange(s, Defaults[s])
    <3>1. /\ Defaults["port"] \in 1 .. PortLimit /\ PortLimit \in Nat
          /\ Defaults["max"] \in Nat /\ Defaults["max"] > 0
          /\ Defaults["min"] \in Nat /\ Defaults["ratio"] \in Nat /\ Defaults["ratio"] <= 1
      BY DEF PathAssumption, Conf!ConfigAssumption, Conf!Settings
    <3>2. CASE s = "port"   BY <3>1, <3>2 DEF Conf!OutOfRange
    <3>3. CASE s = "max"    BY <3>1, <3>3 DEF Conf!OutOfRange
    <3>4. CASE s = "min"    BY <3>1, <3>4 DEF Conf!OutOfRange
    <3>5. CASE s = "ratio"  BY <3>1, <3>5 DEF Conf!OutOfRange
    <3> QED  BY <3>2, <3>3, <3>4, <3>5 DEF Conf!Settings
  <2> QED  BY <1>1, <2>1 DEF Conf!Checked
<1>3. /\ max \in Int /\ min \in Int /\ min >= 0 /\ max > 0
      /\ ~Conf!OutOfRange("max", max) /\ ~Conf!OutOfRange("min", min)
  <2>1. max \in Number("max") /\ min \in Number("min")
        /\ ~Conf!OutOfRange("max", max) /\ ~Conf!OutOfRange("min", min)
    BY <1>2 DEF Conf!Settings
  <2> QED  BY <2>1 DEF Number, Conf!OutOfRange
<1>4. /\ cfg' = [s \in Conf!Settings |->
                    IF s = "min" THEN Conf!Lesser(min, max) ELSE Conf!Checked(s, cfg[s])]
      /\ issues' = issues \cup {s \in Conf!Settings : Conf!OutOfRange(s, cfg[s])}
                          \cup {s \in {"min"} : min > max} \cup {s \in {"ENV"} : ~named}
      /\ stage = "check" /\ stage' = "done"
      /\ UNCHANGED <<env, envName, explicit, file, applied>>
  BY DEF Conf!Check, Conf!inputs
<1> HIDE DEF max, min
<1>5. Conf!Lesser(min, max) \in Int /\ Conf!Lesser(min, max) >= 0 /\ Conf!Lesser(min, max) <= max
  BY <1>3 DEF Conf!Lesser
<1>6. /\ cfg'["min"] = Conf!Lesser(min, max) /\ cfg'["max"] = max
      /\ \A s \in Conf!Settings \ {"min"} : cfg'[s] = Conf!Checked(s, cfg[s])
  BY <1>4 DEF Conf!Settings, max
<1>7. SettingsTyped'
  <2>1. \A s \in Conf!Settings : cfg'[s] \in Number(s)
    BY <1>2, <1>5, <1>6 DEF Number, Conf!Settings
  <2>2. cfg' = [s \in Conf!Settings |-> cfg'[s]]
    BY <1>4
  <2> QED  BY <1>4, <2>1, <2>2 DEF SettingsInv, SettingsTyped
<1>8. ASSUME NEW s \in Conf!Settings PROVE cfg'[s] \in Conf!LastWord(s)' \/ s \in issues'
  <2>1. Conf!LastWord(s)' = Conf!LastWord(s)
    BY <1>4 DEF Conf!LastWord, Conf!InFile
  <2>2. cfg[s] \in Conf!LastWord(s) \/ s \in issues
    BY <1>4 DEF SettingsInv
  <2>3. CASE s = "min"
    <3>1. min > max \/ Conf!Lesser(min, max) = min
      BY <1>3 DEF Conf!Lesser
    <3>2. Conf!OutOfRange(s, cfg[s]) \/ min = cfg[s]
      BY <1>2, <2>3 DEF min
    <3> QED  BY <1>4, <1>6, <2>1, <2>2, <2>3, <3>1, <3>2
  <2>4. CASE s # "min"
    BY <1>2, <1>4, <1>6, <2>1, <2>2, <2>4
  <2> QED  BY <2>3, <2>4
<1>9. ASSUME NEW s \in Conf!Settings PROVE ~Conf!OutOfRange(s, cfg'[s])
  <2>1. CASE s = "min"
    BY <1>5, <1>6, <2>1 DEF Conf!OutOfRange
  <2>2. CASE s # "min"
    BY <1>2, <1>6, <2>2
  <2> QED  BY <2>1, <2>2
<1>10. Conf!NumbersExplained'
  <2>1. cfg'.min <= cfg'.max
    BY <1>5, <1>6
  <2>2. \A s \in Conf!Settings : Conf!OutOfRange(s, cfg[s])' <=> Conf!OutOfRange(s, cfg'[s])
    BY DEF Conf!OutOfRange
  <2> QED  BY <1>8, <1>9, <2>1, <2>2 DEF Conf!NumbersExplained
<1> QED  BY <1>4, <1>7, <1>10 DEF SettingsInv

LEMMA SettingsStep ==
    ASSUME PathAssumption, SettingsInv, [Conf!Next]_confVars PROVE SettingsInv'
<1>1. CASE UNCHANGED confVars
  BY <1>1 DEF confVars, SettingsInv, SettingsTyped, FileWord, Conf!InFile, Conf!LastWord,
      Conf!NumbersExplained, Conf!OutOfRange
<1>2. CASE Conf!NoFile
  <2>1. SettingsTyped' /\ stage' = "env" /\ \A s : FileWord(s)' = FileWord(s)
    BY <1>2 DEF Conf!NoFile, Conf!inputs, SettingsInv, SettingsTyped, FileWord, Conf!InFile
  <2>2. \A s \in Conf!Settings : cfg'[s] \in FileWord(s)
    BY <1>2, NothingYet DEF Conf!NoFile, Conf!inputs, SettingsInv, FileWord
  <2> QED  BY <2>1, <2>2 DEF SettingsInv, Conf!NumbersExplained
<1>3. CASE Conf!FileLoaded
  <2>1. SettingsTyped' /\ stage = "load" /\ stage' = "entries" /\ issues' = issues /\ cfg' = cfg
        /\ \A s : FileWord(s)' = FileWord(s)
    BY <1>3 DEF Conf!FileLoaded, Conf!inputs, SettingsInv, SettingsTyped, FileWord, Conf!InFile
  <2> QED  BY <2>1 DEF SettingsInv, Conf!NumbersExplained
<1>4. CASE Conf!ApplyNumber
  <2> DEFINE key == Conf!Entry.key  raw == Conf!Entry.raw
  <2>1. key \in Conf!Settings /\ raw \in Raws[key]
    BY <1>4, EntryTyped DEF Conf!ApplyNumber, SettingsInv, Conf!Settings, Conf!Texts
  <2>2. \A s \in Conf!Settings :
            Conf!InFile(s)' = Conf!InFile(s) \cup (IF key = s THEN {raw} ELSE {})
    BY <1>4, OneMoreEntry DEF Conf!ApplyNumber, Conf!inputs, SettingsInv, SettingsTyped
  <2>3. /\ stage = "entries" /\ stage' = "entries"
        /\ UNCHANGED <<env, file>> /\ applied' = applied + 1
        /\ \/ /\ Conf!Taken(key, raw) /\ cfg' = [cfg EXCEPT ![key] = raw]
              /\ issues' = issues
           \/ issues' = issues \cup {key} /\ cfg' = cfg
    BY <1>4 DEF Conf!ApplyNumber, Conf!inputs
  <2>4. Conf!Taken(key, raw) => raw \in Number(key)
    BY <2>1, TakenIsNumber
  <2> HIDE DEF key, raw
  <2>5. \A s \in Conf!Settings : cfg'[s] = cfg[s] \/ (s = key /\ cfg'[s] = raw /\ raw \in Number(key))
    BY <2>1, <2>3, <2>4 DEF SettingsInv, SettingsTyped
  <2>6. SettingsTyped'
    <3>1. cfg' = [s \in Conf!Settings |-> cfg'[s]]
      BY <2>3 DEF SettingsInv, SettingsTyped
    <3>2. \A s \in Conf!Settings : cfg'[s] \in Number(s)
      BY <2>5 DEF SettingsInv, SettingsTyped
    <3> QED  BY <2>3, <3>1, <3>2 DEF SettingsInv, SettingsTyped
  <2>7. ASSUME NEW s \in Conf!Settings PROVE cfg'[s] \in FileWord(s)' \/ s \in issues'
    <3>1. CASE s = key
      BY <2>1, <2>2, <2>3, <3>1 DEF FileWord, SettingsInv, SettingsTyped
    <3>2. CASE s # key
      BY <2>2, <2>3, <2>5, <3>2 DEF FileWord, SettingsInv
    <3> QED  BY <3>1, <3>2
  <2> QED  BY <2>3, <2>6, <2>7 DEF SettingsInv, Conf!NumbersExplained
<1>9. CASE Conf!ApplyText
  <2>1. \A s \in Conf!Settings : Conf!InFile(s)' = Conf!InFile(s)
    <3>1. Conf!Entry.key \in Conf!Texts /\ applied' = applied + 1 /\ file' = file /\ applied \in Nat
      BY <1>9 DEF Conf!ApplyText, Conf!inputs, SettingsInv, SettingsTyped
    <3> QED  BY <3>1, OneMoreEntry DEF Conf!Settings, Conf!Texts
  <2>2. SettingsTyped' /\ stage = "entries" /\ UNCHANGED <<stage, cfg, issues>>
    BY <1>9 DEF Conf!ApplyText, Conf!inputs, SettingsInv, SettingsTyped
  <2>3. \A s \in Conf!Settings : FileWord(s)' = FileWord(s)
    BY <2>1 DEF FileWord
  <2> QED  BY <2>2, <2>3 DEF SettingsInv, Conf!NumbersExplained
<1>5. CASE Conf!ApplyName
  <2>1. \A s \in Conf!Settings : Conf!InFile(s)' = Conf!InFile(s)
    <3>1. Conf!Entry.key = "ENV" /\ applied' = applied + 1 /\ file' = file /\ applied \in Nat
      BY <1>5 DEF Conf!ApplyName, Conf!inputs, SettingsInv, SettingsTyped
    <3> QED  BY <3>1, OneMoreEntry DEF Conf!Settings
  <2>2. SettingsTyped' /\ stage = "entries" /\ UNCHANGED <<stage, cfg, issues>>
    BY <1>5 DEF Conf!ApplyName, Conf!inputs, SettingsInv, SettingsTyped
  <2>3. \A s \in Conf!Settings : FileWord(s)' = FileWord(s)
    BY <2>1 DEF FileWord
  <2> QED  BY <2>2, <2>3 DEF SettingsInv, Conf!NumbersExplained
<1>6. CASE Conf!EntriesDone
  <2>1. SettingsTyped' /\ stage = "entries" /\ stage' = "env" /\ UNCHANGED <<cfg, issues>>
        /\ \A s : FileWord(s)' = FileWord(s)
    BY <1>6 DEF Conf!EntriesDone, Conf!inputs, SettingsInv, SettingsTyped, FileWord, Conf!InFile
  <2> QED  BY <2>1 DEF SettingsInv, Conf!NumbersExplained
<1>7. CASE Conf!ApplyEnv
  <2> DEFINE given == {s \in Conf!Settings : env[s] # Absent}
             taken == {s \in given : Conf!Taken(s, env[s])}
  <2>1. /\ stage = "env" /\ stage' = "check" /\ UNCHANGED <<env, file, applied>>
        /\ cfg' = [s \in Conf!Settings |-> IF s \in taken THEN env[s] ELSE cfg[s]]
        /\ issues' = issues \cup (given \ taken)
    BY <1>7 DEF Conf!ApplyEnv, Conf!inputs
  <2>2. \A s \in taken : env[s] \in Number(s)
    BY TakenIsNumber DEF SettingsInv, SettingsTyped
  <2>3. SettingsTyped'
    <3>1. \A s \in Conf!Settings : cfg'[s] \in Number(s)
      BY <2>1, <2>2 DEF SettingsInv, SettingsTyped
    <3>2. cfg' = [s \in Conf!Settings |-> cfg'[s]]
      BY <2>1
    <3> QED  BY <2>1, <3>1, <3>2 DEF SettingsInv, SettingsTyped
  <2>4. ASSUME NEW s \in Conf!Settings PROVE cfg'[s] \in Conf!LastWord(s)' \/ s \in issues'
    <3>1. Conf!LastWord(s)' = Conf!LastWord(s)
      BY <2>1 DEF Conf!LastWord, Conf!InFile
    <3>2. CASE s \in taken
      BY <2>1, <3>1, <3>2 DEF Conf!LastWord
    <3>3. CASE s \in given \ taken
      BY <2>1, <3>3
    <3>4. CASE s \notin given
      <4>1. Conf!LastWord(s) = FileWord(s)
        BY <3>4 DEF Conf!LastWord, FileWord
      <4> QED  BY <2>1, <3>1, <3>4, <4>1 DEF SettingsInv
    <3> QED  BY <3>2, <3>3, <3>4
  <2> QED  BY <2>1, <2>3, <2>4 DEF SettingsInv, Conf!NumbersExplained
<1>8. CASE Conf!Check
  BY <1>8, CheckExplains
<1> QED  BY <1>1, <1>2, <1>3, <1>4, <1>5, <1>6, <1>7, <1>8, <1>9 DEF Conf!Next

\* Until the environment is read a text is the last usable one of the file, after
\* that the last usable one of all.
TextsInv ==
    /\ envTexts \in [Conf!Texts -> {"given", Absent}]
    /\ texts = [t \in Conf!Texts |-> texts[t]]
    /\ stage \in {"load", "entries", "env"} => \A t \in Conf!Texts : texts[t] \in Conf!FileText(t)
    /\ stage \in {"check", "done"} => \A t \in Conf!Texts : texts[t] \in Conf!LastText(t)

LEMMA TextsStart == ASSUME Conf!Init PROVE TextsInv
<1> USE DEF Conf!Init, Conf!Inputs, Conf!Start
<1>1. texts = [t \in Conf!Texts |-> texts[t]]
  BY DEF Conf!TextDefaults, Conf!Texts
<1>2. \A t \in Conf!Texts : texts[t] \in Conf!FileText(t)
  BY NothingYet DEF Conf!FileText, Conf!Usable
<1> QED  BY <1>1, <1>2 DEF TextsInv

\* An entry that is not one for a text says nothing of any text.
LEMMA OtherEntry ==
    ASSUME applied \in Nat, applied' = applied + 1, file' = file, Conf!Entry.key \notin Conf!Texts
    PROVE  \A t \in Conf!Texts : Conf!FileText(t)' = Conf!FileText(t)
<1>1. \A t \in Conf!Texts : Conf!InFile(t)' = Conf!InFile(t)
  BY OneMoreEntry
<1>2. \A t \in Conf!Texts : Conf!Usable(t)' = Conf!Usable(t)
  BY <1>1 DEF Conf!Usable, Conf!TakenText
<1> QED  BY <1>2 DEF Conf!FileText

\* One more entry for a text: it is taken over, or nothing changes.
LEMMA TextEntry ==
    ASSUME SettingsInv, TextsInv, Conf!ApplyText PROVE TextsInv'
<1>1. PICK key, raw : key = Conf!Entry.key /\ raw = Conf!Entry.raw
  OBVIOUS
<1>2. /\ stage = "entries" /\ stage' = "entries" /\ key \in Conf!Texts
      /\ texts' = IF Conf!TakenText(key, raw) THEN [texts EXCEPT ![key] = raw] ELSE texts
      /\ applied \in Nat /\ applied' = applied + 1 /\ UNCHANGED <<envTexts, file>>
  BY <1>1 DEF Conf!ApplyText, Conf!inputs, SettingsInv, SettingsTyped
<1>3. ASSUME NEW t \in Conf!Texts
      PROVE  Conf!Usable(t)' = Conf!Usable(t) \cup
                 (IF key = t /\ Conf!TakenText(key, raw) THEN {raw} ELSE {})
  <2>1. Conf!InFile(t)' = Conf!InFile(t) \cup (IF key = t THEN {raw} ELSE {})
    BY <1>1, <1>2, OneMoreEntry
  <2> QED  BY <2>1 DEF Conf!Usable, Conf!TakenText
<1>4. texts' = [t \in Conf!Texts |-> texts'[t]]
  BY <1>2 DEF TextsInv
<1>5. ASSUME NEW t \in Conf!Texts PROVE texts'[t] \in Conf!FileText(t)'
  <2>1. CASE key = t /\ Conf!TakenText(key, raw)
    BY <1>2, <1>3, <2>1 DEF TextsInv, Conf!FileText
  <2>2. CASE ~(key = t /\ Conf!TakenText(key, raw))
    <3>1. texts'[t] = texts[t] /\ Conf!Usable(t)' = Conf!Usable(t)
      BY <1>2, <1>3, <2>2 DEF TextsInv
    <3> QED  BY <1>2, <3>1 DEF TextsInv, Conf!FileText
  <2> QED  BY <2>1, <2>2
<1> QED  BY <1>2, <1>4, <1>5 DEF TextsInv

LEMMA SameTexts ==
    ASSUME UNCHANGED <<envTexts, file, applied>>
    PROVE  \A t : Conf!FileText(t)' = Conf!FileText(t) /\ Conf!LastText(t)' = Conf!LastText(t)
<1>1. \A t : Conf!InFile(t)' = Conf!InFile(t)
  BY DEF Conf!InFile
<1>2. \A t : Conf!Usable(t)' = Conf!Usable(t)
  BY <1>1 DEF Conf!Usable, Conf!TakenText
<1>3. \A t : Conf!FileText(t)' = Conf!FileText(t)
  BY <1>2 DEF Conf!FileText
<1> QED  BY <1>3 DEF Conf!LastText

LEMMA TextsStep ==
    ASSUME SettingsInv, TextsInv, [Conf!Next]_confVars PROVE TextsInv'
<1> USE DEF TextsInv
<1>1. CASE UNCHANGED confVars
  BY <1>1, SameTexts DEF confVars
<1>2. CASE Conf!NoFile
  <2>1. stage = "load" /\ stage' = "env" /\ UNCHANGED <<envTexts, texts, file, applied>>
    BY <1>2 DEF Conf!NoFile, Conf!inputs
  <2> QED  BY <2>1, SameTexts
<1>3. CASE Conf!FileLoaded
  <2>1. stage = "load" /\ stage' = "entries" /\ UNCHANGED <<envTexts, texts, file, applied>>
    BY <1>3 DEF Conf!FileLoaded, Conf!inputs
  <2> QED  BY <2>1, SameTexts
<1>4. CASE Conf!EntriesDone
  <2>1. stage = "entries" /\ stage' = "env" /\ UNCHANGED <<envTexts, texts, file, applied>>
    BY <1>4 DEF Conf!EntriesDone, Conf!inputs
  <2> QED  BY <2>1, SameTexts
<1>5. CASE Conf!ApplyEnv
  <2>1. /\ stage = "env" /\ stage' = "check" /\ UNCHANGED <<envTexts, file, applied>>
        /\ texts' = [t \in Conf!Texts |-> IF envTexts[t] # Absent THEN envTexts[t] ELSE texts[t]]
    BY <1>5 DEF Conf!ApplyEnv, Conf!inputs
  <2>2. \A t \in Conf!Texts : texts'[t] \in Conf!LastText(t)
    BY <2>1 DEF Conf!LastText
  <2> QED  BY <2>1, <2>2, SameTexts
<1>6. CASE Conf!Check
  <2>1. stage = "check" /\ stage' = "done" /\ UNCHANGED <<envTexts, texts, file, applied>>
    BY <1>6 DEF Conf!Check, Conf!inputs
  <2> QED  BY <2>1, SameTexts
<1>7. CASE Conf!ApplyText
  BY <1>7, TextEntry
<1>8. CASE Conf!ApplyNumber \/ Conf!ApplyName
  <2>1. /\ stage = "entries" /\ stage' = "entries" /\ UNCHANGED <<envTexts, texts, file>>
        /\ applied \in Nat /\ applied' = applied + 1 /\ Conf!Entry.key \notin Conf!Texts
    BY <1>8 DEF Conf!ApplyNumber, Conf!ApplyName, Conf!inputs, SettingsInv, SettingsTyped, Conf!Settings, Conf!Texts
  <2>2. \A t \in Conf!Texts : Conf!FileText(t)' = Conf!FileText(t)
    BY <2>1, OtherEntry
  <2> QED  BY <2>1, <2>2
<1> QED  BY <1>1, <1>2, <1>3, <1>4, <1>5, <1>6, <1>7, <1>8 DEF Conf!Next

-----------------------------------------------------------------------------
(* Scheduler: the least and the greatest of a set of naturals.             *)

LEMMA LeastExists ==
    ASSUME NEW S \in SUBSET Nat, S # {}
    PROVE  Core!Min(S) \in S /\ \A y \in S : Core!Min(S) <= y
<1>1. \E x \in S : \A y \in S : ~(<<y, x>> \in OpToRel(<, Nat))
  BY NatLessThanWellFounded, WFMin
<1>2. \A x, y \in Nat : y < x => <<y, x>> \in OpToRel(<, Nat)
  BY DEF OpToRel
<1>3. \E x \in S : \A y \in S : x <= y
  <2>1. PICK x \in S : \A y \in S : ~(<<y, x>> \in OpToRel(<, Nat))
    BY <1>1
  <2>2. ASSUME NEW y \in S PROVE x <= y
    <3>1. x \in Nat /\ y \in Nat /\ ~(y < x)
      BY <1>2, <2>1
    <3> QED  BY <3>1
  <2> QED  BY <2>2
<1> QED  BY <1>3 DEF Core!Min

LEMMA GreatestExists ==
    ASSUME NEW k \in Nat, NEW S \in SUBSET (0 .. k), S # {}
    PROVE  Core!Max(S) \in S /\ \A y \in S : Core!Max(S) >= y
<1> DEFINE T == {k - x : x \in S}
<1>0. \A x \in S : x \in Int /\ k - x \in Nat
  OBVIOUS
<1>1. T \in SUBSET Nat /\ T # {}
  BY <1>0
<1>2. Core!Min(T) \in T /\ \A y \in T : Core!Min(T) <= y
  BY <1>1, LeastExists
<1>3. PICK x \in S : Core!Min(T) = k - x
  BY <1>2
<1>4. \A y \in S : x >= y
  <2>1. ASSUME NEW y \in S PROVE x >= y
    <3>1. k - y \in T
      OBVIOUS
    <3> HIDE DEF T
    <3>2. k - x <= k - y
      BY <1>2, <1>3, <3>1
    <3> QED  BY <1>0, <3>2
  <2> QED  BY <2>1
<1>5. \E q \in S : \A y \in S : q >= y
  BY <1>4
<1> QED  BY <1>5 DEF Core!Max

\* The instance's Cardinality is the one of the library's theorems.
LEMMA SameCount == ASSUME NEW S PROVE Core!Cardinality(S) = Cardinality(S)
BY DEF Core!Cardinality, Cardinality

-----------------------------------------------------------------------------
(* Scheduler: global-assign.                                               *)

PathIds == Warehouses \cup {Blank}

\* The code's count of each warehouse is the number of tasks given to it.
AssignInv ==
    /\ request \in Core!RequestSet
    /\ assigned \in Seq(PathIds)
    /\ Len(assigned) <= Len(Core!Tasks)
    /\ loads \in [PathIds -> Nat]
    /\ \A w \in PathIds : loads[w] = Cardinality(Core!PlacedIn(w))
    /\ Core!NoMovePays

\* A request is a sequence of tasks; a candidate is an id.
LEMMA TasksTyped ==
    ASSUME PathAssumption, request \in Core!RequestSet
    PROVE  /\ Len(Core!Tasks) \in Nat /\ DOMAIN Core!Tasks = 1 .. Len(Core!Tasks)
           /\ request.kind = "global" => \A n \in DOMAIN Core!Tasks : Core!Tasks[n] \in Core!GlobalTask
           /\ request.kind = "local" => \A n \in DOMAIN Core!Tasks : Core!Tasks[n] \in Core!LocalTask
           /\ request.kind = "local" => request.robots \in RobotLists
           /\ request.kind \in {"global", "local"}
<1>1. PICK q : q = request
  OBVIOUS
<1>2. \/ /\ q \in [kind : {"global"}, complete : BOOLEAN,
                   tasks : Core!SeqOf(Core!GlobalTask, MaxTasks), robots : {<<>>}]
      \/ /\ q \in [kind : {"local"}, complete : BOOLEAN,
                   tasks : Core!SeqOf(Core!LocalTask, MaxTasks), robots : RobotLists]
  BY <1>1 DEF Core!RequestSet
<1>3. Core!Tasks = q.tasks
  BY <1>1 DEF Core!Tasks
<1>4. \/ q.kind = "global" /\ q.tasks \in Core!SeqOf(Core!GlobalTask, MaxTasks)
      \/ q.kind = "local" /\ q.tasks \in Core!SeqOf(Core!LocalTask, MaxTasks) /\ q.robots \in RobotLists
  BY <1>2
<1>5. ASSUME NEW S, q.tasks \in Core!SeqOf(S, MaxTasks)
      PROVE  /\ Len(q.tasks) \in Nat /\ DOMAIN q.tasks = 1 .. Len(q.tasks)
             /\ \A n \in DOMAIN q.tasks : q.tasks[n] \in S
  <2>1. PICK m \in 0 .. MaxTasks : q.tasks \in [1 .. m -> S]
    BY <1>5 DEF Core!SeqOf
  <2>2. m \in Nat
    BY PathAssumption DEF PathAssumption, Core!SchedulerAssumption
  <2> QED  BY <2>1, <2>2
<1> QED  BY <1>1, <1>3, <1>4, <1>5

LEMMA CandidatesTyped ==
    ASSUME PathAssumption, NEW task \in Core!GlobalTask
    PROVE  /\ task.candidates \in Seq(PathIds)
           /\ task.pin \in PathIds
           /\ task.pin # Blank => task.candidates = <<>>
<1>1. PICK t : t = task
  OBVIOUS
<1>2. \/ t \in [named : {TRUE}, pin : Warehouses, candidates : {<<>>}]
      \/ t \in [named : {TRUE}, pin : {Blank}, candidates : CandidateLists]
      \/ t \in [named : {FALSE}, pin : {Blank}, candidates : {<<>>}]
  BY <1>1 DEF Core!GlobalTask
<1>3. t.pin \in PathIds /\ (t.candidates = <<>> \/ (t.pin = Blank /\ t.candidates \in CandidateLists))
  BY <1>2 DEF PathIds
<1>4. CandidateLists \subseteq Seq(PathIds)
  BY PathAssumption DEF PathAssumption, Core!SchedulerAssumption, PathIds
<1>5. <<>> \in Seq(PathIds)
  OBVIOUS
<1>6. t.candidates \in Seq(PathIds) /\ t.pin \in PathIds /\ (t.pin # Blank => t.candidates = <<>>)
  BY <1>3, <1>4, <1>5
<1> QED  BY <1>1, <1>6

\* The places of a warehouse's tasks are finitely many.
LEMMA PlacedFinite ==
    ASSUME assigned \in Seq(PathIds), NEW w
    PROVE  /\ IsFiniteSet(Core!PlacedIn(w))
           /\ Core!PlacedIn(w) \in SUBSET (1 .. Len(assigned))
<1>1. Len(assigned) \in Nat /\ DOMAIN assigned = 1 .. Len(assigned)
  OBVIOUS
<1>2. Core!PlacedIn(w) \in SUBSET (1 .. Len(assigned))
  BY <1>1 DEF Core!PlacedIn
<1>3. IsFiniteSet(1 .. Len(assigned))
  BY <1>1, FS_Interval
<1> QED  BY <1>2, <1>3, FS_Subset

\* A chosen warehouse is a candidate, and no candidate is less loaded.
LEMMA ChosenIsLeast ==
    ASSUME NEW candidates \in Seq(PathIds), loads \in [PathIds -> Nat]
    PROVE  /\ Core!ChooseWarehouse(candidates) \in PathIds
           /\ \A c \in Core!ToSet(candidates) \ {Blank} :
                  c \in PathIds /\ loads[Core!ChooseWarehouse(candidates)] <= loads[c]
<1> DEFINE given == {n \in DOMAIN candidates : candidates[n] # Blank}
           least == {n \in given : \A k \in given : loads[candidates[n]] <= loads[candidates[k]]}
<1>1. \A n \in DOMAIN candidates : candidates[n] \in PathIds /\ loads[candidates[n]] \in Nat
  OBVIOUS
<1>2. CASE given = {}
  BY <1>2 DEF Core!ChooseWarehouse, Core!ToSet, PathIds
<1>3. CASE given # {}
  <2> DEFINE counts == {loads[candidates[n]] : n \in given}
  <2>1. counts \in SUBSET Nat /\ counts # {}
    BY <1>1, <1>3
  <2>2. Core!Min(counts) \in counts /\ \A y \in counts : Core!Min(counts) <= y
    BY <2>1, LeastExists
  <2>3. PICK n \in given : loads[candidates[n]] = Core!Min(counts)
    BY <2>2
  <2>4. n \in least
    BY <2>2, <2>3
  <2>5. least \in SUBSET Nat /\ least # {}
    BY <2>4
  <2>6. Core!Min(least) \in least
    BY <2>5, LeastExists
  <2>7. Core!ChooseWarehouse(candidates) = candidates[Core!Min(least)]
    BY <1>3 DEF Core!ChooseWarehouse
  <2> HIDE DEF least
  <2>8. PICK m : m = Core!Min(least)
    OBVIOUS
  <2>9. m \in given /\ \A k \in given : loads[candidates[m]] <= loads[candidates[k]]
    BY <2>6, <2>8 DEF least
  <2> QED  BY <1>1, <2>7, <2>8, <2>9 DEF Core!ToSet
<1> QED  BY <1>2, <1>3

LEMMA AssignStart == ASSUME PathAssumption, Core!Init PROVE AssignInv
<1> USE DEF Core!Init, Core!Start
<1>1. \A w : Core!PlacedIn(w) = {}
  BY DEF Core!PlacedIn
<1>2. request \in Core!RequestSet /\ Len(Core!Tasks) \in Nat
  BY TasksTyped
<1>3. loads = [w \in PathIds |-> 0] /\ assigned = <<>>
  BY DEF PathIds
<1>4. Core!NoMovePays
  BY <1>1 DEF Core!NoMovePays
<1>5. Cardinality({}) = 0
  BY FS_EmptySet
<1> HIDE DEF Core!Init
<1> QED  BY <1>1, <1>2, <1>3, <1>4, <1>5 DEF AssignInv

\* One task more: the last of its warehouse, and where it was chosen no candidate
\* had fewer.
LEMMA OneMoreTask ==
    ASSUME PathAssumption, AssignInv, Core!AssignNext PROVE AssignInv'
<1> DEFINE n == Len(assigned) + 1
           task == Core!Tasks[n]
           w == IF task.pin # Blank THEN task.pin ELSE Core!ChooseWarehouse(task.candidates)
<1>1. /\ request \in Core!RequestSet /\ assigned \in Seq(PathIds) /\ Len(assigned) \in Nat
      /\ request.kind = "global" /\ Len(assigned) < Len(Core!Tasks)
      /\ loads \in [PathIds -> Nat]
      /\ \A v \in PathIds : loads[v] = Cardinality(Core!PlacedIn(v))
  BY DEF AssignInv, Core!AssignNext, Core!MoreToAssign, Core!Working
<1>2. /\ assigned' = Append(assigned, w) /\ loads' = [loads EXCEPT ![w] = @ + 1]
      /\ request' = request /\ Core!Tasks' = Core!Tasks
  BY DEF Core!AssignNext, Core!Current, Core!Tasks
<1>3. n \in DOMAIN Core!Tasks /\ task \in Core!GlobalTask /\ Len(Core!Tasks) \in Nat
      /\ \A k \in 1 .. Len(Core!Tasks) : Core!Tasks[k] \in Core!GlobalTask
  BY <1>1, TasksTyped
<1>4. task.candidates \in Seq(PathIds) /\ task.pin \in PathIds
      /\ (task.pin # Blank => task.candidates = <<>>)
  BY <1>3, CandidatesTyped
<1>5. w \in PathIds
      /\ (task.pin = Blank => \A c \in Core!ToSet(task.candidates) \ {Blank} :
                                 c \in PathIds /\ loads[w] <= loads[c])
  BY <1>1, <1>4, ChosenIsLeast
<1> HIDE DEF w
<1>6. /\ assigned' \in Seq(PathIds) /\ Len(assigned') = n /\ assigned'[n] = w
      /\ \A k \in 1 .. Len(assigned) : assigned'[k] = assigned[k]
      /\ DOMAIN assigned' = 1 .. n /\ DOMAIN assigned = 1 .. Len(assigned)
  BY <1>1, <1>2, <1>5
<1>7. ASSUME NEW v
      PROVE  Core!PlacedIn(v)' = IF v = w THEN Core!PlacedIn(v) \cup {n} ELSE Core!PlacedIn(v)
  BY <1>1, <1>6 DEF Core!PlacedIn
<1>8. \A v : n \notin Core!PlacedIn(v) /\ IsFiniteSet(Core!PlacedIn(v))
             /\ Cardinality(Core!PlacedIn(v)) \in Nat
  BY <1>1, PlacedFinite, FS_CardinalityType
<1>9. ASSUME NEW v
      PROVE  Cardinality(Core!PlacedIn(v)') =
                 IF v = w THEN Cardinality(Core!PlacedIn(v)) + 1 ELSE Cardinality(Core!PlacedIn(v))
  BY <1>7, <1>8, FS_AddElement
<1>10. loads' \in [PathIds -> Nat]
       /\ \A v \in PathIds : loads'[v] = Cardinality(Core!PlacedIn(v)')
  BY <1>1, <1>2, <1>5, <1>9
<1>11. ASSUME NEW v \in Warehouses, NEW S, S = Core!PlacedIn(v)', S # {},
              NEW m, m = Core!Max(S), Core!Tasks[m].pin = Blank,
              NEW c \in Core!ToSet(Core!Tasks[m].candidates) \ {Blank}
       PROVE  Cardinality(S) - 1 <= Cardinality(Core!PlacedIn(c)')
  <2>1. CASE v = w
    <3>1. S \in SUBSET (0 .. n) /\ n \in S /\ n \in Nat
      BY <1>1, <1>7, <1>11, <2>1, PlacedFinite
    <3>2. m \in S /\ m >= n
      BY <1>11, <3>1, GreatestExists
    <3>3. m = n
      BY <3>1, <3>2
    <3>4. c \in PathIds /\ loads[w] <= loads[c]
      BY <1>5, <1>11, <3>3
    <3> QED  BY <1>1, <1>5, <1>8, <1>9, <1>11, <2>1, <3>4
  <2>2. CASE v # w
    <3>1. S = Core!PlacedIn(v)
      BY <1>7, <1>11, <2>2
    <3>2. Cardinality(S) - 1 <= Cardinality(Core!PlacedIn(c))
      <4>1. Core!NoMovePays
        BY DEF AssignInv
      <4> QED  BY <1>11, <3>1, <4>1, SameCount DEF Core!NoMovePays
    <3> QED  BY <1>8, <1>9, <3>1, <3>2
  <2> QED  BY <2>1, <2>2
<1>12. Core!NoMovePays'
  <2> SUFFICES ASSUME NEW v \in Warehouses, Core!PlacedIn(v)' # {},
                      Core!Tasks'[Core!Max(Core!PlacedIn(v)')].pin = Blank,
                      NEW c \in Core!ToSet(Core!Tasks'[Core!Max(Core!PlacedIn(v)')].candidates) \ {Blank}
               PROVE  Cardinality(Core!PlacedIn(v)') - 1 <= Cardinality(Core!PlacedIn(c)')
    BY SameCount DEF Core!NoMovePays
  <2> QED  BY <1>2, <1>11
<1> QED  BY <1>1, <1>2, <1>3, <1>6, <1>10, <1>12 DEF AssignInv

LEMMA AssignStep ==
    ASSUME PathAssumption, AssignInv, [Core!Next]_coreVars PROVE AssignInv'
<1>1. CASE UNCHANGED <<request, assigned, loads>>
  <2>1. Core!Tasks' = Core!Tasks /\ (\A w : Core!PlacedIn(w)' = Core!PlacedIn(w))
    BY <1>1 DEF Core!Tasks, Core!PlacedIn
  <2> QED  BY <1>1, <2>1 DEF AssignInv, Core!NoMovePays
<1>2. CASE Core!AssignNext
  BY <1>2, OneMoreTask
<1> QED  BY <1>1, <1>2 DEF coreVars, Core!Next, Core!Refuse, Core!RefuseNext, Core!Assigned,
             Core!RefuseUnnamed, Core!InsertNext, Core!DealOut, Core!Answer, Core!Finish

-----------------------------------------------------------------------------
(* Scheduler: the order of local-schedule.                                 *)

\* The tasks sorted so far are the first of the request, in their right order;
\* the schedule deals out all of them in turn.
ScheduleInv ==
    /\ request \in Core!RequestSet
    /\ order \in Seq(Nat) /\ Len(order) <= Len(Core!Tasks)
    /\ \A p \in 1 .. Len(order) : order[p] \in 1 .. Len(order)
    /\ \A p, q \in 1 .. Len(order) : p < q => Core!Earlier(order[p], order[q])
    /\ order # <<>> => request.kind = "local"
    /\ schedule # <<>> =>
        /\ request.kind = "local" /\ result # "working"
        /\ Len(order) = Len(Core!Tasks)
        /\ schedule = [p \in DOMAIN order |-> [task |-> order[p], robot |-> Core!Turn(p)]]

\* What the comparison and the order compare.
LEMMA Comparable ==
    ASSUME PathAssumption, request \in Core!RequestSet, request.kind = "local",
           NEW a \in 1 .. Len(Core!Tasks)
    PROVE  Core!Tasks[a].priority \in Int /\ Core!Tasks[a].created \in Int
<1>1. PICK t \in Core!LocalTask : t = Core!Tasks[a]
  BY TasksTyped
<1>2. t \in [named : {TRUE}, priority : 0 .. 1, created : 0 .. 2]
      \/ t \in [named : {FALSE}, priority : {0}, created : {0}]
  BY DEF Core!LocalTask
<1>3. CASE t \in [named : {TRUE}, priority : 0 .. 1, created : 0 .. 2]
  <2>1. t.priority \in 0 .. 1 /\ t.created \in 0 .. 2
    BY <1>3
  <2> QED  BY <1>1, <2>1
<1>4. CASE t \in [named : {FALSE}, priority : {0}, created : {0}]
  <2>1. t.priority = 0 /\ t.created = 0
    BY <1>4
  <2> QED  BY <1>1, <2>1
<1> QED  BY <1>2, <1>3, <1>4

LEMMA EarlierTransitive ==
    ASSUME PathAssumption, request \in Core!RequestSet, request.kind = "local",
           NEW a \in 1 .. Len(Core!Tasks), NEW b \in 1 .. Len(Core!Tasks),
           NEW c \in 1 .. Len(Core!Tasks), Core!Earlier(a, b), Core!Earlier(b, c)
    PROVE  Core!Earlier(a, c)
<1>1. \A t \in {a, b, c} : t \in Int /\ Core!Tasks[t].priority \in Int /\ Core!Tasks[t].created \in Int
  BY Comparable, TasksTyped
<1> QED  BY <1>1 DEF Core!Earlier

\* The comparison puts a later task of the request before another exactly when it
\* is more urgent or older.
LEMMA LessIsEarlier ==
    ASSUME PathAssumption, request \in Core!RequestSet, request.kind = "local",
           NEW a \in 1 .. Len(Core!Tasks), NEW n \in 1 .. Len(Core!Tasks), a < n
    PROVE  IF Core!Less(n, a) THEN Core!Earlier(n, a) ELSE Core!Earlier(a, n)
<1>1. \A t \in {a, n} : t \in Int /\ Core!Tasks[t].priority \in Int /\ Core!Tasks[t].created \in Int
  BY Comparable, TasksTyped
<1> QED  BY <1>1 DEF Core!Earlier, Core!Less

\* What InsertAt makes of a sequence.
LEMMA Inserted ==
    ASSUME NEW s \in Seq(Nat), NEW m \in 0 .. Len(s), NEW e \in Nat
    PROVE  LET t == Core!InsertAt(s, 1 + m, e)
           IN  /\ t \in Seq(Nat) /\ Len(t) = Len(s) + 1
               /\ \A p \in 1 .. m : t[p] = s[p]
               /\ t[m + 1] = e
               /\ \A p \in (m + 2) .. (Len(s) + 1) : t[p] = s[p - 1]
<1> DEFINE u == SubSeq(s, 1, m)
           v == SubSeq(s, m + 1, Len(s))
<1>1. m \in Nat /\ Len(s) \in Nat /\ m <= Len(s)
  OBVIOUS
<1>2. u \in Seq(Nat) /\ Len(u) = m /\ \A p \in 1 .. m : u[p] = s[p]
  BY <1>1
<1>3. v \in Seq(Nat) /\ Len(v) = Len(s) - m /\ \A p \in 1 .. (Len(s) - m) : v[p] = s[m + p]
  BY <1>1
<1>4. Core!InsertAt(s, 1 + m, e) = u \o <<e>> \o v
  <2>1. (1 + m) - 1 = m /\ 1 + m = m + 1
    BY <1>1
  <2> QED  BY <2>1 DEF Core!InsertAt
<1> HIDE DEF u, v
<1> DEFINE x == u \o <<e>>
<1>5. /\ x \in Seq(Nat) /\ Len(x) = m + 1 /\ x[m + 1] = e
      /\ \A p \in 1 .. m : x[p] = s[p]
  BY <1>1, <1>2
<1> HIDE DEF x
<1> DEFINE t == x \o v
<1>6. /\ t \in Seq(Nat) /\ Len(t) = Len(s) + 1
      /\ \A p \in 1 .. (m + 1) : t[p] = x[p]
      /\ \A p \in (m + 2) .. (Len(s) + 1) : t[p] = v[p - (m + 1)]
  <2>1. t \in Seq(Nat) /\ Len(t) = Len(x) + Len(v)
    BY <1>3, <1>5, ConcatProperties
  <2>2. \A p \in 1 .. Len(x) : t[p] = x[p]
    BY <1>3, <1>5
  <2>3. \A p \in (Len(x) + 1) .. (Len(x) + Len(v)) : t[p] = v[p - Len(x)]
    <3>1. \A p \in 1 .. (Len(x) + Len(v)) :
              t[p] = IF p <= Len(x) THEN x[p] ELSE v[p - Len(x)]
      BY <1>3, <1>5, ConcatProperties
    <3>2. Len(x) \in Nat /\ Len(v) \in Nat
      BY <1>3, <1>5
    <3> QED  BY <3>1, <3>2
  <2>4. Len(x) + 1 = m + 2 /\ Len(x) + Len(v) = Len(s) + 1
    BY <1>1, <1>3, <1>5
  <2> QED  BY <1>5, <2>1, <2>2, <2>3, <2>4
<1>7. \A p \in (m + 2) .. (Len(s) + 1) : t[p] = s[p - 1]
  <2>1. ASSUME NEW p \in (m + 2) .. (Len(s) + 1) PROVE t[p] = s[p - 1]
    <3>1. p - (m + 1) \in 1 .. (Len(s) - m) /\ m + (p - (m + 1)) = p - 1
      BY <1>1
    <3> QED  BY <1>3, <1>6, <3>1
  <2> QED  BY <2>1
<1> HIDE DEF t
<1>8. Core!InsertAt(s, 1 + m, e) = t
  BY <1>4 DEF t, x
<1>9. \A p \in 1 .. m : t[p] = s[p]
  BY <1>1, <1>5, <1>6
<1>10. t[m + 1] = e
  <2>1. m + 1 \in 1 .. (m + 1)
    BY <1>1
  <2> QED  BY <1>5, <1>6, <2>1
<1> QED  BY <1>6, <1>7, <1>8, <1>9, <1>10

\* The place where the sort puts a task: after all that stay before it.
LEMMA InsertKeepsOrder ==
    ASSUME PathAssumption, ScheduleInv, Core!InsertNext
    PROVE  /\ order' \in Seq(Nat) /\ Len(order') = Len(order) + 1
           /\ \A p \in 1 .. Len(order') : order'[p] \in 1 .. Len(order')
           /\ \A p, q \in 1 .. Len(order') : p < q => Core!Earlier(order'[p], order'[q])
<1> DEFINE k     == Len(order)
           n     == k + 1
           stays == {p \in DOMAIN order : ~Core!Less(n, order[p])}
           m     == Core!Max(stays \cup {0})
<1>1. /\ order \in Seq(Nat) /\ k \in Nat /\ DOMAIN order = 1 .. k
      /\ n \in 1 .. Len(Core!Tasks) /\ Len(Core!Tasks) \in Nat
      /\ request \in Core!RequestSet /\ request.kind = "local"
      /\ order' = Core!InsertAt(order, 1 + m, n)
      /\ \A p \in 1 .. k : order[p] \in 1 .. k
      /\ \A p, q \in 1 .. k : p < q => Core!Earlier(order[p], order[q])
  <2>1. /\ order \in Seq(Nat) /\ request \in Core!RequestSet /\ request.kind = "local"
        /\ \A p \in 1 .. k : order[p] \in 1 .. k
        /\ \A p, q \in 1 .. k : p < q => Core!Earlier(order[p], order[q])
    BY DEF ScheduleInv, Core!InsertNext, Core!Working
  <2>2. order' = Core!InsertAt(order, 1 + m, n) /\ n <= Len(Core!Tasks)
    BY DEF Core!InsertNext
  <2> QED  BY <2>1, <2>2, TasksTyped
<1>2. m \in 0 .. k /\ m \in stays \cup {0} /\ \A p \in stays \cup {0} : m >= p
  <2>1. stays \cup {0} \in SUBSET (0 .. k) /\ stays \cup {0} # {}
    BY <1>1
  <2> QED  BY <1>1, <2>1, GreatestExists
<1>3. \A p \in 1 .. k : IF p \in stays THEN Core!Earlier(order[p], n) ELSE Core!Earlier(n, order[p])
  <2>1. ASSUME NEW p \in 1 .. k
        PROVE  IF p \in stays THEN Core!Earlier(order[p], n) ELSE Core!Earlier(n, order[p])
    <3>1. order[p] \in 1 .. Len(Core!Tasks) /\ order[p] < n
      BY <1>1
    <3> QED  BY <1>1, <3>1, LessIsEarlier
  <2> QED  BY <2>1
<1>3a. k = Len(order) /\ n = k + 1 /\ n \in Nat /\ Len(order) + 1 = n
  BY <1>1
<1> HIDE DEF stays, m, n, k
<1>4. /\ order' \in Seq(Nat) /\ Len(order') = n
      /\ \A p \in 1 .. m : order'[p] = order[p]
      /\ order'[m + 1] = n
      /\ \A p \in (m + 2) .. n : order'[p] = order[p - 1]
  <2>1. m \in 0 .. Len(order)
    BY <1>2, <1>3a
  <2>2. PICK t : t = Core!InsertAt(order, 1 + m, n)
    OBVIOUS
  <2>3. /\ t \in Seq(Nat) /\ Len(t) = Len(order) + 1
        /\ \A p \in 1 .. m : t[p] = order[p]
        /\ t[m + 1] = n
        /\ \A p \in (m + 2) .. (Len(order) + 1) : t[p] = order[p - 1]
    BY <1>1, <1>3a, <2>1, <2>2, Inserted
  <2> QED  BY <1>1, <1>3a, <2>2, <2>3
<1>5. ASSUME NEW p \in 1 .. m PROVE Core!Earlier(order[p], n)
  <2>1. m \in 1 .. k /\ m \in stays /\ Core!Earlier(order[m], n)
    BY <1>1, <1>2, <1>3
  <2>2. CASE p = m
    BY <2>1, <2>2
  <2>3. CASE p < m
    <3>1. Core!Earlier(order[p], order[m]) /\ order[p] \in 1 .. k /\ order[m] \in 1 .. k
      BY <1>1, <2>1, <2>3
    <3>2. order[p] \in 1 .. Len(Core!Tasks) /\ order[m] \in 1 .. Len(Core!Tasks)
      BY <1>1, <1>3a, <3>1
    <3> QED  BY <1>1, <2>1, <3>1, <3>2, EarlierTransitive
  <2> QED  BY <1>1, <2>1, <2>2, <2>3
<1>6. ASSUME NEW p \in (m + 1) .. k PROVE Core!Earlier(n, order[p])
  <2>1. p \in 1 .. k /\ p \notin stays
    BY <1>1, <1>2
  <2> QED  BY <1>3, <2>1
<1>7. ASSUME NEW p \in 1 .. n PROVE order'[p] \in 1 .. n
  <2>1. m \in Nat /\ k \in Nat /\ n = k + 1 /\ m <= k
    BY <1>1, <1>2, <1>3a
  <2>2. CASE p <= m
    <3>1. order'[p] = order[p] /\ p \in 1 .. k
      BY <1>4, <2>1, <2>2
    <3> QED  BY <1>1, <2>1, <3>1
  <2>3. CASE p = m + 1   BY <1>4, <2>1, <2>3
  <2>4. CASE p > m + 1
    <3>1. p \in (m + 2) .. n /\ p - 1 \in 1 .. k
      BY <1>1, <2>1, <2>4
    <3>2. order'[p] = order[p - 1] /\ order[p - 1] \in 1 .. k
      BY <1>1, <1>4, <3>1
    <3> QED  BY <2>1, <3>2
  <2> QED  BY <1>1, <2>1, <2>2, <2>3, <2>4
<1>8. ASSUME NEW p \in 1 .. n, NEW q \in 1 .. n, p < q
      PROVE  Core!Earlier(order'[p], order'[q])
  <2>1. m \in Nat /\ k \in Nat /\ n = k + 1 /\ m <= k
    BY <1>1, <1>2, <1>3a
  <2>2. CASE q <= m
    <3>1. order'[p] = order[p] /\ order'[q] = order[q] /\ p \in 1 .. k /\ q \in 1 .. k
      BY <1>4, <1>8, <2>1, <2>2
    <3> QED  BY <1>1, <1>8, <3>1
  <2>3. CASE q = m + 1
    <3>1. order'[p] = order[p] /\ order'[q] = n /\ p \in 1 .. m
      BY <1>4, <1>8, <2>1, <2>3
    <3> QED  BY <1>5, <3>1
  <2>4. CASE q > m + 1
    <3>1. order'[q] = order[q - 1] /\ q - 1 \in (m + 1) .. k
      BY <1>4, <2>1, <2>4
    <3>2. CASE p <= m
      <4>1. order'[p] = order[p] /\ p \in 1 .. k /\ q - 1 \in 1 .. k /\ p < q - 1
        BY <1>4, <2>1, <2>4, <3>2
      <4> QED  BY <1>1, <3>1, <4>1
    <3>3. CASE p = m + 1
      BY <1>4, <1>6, <3>1, <3>3
    <3>4. CASE p > m + 1
      <4>1. p \in (m + 2) .. n /\ p - 1 \in 1 .. k /\ q - 1 \in 1 .. k /\ p - 1 < q - 1
        BY <1>8, <2>1, <2>4, <3>4
      <4>2. order'[p] = order[p - 1]
        BY <1>4, <4>1
      <4> QED  BY <1>1, <3>1, <4>1, <4>2
    <3> QED  BY <1>1, <2>1, <3>2, <3>3, <3>4
  <2> QED  BY <1>1, <2>1, <2>2, <2>3, <2>4
<1> QED  BY <1>3a, <1>4, <1>7, <1>8

LEMMA ScheduleStart == ASSUME PathAssumption, Core!Init PROVE ScheduleInv
<1>1. order = <<>> /\ schedule = <<>> /\ request \in Core!RequestSet
  BY DEF Core!Init, Core!Start
<1>2. order \in Seq(Nat) /\ Len(order) = 0
  BY <1>1
<1> QED  BY <1>1, <1>2, TasksTyped DEF ScheduleInv

LEMMA ScheduleStep ==
    ASSUME PathAssumption, ScheduleInv, [Core!Next]_coreVars PROVE ScheduleInv'
<1>1. CASE /\ UNCHANGED <<request, order, schedule>>
           /\ result = "working" \/ result' = result \/ result' # "working"
  <2>1. /\ Core!Tasks' = Core!Tasks
        /\ \A a, b : Core!Earlier(a, b)' = Core!Earlier(a, b)
        /\ \A p : Core!Turn(p)' = Core!Turn(p)
    BY <1>1 DEF Core!Tasks, Core!Earlier, Core!Turn, Core!Given, Core!Place
  <2>2. (request \in Core!RequestSet)' = (request' \in Core!RequestSet)
    BY DEF Core!RequestSet, Core!GlobalTask, Core!LocalTask, Core!SeqOf
  <2>3. result # "working" => result' # "working"
    BY <1>1
  <2> QED  BY <1>1, <2>1, <2>2, <2>3 DEF ScheduleInv
<1>2. CASE Core!InsertNext
  <2>1. /\ UNCHANGED <<request, schedule, result>> /\ result = "working"
        /\ request.kind = "local" /\ Len(order) + 1 <= Len(Core!Tasks)
    BY <1>2 DEF Core!InsertNext, Core!Working
  <2>2. /\ Core!Tasks' = Core!Tasks
        /\ \A a, b : Core!Earlier(a, b)' = Core!Earlier(a, b)
    BY <2>1 DEF Core!Tasks, Core!Earlier
  <2>3. schedule = <<>>
    BY <2>1 DEF ScheduleInv
  <2>4. (\A p, q \in 1 .. Len(order) : p < q => Core!Earlier(order[p], order[q]))'
    BY <1>2, <2>2, InsertKeepsOrder
  <2> QED  BY <1>2, <2>1, <2>2, <2>3, <2>4, InsertKeepsOrder DEF ScheduleInv
<1>3. CASE Core!DealOut
  <2>1. /\ UNCHANGED <<request, order>> /\ result' = "decided"
        /\ request.kind = "local" /\ Len(order) = Len(Core!Tasks)
        /\ schedule' = [p \in DOMAIN order |-> [task |-> order[p], robot |-> Core!Turn(p)]]
    BY <1>3 DEF Core!DealOut, Core!Working
  <2>2. /\ Core!Tasks' = Core!Tasks
        /\ \A a, b : Core!Earlier(a, b)' = Core!Earlier(a, b)
        /\ \A p : Core!Turn(p)' = Core!Turn(p)
    BY <2>1 DEF Core!Tasks, Core!Earlier, Core!Turn, Core!Given, Core!Place
  <2> QED  BY <2>1, <2>2 DEF ScheduleInv
<1> QED  BY <1>1, <1>2, <1>3 DEF coreVars, Core!Next, Core!Refuse, Core!RefuseNext, Core!Assigned,
             Core!AssignNext, Core!RefuseUnnamed, Core!Answer, Core!Finish

-----------------------------------------------------------------------------
(* Scheduler: the shares of the robots.                                    *)

\* The robots with an id have the places 0, 1, .., each one its own.
LEMMA PlacesInTurn ==
    ASSUME PathAssumption, request \in Core!RequestSet, request.kind = "local",
           Core!Given # {}
    PROVE  /\ IsFiniteSet(Core!Given) /\ Cardinality(Core!Given) \in Nat \ {0}
           /\ Core!Given \subseteq Nat
           /\ \A n \in Core!Given : Core!Place(n) \in 0 .. (Cardinality(Core!Given) - 1)
           /\ \A n, k \in Core!Given : Core!Place(n) = Core!Place(k) => n = k
           /\ \A i \in 0 .. (Cardinality(Core!Given) - 1) : \E n \in Core!Given : Core!Place(n) = i
<1> DEFINE G == Core!Given
           L == Cardinality(G)
           Before(n) == {k \in G : k < n}
<1>1. request.robots \in Seq(Robots \cup {Blank})
  BY TasksTyped DEF PathAssumption, Core!SchedulerAssumption
<1>2. G \in SUBSET (1 .. Len(request.robots)) /\ Len(request.robots) \in Nat
  BY <1>1 DEF Core!Given
<1>3. IsFiniteSet(G) /\ L \in Nat /\ L # 0 /\ G \subseteq Nat
  <2>1. IsFiniteSet(1 .. Len(request.robots))
    BY <1>2, FS_Interval
  <2>2. IsFiniteSet(G)
    BY <1>2, <2>1, FS_Subset
  <2>3. L \in Nat
    BY <2>2, FS_CardinalityType
  <2>4. L # 0
    BY <2>2, FS_EmptySet
  <2> QED  BY <1>2, <2>2, <2>3, <2>4
<1>4. \A n : Core!Place(n) = Cardinality(Before(n))
  BY SameCount DEF Core!Place
<1> HIDE DEF G
<1>5. ASSUME NEW T \in SUBSET G, NEW S \in SUBSET T, S # T
      PROVE  Cardinality(S) \in Nat /\ Cardinality(T) \in Nat /\ Cardinality(S) < Cardinality(T)
  <2>1. IsFiniteSet(T)
    BY <1>3, FS_Subset
  <2>2. IsFiniteSet(S) /\ Cardinality(S) <= Cardinality(T) /\ Cardinality(T) # Cardinality(S)
    BY <1>5, <2>1, FS_Subset
  <2> QED  BY <2>1, <2>2, FS_CardinalityType
<1>6. ASSUME NEW n \in G PROVE Core!Place(n) \in 0 .. (L - 1)
  <2>1. Before(n) \in SUBSET G /\ Before(n) # G
    BY <1>3
  <2>2. Cardinality(Before(n)) \in Nat /\ Cardinality(Before(n)) < L
    BY <1>5, <2>1
  <2> QED  BY <1>3, <1>4, <2>2
<1>7. ASSUME NEW n \in G, NEW k \in G, k < n PROVE Core!Place(n) # Core!Place(k)
  <2>0. \A b \in G : b \in Nat /\ (b < k => b < n)
    BY <1>3, <1>7
  <2>1. Before(n) \in SUBSET G /\ Before(k) \in SUBSET Before(n)
    BY <2>0
  <2>2. k \in Before(n) /\ k \notin Before(k)
    BY <1>7, <2>0
  <2> HIDE DEF Before
  <2>3. Cardinality(Before(k)) < Cardinality(Before(n))
        /\ Cardinality(Before(k)) \in Nat /\ Cardinality(Before(n)) \in Nat
    BY <1>5, <2>1, <2>2
  <2> QED  BY <1>4, <2>3
<1>8. \A n, k \in G : Core!Place(n) = Core!Place(k) => n = k
  BY <1>3, <1>7
<1>9. ASSUME NEW i \in 0 .. (L - 1) PROVE \E n \in G : Core!Place(n) = i
  <2> DEFINE T == 0 .. (L - 1)
             f == [n \in G |-> Core!Place(n)]
  <2>1. f \in Injection(G, T)
    BY <1>6, <1>8 DEF Injection, IsInjective
  <2>2. IsFiniteSet(T) /\ Cardinality(T) = L
    <3>1. 0 \in Int /\ L - 1 \in Int /\ ~(0 > L - 1) /\ (L - 1) - 0 + 1 = L
      BY <1>3
    <3> QED  BY <3>1, FS_Interval
  <2>3. f \in Surjection(G, T)
    BY <2>1, <2>2, FS_Injection
  <2>4. \E n \in G : f[n] = i
    BY <2>3 DEF Surjection
  <2> QED  BY <2>4
<1> QED  BY <1>3, <1>6, <1>8, <1>9 DEF G

\* Arithmetic of the remainder.
LEMMA RemainderIs ==
    ASSUME NEW L \in Nat, L > 0, NEW q \in Nat, NEW j \in 0 .. (L - 1)
    PROVE  (L * q + j) % L = j
OBVIOUS

LEMMA QuotientIs ==
    ASSUME NEW L \in Nat, L > 0, NEW a \in Nat
    PROVE  a = L * (a \div L) + (a % L) /\ a \div L \in Nat /\ a % L \in 0 .. (L - 1)
OBVIOUS

\* One turn back and from one remainder to another.
LEMMA ShiftedTurn ==
    ASSUME NEW L \in Nat, L > 0, NEW i \in 0 .. (L - 1), NEW j \in 0 .. (L - 1),
           NEW a \in Nat, a % L = i, a # i
    PROVE  LET b == a + j - i - L IN b \in Nat /\ b <= a /\ b % L = j
<1>1. PICK q \in Nat : q = a \div L
  BY QuotientIs
<1>2. a = L * q + i
  BY <1>1, QuotientIs
<1>3. q # 0
  BY <1>2
<1>4. q - 1 \in Nat /\ L * (q - 1) = L * q - L /\ L * (q - 1) \in Nat
  BY <1>3
<1>5. a + j - i - L = L * (q - 1) + j
  BY <1>2, <1>4
<1>6. (L * (q - 1) + j) % L = j
  BY <1>4, RemainderIs
<1>7. L * (q - 1) + j \in Nat /\ L * (q - 1) + j <= L * q + i
  BY <1>4
<1> QED  BY <1>2, <1>5, <1>6, <1>7

\* Of the places 1 .. K, no remainder has two more than another.
LEMMA TurnsAreFair ==
    ASSUME NEW K \in Nat, NEW L \in Nat, L > 0, NEW i \in 0 .. (L - 1), NEW j \in 0 .. (L - 1)
    PROVE  Cardinality({p \in 1 .. K : (p - 1) % L = i})
               <= Cardinality({p \in 1 .. K : (p - 1) % L = j}) + 1
<1> DEFINE A == {p \in 1 .. K : (p - 1) % L = i}
           B == {p \in 1 .. K : (p - 1) % L = j}
           A2 == A \ {i + 1}
           f == [p \in A2 |-> p + j - i - L]
<1>1. IsFiniteSet(1 .. K)
  BY FS_Interval
<1>2. IsFiniteSet(A) /\ IsFiniteSet(B)
  BY <1>1, FS_Subset
<1>3. Cardinality(A) \in Nat /\ Cardinality(B) \in Nat /\ Cardinality(A2) \in Nat
      /\ Cardinality(A) <= Cardinality(A2) + 1
  <2>1. IsFiniteSet(A2) /\ Cardinality(A2) =
            IF i + 1 \in A THEN Cardinality(A) - 1 ELSE Cardinality(A)
    BY <1>2, FS_RemoveElement
  <2>2. Cardinality(A) \in Nat /\ Cardinality(B) \in Nat /\ Cardinality(A2) \in Nat
    BY <1>2, <2>1, FS_CardinalityType
  <2> HIDE DEF A, B, A2
  <2> QED  BY <2>1, <2>2
<1>4. ASSUME NEW p \in A2 PROVE p + j - i - L \in B
  <2>1. p - 1 \in Nat /\ (p - 1) % L = i /\ p - 1 # i /\ p \in Int /\ p <= K
    OBVIOUS
  <2>2. PICK b : b = (p - 1) + j - i - L
    OBVIOUS
  <2>3. b \in Nat /\ b <= p - 1 /\ b % L = j
    BY <2>1, <2>2, ShiftedTurn
  <2>4. p + j - i - L = b + 1 /\ (b + 1) - 1 = b /\ b + 1 \in 1 .. K
    BY <2>1, <2>2, <2>3
  <2> QED  BY <2>3, <2>4
<1>5. \A p, q \in A2 : f[p] = f[q] => p = q
  OBVIOUS
<1>6. f \in Injection(A2, B)
  BY <1>4, <1>5 DEF Injection, IsInjective
<1>7. Cardinality(A2) <= Cardinality(B)
  BY <1>2, <1>6, FS_Injection
<1> QED  BY <1>3, <1>7

\* Where the request names each robot once, the turns of a robot are those of
\* its place.
LEMMA TurnIsPlace ==
    ASSUME PathAssumption, request \in Core!RequestSet, request.kind = "local",
           Core!Cardinality(Core!ToSet(request.robots)) = Len(request.robots),
           NEW n \in Core!Given, NEW p \in Nat, p > 0
    PROVE  Core!Turn(p) = request.robots[n]
               <=> (p - 1) % Cardinality(Core!Given) = Core!Place(n)
<1> DEFINE R == request.robots
           M == Len(R)
           L == Cardinality(Core!Given)
           c == CHOOSE k \in Core!Given : Core!Place(k) = (p - 1) % Core!Cardinality(Core!Given)
<1>1. R \in Seq(Robots \cup {Blank})
  BY TasksTyped DEF PathAssumption, Core!SchedulerAssumption
<1>2. M \in Nat /\ DOMAIN R = 1 .. M /\ Core!Given \subseteq 1 .. M
  BY <1>1 DEF Core!Given
<1>3. ASSUME NEW k \in 1 .. M, NEW l \in 1 .. M, R[k] = R[l] PROVE k = l
  <2> DEFINE T == Core!ToSet(R)
  <2>1. R \in [1 .. M -> T]
    BY <1>1, <1>2 DEF Core!ToSet
  <2>2. R \in Surjection(1 .. M, T)
    BY <1>2, <2>1 DEF Core!ToSet, Surjection
  <2>3. IsFiniteSet(1 .. M) /\ Cardinality(1 .. M) = M
    <3>1. 1 \in Int /\ M \in Int /\ (IF 1 > M THEN 0 ELSE M - 1 + 1) = M
      BY <1>2
    <3> HIDE DEF M
    <3> QED  BY <3>1, FS_Interval
  <2>4. Cardinality(1 .. M) = Cardinality(T)
    BY <2>3, SameCount
  <2> HIDE DEF T
  <2>5. R \in Injection(1 .. M, T)
    BY <2>2, <2>3, <2>4, FS_SurjSameCardinalityImpliesInj
  <2> QED  BY <1>3, <2>5 DEF Injection, IsInjective
<1>4. /\ L \in Nat /\ L > 0 /\ p - 1 \in Nat
      /\ \A k, l \in Core!Given : Core!Place(k) = Core!Place(l) => k = l
      /\ \A i \in 0 .. (L - 1) : \E k \in Core!Given : Core!Place(k) = i
  BY PlacesInTurn
<1>5. (p - 1) % L \in 0 .. (L - 1)
  BY <1>4, QuotientIs
<1>6. c \in Core!Given /\ Core!Place(c) = (p - 1) % L
  BY <1>4, <1>5, SameCount
<1>7. Core!Turn(p) = R[c]
  BY SameCount DEF Core!Turn
<1> HIDE DEF c
<1>8. R[c] = R[n] <=> c = n
  BY <1>2, <1>3, <1>6
<1> QED  BY <1>4, <1>6, <1>7, <1>8

LEMMA ScheduleFair == ASSUME PathAssumption, ScheduleInv PROVE Core!ScheduleIsFair
<1> SUFFICES ASSUME schedule # <<>> PROVE Core!ScheduleIsFair
  BY DEF Core!ScheduleIsFair
<1> DEFINE K == Len(order)
<1>1. /\ request \in Core!RequestSet /\ request.kind = "local"
      /\ order \in Seq(Nat) /\ K \in Nat /\ DOMAIN order = 1 .. K /\ K = Len(Core!Tasks)
      /\ schedule = [p \in DOMAIN order |-> [task |-> order[p], robot |-> Core!Turn(p)]]
      /\ \A p, q \in 1 .. K : p < q => Core!Earlier(order[p], order[q])
  BY DEF ScheduleInv
<1>2. DOMAIN schedule = 1 .. K
      /\ \A p \in 1 .. K : schedule[p].task = order[p] /\ schedule[p].robot = Core!Turn(p)
  BY <1>1
<1>3. Len(schedule) = Len(Core!Tasks)
  <2>1. PICK S : S = {[task |-> order[p], robot |-> Core!Turn(p)] : p \in 1 .. K}
    OBVIOUS
  <2>2. schedule \in [1 .. K -> S]
    BY <1>1, <2>1
  <2> QED  BY <1>1, <2>2
<1>4. \A p, q \in DOMAIN schedule : p < q => Core!Earlier(schedule[p].task, schedule[q].task)
  BY <1>1, <1>2
<1>5. ASSUME Core!Cardinality(Core!ToSet(request.robots)) = Len(request.robots),
             NEW r \in Core!ToSet(request.robots) \ {Blank},
             NEW s \in Core!ToSet(request.robots) \ {Blank}
      PROVE  Core!Share(r) <= Core!Share(s) + 1
  <2> DEFINE L == Cardinality(Core!Given)
             Turns(i) == {p \in 1 .. K : (p - 1) % L = i}
  <2>1. PICK n \in Core!Given : request.robots[n] = r
    BY DEF Core!ToSet, Core!Given
  <2>2. PICK m \in Core!Given : request.robots[m] = s
    BY DEF Core!ToSet, Core!Given
  <2>3. L \in Nat /\ L > 0 /\ Core!Place(n) \in 0 .. (L - 1) /\ Core!Place(m) \in 0 .. (L - 1)
    BY <1>1, PlacesInTurn
  <2>4. ASSUME NEW k \in Core!Given
        PROVE  Core!Share(request.robots[k]) = Cardinality(Turns(Core!Place(k)))
    <3>1. \A p \in 1 .. K : schedule[p].robot = request.robots[k] <=> (p - 1) % L = Core!Place(k)
      BY <1>1, <1>2, <1>5, TurnIsPlace
    <3>2. {p \in DOMAIN schedule : schedule[p].robot = request.robots[k]} = Turns(Core!Place(k))
      BY <1>2, <3>1
    <3> QED  BY <3>2, SameCount DEF Core!Share
  <2> HIDE DEF L
  <2>5. Cardinality(Turns(Core!Place(n))) <= Cardinality(Turns(Core!Place(m))) + 1
    BY <1>1, <2>3, TurnsAreFair
  <2> QED  BY <2>1, <2>2, <2>4, <2>5
<1> QED  BY <1>3, <1>4, <1>5 DEF Core!ScheduleIsFair

-----------------------------------------------------------------------------
(* Types.                                                                  *)

LEMMA CoreTypes ==
    ASSUME PathAssumption, AssignInv, ScheduleInv,
           result \in {"working", "decided", "refused", "answered"}
    PROVE  Core!TypeOK
<1>1. request \in Core!RequestSet /\ MaxTasks \in Nat
  BY DEF AssignInv, PathAssumption, Core!SchedulerAssumption
<1>2. Len(Core!Tasks) \in 0 .. MaxTasks
  <2>1. PICK q : q = request
    OBVIOUS
  <2>2. \/ /\ q \in [kind : {"global"}, complete : BOOLEAN,
                     tasks : Core!SeqOf(Core!GlobalTask, MaxTasks), robots : {<<>>}]
        \/ /\ q \in [kind : {"local"}, complete : BOOLEAN,
                     tasks : Core!SeqOf(Core!LocalTask, MaxTasks), robots : RobotLists]
    BY <1>1, <2>1 DEF Core!RequestSet
  <2>3. PICK S : q.tasks \in Core!SeqOf(S, MaxTasks)
    BY <2>2
  <2>4. PICK m \in 0 .. MaxTasks : q.tasks \in [1 .. m -> S]
    BY <2>3 DEF Core!SeqOf
  <2>5. m \in Nat /\ Len(q.tasks) = m
    BY <1>1, <2>4
  <2> QED  BY <2>1, <2>4, <2>5 DEF Core!Tasks
<1>3. assigned \in Seq(PathIds) /\ Len(assigned) \in 0 .. MaxTasks
      /\ assigned \in [1 .. Len(assigned) -> PathIds]
  BY <1>1, <1>2 DEF AssignInv
<1>4. assigned \in Core!SeqOf(Warehouses \cup {Blank}, MaxTasks)
  BY <1>3 DEF Core!SeqOf, PathIds
<1>5. loads \in [Warehouses \cup {Blank} -> 0 .. MaxTasks]
  <2>1. loads \in [PathIds -> Nat] /\ \A w \in PathIds : loads[w] = Cardinality(Core!PlacedIn(w))
    BY DEF AssignInv
  <2>2. ASSUME NEW w \in PathIds PROVE loads[w] \in 0 .. MaxTasks
    <3>1. Len(assigned) \in Int /\ (IF 1 > Len(assigned) THEN 0 ELSE Len(assigned) - 1 + 1) = Len(assigned)
      BY <1>3
    <3>2. IsFiniteSet(1 .. Len(assigned)) /\ Cardinality(1 .. Len(assigned)) = Len(assigned)
      BY <3>1, FS_Interval
    <3>3. Cardinality(Core!PlacedIn(w)) <= Len(assigned)
      BY <1>3, <3>2, PlacedFinite, FS_Subset
    <3> QED  BY <1>1, <1>3, <2>1, <3>3
  <2> QED  BY <2>1, <2>2 DEF PathIds
<1>6. order \in Core!SeqOf(1 .. MaxTasks, MaxTasks)
  <2>1. order \in Seq(Nat) /\ Len(order) \in 0 .. MaxTasks
        /\ \A p \in 1 .. Len(order) : order[p] \in 1 .. Len(order)
    BY <1>1, <1>2 DEF ScheduleInv
  <2>2. \A p \in 1 .. Len(order) : order[p] \in 1 .. MaxTasks
    BY <1>1, <2>1
  <2>3. order \in [1 .. Len(order) -> 1 .. MaxTasks]
    BY <2>1, <2>2
  <2> QED  BY <2>1, <2>3 DEF Core!SeqOf
<1> QED  BY <1>1, <1>4, <1>5, <1>6 DEF Core!TypeOK

LEMMA CoreResults ==
    ASSUME result \in {"working", "decided", "refused", "answered"}, [Core!Next]_coreVars
    PROVE  result' \in {"working", "decided", "refused", "answered"}
BY DEF coreVars, Core!Next, Core!Refuse, Core!AssignNext, Core!RefuseNext, Core!Assigned,
       Core!RefuseUnnamed, Core!InsertNext, Core!DealOut, Core!Answer, Core!Finish

PathStatuses == {"invalid", "no route", "unavailable", "accepted", "failed"}

GateTyped ==
    /\ Gate!TypeOK
    /\ answers \in Seq([status : PathStatuses, id : 0 .. MaxEvents])
    /\ Len(answers) <= MaxEvents

LEMMA GateTypesStart == ASSUME PathAssumption, Gate!Init PROVE GateTyped
<1>1. answers = <<>> /\ Len(answers) = 0 /\ Gate!Range(answers) = {} /\ MaxEvents \in Nat
  BY DEF Gate!Init, Gate!Start, Gate!Range, PathAssumption, Gate!GatewayAssumption
<1>2. answers \in Seq([status : PathStatuses, id : 0 .. MaxEvents])
  BY <1>1
<1>3. Gate!TypeOK
  <2>1. table \in Gate!Tables /\ problems = {} /\ producers = {} /\ log = {}
    BY DEF Gate!Init, Gate!Start
  <2> QED  BY <1>1, <2>1 DEF Gate!TypeOK
<1> QED  BY <1>1, <1>2, <1>3 DEF GateTyped

\* One response more, with or without an event more.
LEMMA GateTypesResponse ==
    ASSUME PathAssumption, GateTyped, Gate!Serving, NEW status \in PathStatuses,
           NEW id \in Nat, id = 0 \/ id = Len(answers) + 1, Gate!Respond(status, id),
           UNCHANGED <<table, problems, resolver, producers>>,
           NEW place, NEW form,
           \/ log' = log
           \/ /\ log' = log \cup {Gate!Event(place, form)} /\ Gate!Target(place, form) \in producers
              /\ place \in Places /\ form \in Gate!Forms
    PROVE  GateTyped'
<1> DEFINE S == [status : PathStatuses, id : 0 .. MaxEvents]
<1>1. answers \in Seq(S) /\ Len(answers) \in Nat /\ MaxEvents \in Nat /\ Len(answers) + 1 \in 1 .. MaxEvents
  <2>1. answers \in Seq(S) /\ MaxEvents \in Nat
    BY DEF GateTyped, PathAssumption, Gate!GatewayAssumption
  <2>2. Len(answers) < MaxEvents
    BY DEF Gate!Serving
  <2> HIDE DEF S
  <2> QED  BY <2>1, <2>2
<1>2. PICK a : a = [status |-> status, id |-> id]
  OBVIOUS
<1>3. id \in 0 .. MaxEvents
  BY <1>1
<1>4. a \in S
  BY <1>2, <1>3
<1>5. answers' = Append(answers, a)
  BY <1>2 DEF Gate!Respond
<1> HIDE DEF S
<1>6. answers' \in Seq(S) /\ Len(answers') = Len(answers) + 1
  <2>1. answers' \in Seq(S)
    BY <1>1, <1>4, <1>5, AppendOK
  <2>2. Len(answers') = Len(answers) + 1
    BY <1>1, <1>5
  <2> QED  BY <2>1, <2>2
<1>7. Gate!Range(answers') \subseteq S
  BY <1>6 DEF Gate!Range
<1>8. log' \subseteq [place : Places, form : Gate!Forms, cluster : Clusters, id : 1 .. MaxEvents]
  <2> DEFINE E == [place : Places, form : Gate!Forms, cluster : Clusters, id : 1 .. MaxEvents]
  <2> SUFFICES log' \subseteq E
    OBVIOUS
  <2>1. log \subseteq E /\ producers \subseteq Clusters
    BY DEF GateTyped, Gate!TypeOK
  <2>2. CASE log' = log
    BY <2>1, <2>2
  <2>3. CASE log' # log
    <3>1. /\ log' = log \cup {Gate!Event(place, form)} /\ Gate!Target(place, form) \in Clusters
          /\ place \in Places /\ form \in Gate!Forms
      BY <2>1, <2>3
    <3>2. Gate!Event(place, form) \in E
      BY <1>1, <3>1 DEF Gate!Event
    <3> HIDE DEF E
    <3> QED  BY <2>1, <3>1, <3>2
  <2> QED  BY <2>2, <2>3
<1>9. Gate!TypeOK'
  <2>1. table' \in Gate!Tables /\ problems' \subseteq {"routes"} /\ producers' \subseteq Clusters
    BY DEF GateTyped, Gate!TypeOK
  <2>2. Gate!Range(answers)' \subseteq
            [status : {"invalid", "no route", "unavailable", "accepted", "failed"}, id : 0 .. MaxEvents]
    BY <1>7 DEF S, PathStatuses, Gate!Range
  <2> QED  BY <1>8, <2>1, <2>2 DEF Gate!TypeOK
<1>10. Len(answers') <= MaxEvents
  BY <1>1, <1>6
<1> QED  BY <1>6, <1>9, <1>10 DEF GateTyped, S

LEMMA GateTypesStep ==
    ASSUME PathAssumption, RoutesInv, GateTyped, [Gate!Next]_gateVars PROVE GateTyped'
<1>1. CASE UNCHANGED gateVars
  BY <1>1 DEF gateVars, GateTyped, Gate!TypeOK
<1>2. CASE Gate!Load
  <2>1. table \in Gate!Tables
    BY DEF GateTyped, Gate!TypeOK
  <2>2. PICK t : t = table
    OBVIOUS
  <2>3. t.clusters \in (UNION {[names -> BOOLEAN] : names \in SUBSET Clusters}) \cup {<<>>}
    BY <2>1, <2>2 DEF Gate!Tables
  <2>4. DOMAIN t.clusters \subseteq Clusters
    BY <2>3
  <2> QED  BY <1>2, <2>2, <2>4 DEF Gate!Load, GateTyped, Gate!TypeOK
<1>3. CASE Gate!LoadFails
  BY <1>3 DEF Gate!LoadFails, GateTyped, Gate!TypeOK
<1>4. CASE Gate!Serving /\ Gate!Reject
  BY <1>4, GateTypesResponse DEF Gate!Reject, PathStatuses
<1>5. ASSUME Gate!Serving, NEW place \in Places, NEW form \in Gate!Forms
      PROVE  /\ Gate!TurnDown(place, form) => GateTyped'
             /\ Gate!Publish(place, form) => GateTyped'
             /\ Gate!PublishFails(place, form) => GateTyped'
  <2>1. CASE Gate!TurnDown(place, form)
    BY <1>5, <2>1, GateTypesResponse DEF Gate!TurnDown, PathStatuses
  <2>2. CASE Gate!Publish(place, form)
    <3>1. Len(answers) + 1 \in Nat
      BY DEF GateTyped
    <3> QED  BY <1>5, <2>2, <3>1, GateTypesResponse DEF Gate!Publish, PathStatuses
  <2>3. CASE Gate!PublishFails(place, form)
    BY <1>5, <2>3, GateTypesResponse DEF Gate!PublishFails, PathStatuses
  <2> QED  BY <2>1, <2>2, <2>3
<1> QED  BY <1>1, <1>2, <1>3, <1>4, <1>5 DEF Gate!Next

\* What a setting holds was written for it, or is a default; min may be what
\* max holds.
ConfTyped ==
    /\ Conf!TypeOK
    /\ envTexts \in [Conf!Texts -> {"given", Absent}]
    /\ stage # "done" => \A s \in Conf!Settings : cfg[s] \in Raws[s] \cup {Defaults[s]}

LEMMA ConfTypesStart == ASSUME PathAssumption, Conf!Init PROVE ConfTyped
<1>1. MaxEntries \in Nat
  BY DEF PathAssumption, Conf!ConfigAssumption
<1> QED  BY <1>1 DEF Conf!Init, Conf!Inputs, Conf!Start, ConfTyped, Conf!TypeOK, Conf!Names, Conf!Texts, Conf!TextDefaults

LEMMA EntriesBound ==
    ASSUME PathAssumption, SettingsTyped PROVE Len(file.entries) \in 0 .. MaxEntries
<1>1. MaxEntries \in Nat
  BY DEF PathAssumption, Conf!ConfigAssumption
<1>2. file.entries = <<>> \/ file.entries \in UNION {[1 .. n -> Conf!Entries] : n \in 0 .. MaxEntries}
  BY DEF SettingsTyped, Conf!Files
<1>3. CASE file.entries = <<>>
  BY <1>1, <1>3
<1>4. CASE file.entries # <<>>
  <2>1. PICK n \in 0 .. MaxEntries : file.entries \in [1 .. n -> Conf!Entries]
    BY <1>2, <1>4
  <2>2. n \in Nat /\ Len(file.entries) = n
    BY <1>1, <2>1
  <2> QED  BY <2>1, <2>2
<1> QED  BY <1>3, <1>4

\* The name in an ENV entry.
LEMMA EntryName ==
    ASSUME SettingsTyped, applied < Len(file.entries), Conf!Entry.key = "ENV"
    PROVE  Conf!Entry.raw \in {"prod", Absent, Junk}
BY EntryTyped DEF Conf!Settings, Conf!Texts

LEMMA ConfTypesStep ==
    ASSUME PathAssumption, SettingsInv, ConfTyped, [Conf!Next]_confVars PROVE ConfTyped'
<1>1. CASE UNCHANGED confVars
  BY <1>1 DEF confVars, ConfTyped, Conf!TypeOK
<1>2. CASE Conf!NoFile
  BY <1>2 DEF Conf!NoFile, Conf!inputs, ConfTyped, Conf!TypeOK
<1>3. CASE Conf!FileLoaded
  <2>1. named' \in BOOLEAN
    BY <1>3 DEF Conf!FileLoaded, Conf!inputs, ConfTyped, Conf!TypeOK
  <2> QED  BY <1>3, <2>1 DEF Conf!FileLoaded, Conf!inputs, ConfTyped, Conf!TypeOK
<1>4. ASSUME applied < Len(file.entries), applied' = applied + 1
      PROVE  applied' \in 0 .. MaxEntries
  <2>1. Len(file.entries) \in 0 .. MaxEntries /\ applied \in Nat /\ MaxEntries \in Nat
    BY EntriesBound DEF SettingsInv, SettingsTyped, PathAssumption, Conf!ConfigAssumption
  <2> QED  BY <1>4, <2>1
<1>5. CASE Conf!ApplyNumber
  <2>1. Conf!Entry.key \in Conf!Settings /\ Conf!Entry.raw \in Raws[Conf!Entry.key]
    BY <1>5, EntryTyped DEF Conf!ApplyNumber, SettingsInv, Conf!Settings, Conf!Texts
  <2>2. applied' \in 0 .. MaxEntries
    BY <1>4, <1>5 DEF Conf!ApplyNumber, Conf!inputs
  <2>3. stage = "entries" /\ UNCHANGED <<stage, named, name, texts, envTexts>>
    BY <1>5 DEF Conf!ApplyNumber, Conf!inputs
  <2>4. PICK key, raw : key = Conf!Entry.key /\ raw = Conf!Entry.raw
    OBVIOUS
  <2>5. \/ cfg' = [cfg EXCEPT ![key] = raw] /\ issues' = issues
        \/ issues' = issues \cup {key} /\ cfg' = cfg
    BY <1>5, <2>4 DEF Conf!ApplyNumber, Conf!inputs
  <2>6. issues' \subseteq Conf!Settings \cup {"ENV", "CONFIG_PATH"}
    BY <2>1, <2>4, <2>5 DEF ConfTyped, Conf!TypeOK
  <2>7. \A s \in Conf!Settings : cfg'[s] \in Raws[s] \cup {Defaults[s]}
    BY <2>1, <2>3, <2>4, <2>5 DEF ConfTyped, SettingsInv, SettingsTyped
  <2> QED  BY <2>2, <2>3, <2>6, <2>7 DEF ConfTyped, Conf!TypeOK
<1>10. CASE Conf!ApplyText
  <2>1. applied' \in 0 .. MaxEntries
    BY <1>4, <1>10 DEF Conf!ApplyText
  <2>2. Conf!Entry.raw # Junk => Conf!Entry.raw \in {"filed", Absent}
    BY <1>10, EntryTyped DEF Conf!ApplyText, SettingsInv, Conf!Settings, Conf!Texts
  <2>3. texts' \in [Conf!Texts -> {"info", "given", "filed", Absent}]
    BY <1>10, <2>2 DEF Conf!ApplyText, Conf!TakenText, ConfTyped, Conf!TypeOK
  <2> QED  BY <1>10, <2>1, <2>3 DEF Conf!ApplyText, Conf!inputs, ConfTyped, Conf!TypeOK
<1>6. CASE Conf!ApplyName
  <2>1. applied' \in 0 .. MaxEntries
    BY <1>4, <1>6 DEF Conf!ApplyName, Conf!inputs
  <2>2. name' \in Conf!Names \cup {Absent}
    <3>1. Conf!Entry.raw \in {"prod", Absent, Junk}
      BY <1>6, EntryName DEF Conf!ApplyName, Conf!inputs, SettingsInv
    <3> QED  BY <1>6, <3>1 DEF Conf!ApplyName, Conf!inputs, ConfTyped, Conf!TypeOK, Conf!Names
  <2> QED  BY <1>6, <2>1, <2>2 DEF Conf!ApplyName, Conf!inputs, ConfTyped, Conf!TypeOK
<1>7. CASE Conf!EntriesDone
  BY <1>7 DEF Conf!EntriesDone, Conf!inputs, ConfTyped, Conf!TypeOK
<1>8. CASE Conf!ApplyEnv
  <2> DEFINE given == {s \in Conf!Settings : env[s] # Absent}
             taken == {s \in given : Conf!Taken(s, env[s])}
  <2>1. /\ stage = "env" /\ stage' = "check" /\ UNCHANGED <<applied, named, name, envTexts>>
        /\ cfg' = [s \in Conf!Settings |-> IF s \in taken THEN env[s] ELSE cfg[s]]
        /\ issues' = issues \cup (given \ taken)
    BY <1>8 DEF Conf!ApplyEnv, Conf!inputs
  <2>2. \A s \in Conf!Settings : cfg'[s] \in Raws[s] \cup {Defaults[s]}
    BY <2>1 DEF ConfTyped, SettingsInv, SettingsTyped
  <2>4. texts' \in [Conf!Texts -> {"info", "given", "filed", Absent}]
    BY <1>8 DEF Conf!ApplyEnv, ConfTyped, Conf!TypeOK
  <2>3. issues' \subseteq Conf!Settings \cup {"ENV", "CONFIG_PATH"}
    BY <2>1 DEF ConfTyped, Conf!TypeOK
  <2> QED  BY <2>1, <2>2, <2>3, <2>4 DEF ConfTyped, Conf!TypeOK
<1>9. CASE Conf!Check
  <2> DEFINE max == Conf!Checked("max", cfg.max)
             min == Conf!Checked("min", cfg.min)
  <2>1. /\ stage = "check" /\ stage' = "done" /\ UNCHANGED <<applied, named, texts, envTexts>>
        /\ cfg' = [s \in Conf!Settings |->
                      IF s = "min" THEN Conf!Lesser(min, max) ELSE Conf!Checked(s, cfg[s])]
        /\ name' = IF name = Absent THEN "dev" ELSE name
        /\ issues' = issues \cup {s \in Conf!Settings : Conf!OutOfRange(s, cfg[s])}
                            \cup {s \in {"min"} : min > max} \cup {s \in {"ENV"} : ~named}
    BY <1>9 DEF Conf!Check, Conf!inputs
  <2>2. \A s \in Conf!Settings : Conf!Checked(s, cfg[s]) \in Raws[s] \cup {Defaults[s]}
    BY <2>1 DEF ConfTyped, Conf!Checked
  <2>3. min \in Raws["min"] \cup {Defaults["min"]} /\ max \in Raws["max"] \cup {Defaults["max"]}
    BY <2>2 DEF Conf!Settings
  <2> HIDE DEF min, max
  <2>4. Conf!Lesser(min, max) \in {min, max}
    BY DEF Conf!Lesser
  <2>5. \A s \in Conf!Settings :
            cfg'[s] \in Raws[s] \cup {Defaults[s]} \cup
                        (IF s = "min" THEN Raws["max"] \cup {Defaults["max"]} ELSE {})
    BY <2>1, <2>2, <2>3, <2>4
  <2>6. issues' \subseteq Conf!Settings \cup {"ENV", "CONFIG_PATH"}
    BY <2>1 DEF ConfTyped, Conf!TypeOK, Conf!Settings
  <2>7. name' \in Conf!Names \cup {Absent}
    BY <2>1 DEF ConfTyped, Conf!TypeOK, Conf!Names
  <2> QED  BY <2>1, <2>5, <2>6, <2>7 DEF ConfTyped, Conf!TypeOK
<1> QED  BY <1>1, <1>2, <1>3, <1>5, <1>6, <1>7, <1>8, <1>9, <1>10 DEF Conf!Next

-----------------------------------------------------------------------------
(* The theorems.                                                           *)

LEMMA RoutesAlways == PathSpec => []RoutesInv
<1>1. Gate!Init => RoutesInv
  BY GateInitOK
<1>2. RoutesInv /\ [Gate!Next]_gateVars => RoutesInv'
  BY GateStepOK
<1> QED  BY <1>1, <1>2, PTL DEF PathSpec, Gate!Spec, gateVars, Gate!vars

LEMMA SettingsAlways == PathSpec => []SettingsInv
<1>1. Conf!Init => SettingsInv
  BY PathAssumption, SettingsStart
<1>2. SettingsInv /\ [Conf!Next]_confVars => SettingsInv'
  BY PathAssumption, SettingsStep
<1> QED  BY <1>1, <1>2, PTL DEF PathSpec, Conf!Spec, confVars, Conf!vars, Conf!inputs

LEMMA TextsAlways == PathSpec => []TextsInv
<1>1. Conf!Init => TextsInv
  BY TextsStart
<1>2. SettingsInv /\ TextsInv /\ [Conf!Next]_confVars => TextsInv'
  BY TextsStep
<1> QED  BY <1>1, <1>2, SettingsAlways, PTL DEF PathSpec, Conf!Spec, confVars, Conf!vars, Conf!inputs

LEMMA AssignAlways == PathSpec => []AssignInv
<1>1. Core!Init => AssignInv
  BY PathAssumption, AssignStart
<1>2. AssignInv /\ [Core!Next]_coreVars => AssignInv'
  BY PathAssumption, AssignStep
<1> QED  BY <1>1, <1>2, PTL DEF PathSpec, Core!Spec, coreVars, Core!vars

LEMMA ScheduleAlways == PathSpec => []ScheduleInv
<1>1. Core!Init => ScheduleInv
  BY PathAssumption, ScheduleStart
<1>2. ScheduleInv /\ [Core!Next]_coreVars => ScheduleInv'
  BY PathAssumption, ScheduleStep
<1> QED  BY <1>1, <1>2, PTL DEF PathSpec, Core!Spec, coreVars, Core!vars

\* Every reachable state of the scheduler, the gateway and the settings is well
\* typed, for every request, table and file PathAssumption allows.
THEOREM PathTypeCorrect == PathSpec => [](Core!TypeOK /\ Gate!TypeOK /\ Conf!TypeOK)
<1> DEFINE Results == result \in {"working", "decided", "refused", "answered"}
<1>1. PathSpec => []Results
  <2>1. Core!Init => Results
    BY DEF Core!Init, Core!Start
  <2>2. Results /\ [Core!Next]_coreVars => Results'
    BY CoreResults
  <2> QED  BY <2>1, <2>2, PTL DEF PathSpec, Core!Spec, coreVars, Core!vars
<1>2. PathSpec => []GateTyped
  <2>1. Gate!Init => GateTyped
    BY PathAssumption, GateTypesStart
  <2>2. RoutesInv /\ GateTyped /\ [Gate!Next]_gateVars => GateTyped'
    BY PathAssumption, GateTypesStep
  <2> QED  BY <2>1, <2>2, RoutesAlways, PTL DEF PathSpec, Gate!Spec, gateVars, Gate!vars
<1>3. PathSpec => []ConfTyped
  <2>1. Conf!Init => ConfTyped
    BY PathAssumption, ConfTypesStart
  <2>2. SettingsInv /\ ConfTyped /\ [Conf!Next]_confVars => ConfTyped'
    BY PathAssumption, ConfTypesStep
  <2> QED  BY <2>1, <2>2, SettingsAlways, PTL DEF PathSpec, Conf!Spec, confVars, Conf!vars, Conf!inputs
<1>4. AssignInv /\ ScheduleInv /\ Results => Core!TypeOK
  BY PathAssumption, CoreTypes
<1>5. GateTyped => Gate!TypeOK
  BY DEF GateTyped
<1>6. ConfTyped => Conf!TypeOK
  BY DEF ConfTyped
<1> QED  BY <1>1, <1>2, <1>3, <1>4, <1>5, <1>6, AssignAlways, ScheduleAlways, PTL

\* The gateway sends all events of a place to one cluster, that of its route, for
\* every table: RoutesInv ties each event sent to what the resolver says, the
\* resolver to the table, and Load has refused two routes with one key.
THEOREM OneClusterCorrect == PathSpec => []OneClusterPerPlace
<1>1. RoutesInv => OneClusterPerPlace
  BY RoutesAreKept DEF OneClusterPerPlace
<1> QED  BY <1>1, RoutesAlways, PTL

\* The 503 for a cluster without a producer is dead code: a cluster that can be
\* resolved was in the table that was loaded, and that is what got producers.
THEOREM ReachableCorrect == PathSpec => []TargetsAreReachable
<1>1. RoutesInv => TargetsAreReachable
  BY RoutesAreKept DEF TargetsAreReachable
<1> QED  BY <1>1, RoutesAlways, PTL

\* However many entries the file has and in whatever order they are applied: a
\* number is what the last source says, or it is reported, and the numbers have
\* passed every check at once; a text or a list is the last usable one.  The
\* service's ENV is neither.
THEOREM SettingsCorrect == PathSpec => []SettingsExplained
<1>1. SettingsInv /\ TextsInv => SettingsExplained
  BY DEF SettingsInv, TextsInv, SettingsExplained, Conf!SettingsExplained, Conf!TextsExplained
<1> QED  BY <1>1, SettingsAlways, TextsAlways, PTL

\* The greedy assignment pays for requests of any length: the code's counts are
\* true (AssignInv), so the warehouse chosen had no more than any candidate.
THEOREM AssignmentCorrect == PathSpec => []NoMovePays
<1>1. AssignInv => NoMovePays
  BY DEF AssignInv, NoMovePays
<1> QED  BY <1>1, AssignAlways, PTL

\* A schedule holds the request's tasks in the right order and its robots differ
\* by one task at most, for requests of any length and any number of robots.
THEOREM ScheduleCorrect == PathSpec => []ScheduleIsFair
<1>1. ScheduleInv => ScheduleIsFair
  BY PathAssumption, ScheduleFair DEF ScheduleIsFair
<1> QED  BY <1>1, ScheduleAlways, PTL

=============================================================================
