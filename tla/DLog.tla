---------------------------------- MODULE DLog ----------------------------------
(***************************************************************************)
(* DLogManager (src/log/LogManager.cpp): the filter rules come from the    *)
(* configuration of the application or from that of a fallback, which are  *)
(* loaded in a thread of their own and succeed, fail and change at any     *)
(* time; appenders are registered by name, and under systemd the console   *)
(* is left out when the journal is used.                                   *)
(*                                                                         *)
(* A configuration is of the generated class (DConfigPreference has all of *)
(* its life): the mark that its value is not the default changes in that   *)
(* thread at once, the copy of the value when an event is delivered.       *)
(* The appenders themselves are in a submodule; registered is what the     *)
(* logger holds.                                                           *)
(***************************************************************************)
EXTENDS Integers, Sequences

CONSTANTS
    RuleSets,     \* values of the item "rules"
    DefaultRules, \* DefaultRules[c]: default in the meta of the configuration c
    Paths,        \* paths for the log file
    CompiledRules, \* what the class has before the configuration is loaded
    Directory,    \* one of them, which is a directory
    DefaultPath,  \* below the cache directory of the user
    MaxAppenders, \* bound: appenders registered
    MaxComing,    \* bound: events of a configuration under way
    None

Configs == {"dsg", "fallback"}
Succeed == "succeed"

DLogAssumption ==
    /\ DefaultRules \in [Configs -> RuleSets] /\ CompiledRules \in RuleSets
    /\ Directory \in Paths /\ MaxAppenders \in Nat /\ MaxComing \in Nat
    /\ None \notin RuleSets \cup Paths /\ Succeed \notin RuleSets

VARIABLES
    config,     \* config[c]: "none", "starting", "loading" or "ready"; "none"
                \* after a failure
    rulesOf,    \* rulesOf[c]: the value, None while it is the default
    shown,      \* p_rules: shown[c] is the copy in the owner's thread
    coming,     \* coming[c]: events posted to the owner's thread, values and Succeed
    rules,      \* what QLoggingCategory filters by
    seen,       \* history: the marks when the rules were last chosen
    registered, \* the logger's appenders: sequence of [kind, path]
    console,    \* m_consoleAppender: place in registered, 0 for null
    journal,    \* m_journalAppender is not null
    logPath,    \* m_logPath
    underJournal, \* standard output is a stream to the journal
    home        \* the home directory is known

logVars == <<config, rulesOf, shown, coming, rules, seen, registered, console, journal,
             logPath, underJournal, home>>
ruleVars == <<config, rulesOf, shown, coming, rules, seen>>
appenderVars == <<registered, console, journal, logPath, underJournal, home>>

-----------------------------------------------------------------------------
Rules(c) == IF rulesOf[c] = None THEN DefaultRules[c] ELSE rulesOf[c]
Marks    == {c \in Configs : rulesOf[c] # None}

(* updateLoggingRules: set values before defaults, the application before  *)
(* the fallback, whose default is never used.                              *)
Chosen(conf, marks, of) ==
    IF conf["dsg"] = "ready" /\ "dsg" \in marks THEN of["dsg"]
    ELSE IF conf["fallback"] = "ready" /\ "fallback" \in marks THEN of["fallback"]
    ELSE IF conf["dsg"] = "ready" THEN of["dsg"]
    ELSE None
UpdateLoggingRules ==
    /\ rules' = LET new == Chosen(config', Marks, shown') IN IF new = None THEN rules ELSE new
    /\ seen' = Marks

(* The configuration's thread: initializeInConfigThread posts the value,   *)
(* then that it succeeded; updateValue posts what another process set or   *)
(* reset.                                                                  *)
Initialize(c, v) ==
    /\ config[c] = "starting"
    /\ config' = [config EXCEPT ![c] = "loading"]
    /\ rulesOf' = [rulesOf EXCEPT ![c] = v]
    /\ coming' = [coming EXCEPT ![c] = <<IF v = None THEN DefaultRules[c] ELSE v, Succeed>>]
    /\ UNCHANGED <<shown, rules, seen, appenderVars>>
InitFail(c) ==
    /\ config[c] = "starting"
    /\ config' = [config EXCEPT ![c] = "none"]
    /\ UNCHANGED <<rulesOf, shown, coming, rules, seen, appenderVars>>
Change(c, v) ==
    /\ config[c] \in {"loading", "ready"} /\ v # rulesOf[c] /\ Len(coming[c]) < MaxComing
    /\ rulesOf' = [rulesOf EXCEPT ![c] = v]
    /\ coming' = [coming EXCEPT ![c] = Append(@, IF v = None THEN DefaultRules[c] ELSE v)]
    /\ UNCHANGED <<config, shown, rules, seen, appenderVars>>

(* The owner's thread: configInitializeSucceed, and rulesChanged, which is *)
(* emitted only if the copy changes.                                       *)
InitSucceed(c) ==
    /\ coming[c] # <<>> /\ Head(coming[c]) = Succeed
    /\ coming' = [coming EXCEPT ![c] = Tail(@)]
    /\ config' = [config EXCEPT ![c] = "ready"]
    /\ UNCHANGED <<rulesOf, shown, appenderVars>>
    /\ UpdateLoggingRules
RulesChanged(c) ==
    /\ coming[c] # <<>> /\ Head(coming[c]) # Succeed
    /\ coming' = [coming EXCEPT ![c] = Tail(@)]
    /\ shown' = [shown EXCEPT ![c] = Head(coming[c])]
    /\ UNCHANGED <<config, rulesOf, appenderVars>>
    /\ IF Head(coming[c]) = shown[c] THEN UNCHANGED <<rules, seen>> ELSE UpdateLoggingRules

-----------------------------------------------------------------------------
OnlyAppenders == UNCHANGED <<ruleVars, underJournal, home>>

RegisterConsoleAppender ==
    /\ Len(registered) < MaxAppenders
    /\ IF underJournal /\ journal THEN UNCHANGED <<registered, console>>
       ELSE /\ registered' = Append(registered, [kind |-> "console", path |-> None])
            /\ console' = Len(registered) + 1
    /\ UNCHANGED <<journal, logPath>> /\ OnlyAppenders

(* Only the console appender that was registered last is known.            *)
RegisterJournalAppender ==
    LET all == Append(registered, [kind |-> "journal", path |-> None]) IN
    /\ Len(registered) < MaxAppenders
    /\ journal' = TRUE
    /\ IF underJournal /\ console # 0
       THEN /\ registered' = SubSeq(all, 1, console - 1) \o SubSeq(all, console + 1, Len(all))
            /\ console' = 0
       ELSE registered' = all /\ UNCHANGED console
    /\ UNCHANGED logPath /\ OnlyAppenders

(* getlogFilePath sets the default path if there is none.                  *)
LogFilePath == IF logPath # None THEN logPath ELSE IF home THEN DefaultPath ELSE None
RegisterFileAppender ==
    /\ Len(registered) < MaxAppenders
    /\ registered' = Append(registered, [kind |-> "file", path |-> LogFilePath])
    /\ logPath' = LogFilePath
    /\ UNCHANGED <<console, journal>> /\ OnlyAppenders
GetLogFilePath ==
    /\ logPath' = LogFilePath
    /\ UNCHANGED <<registered, console, journal>> /\ OnlyAppenders
SetLogFilePath(p) ==
    /\ logPath' = IF p = Directory THEN logPath ELSE p
    /\ UNCHANGED <<registered, console, journal>> /\ OnlyAppenders

-----------------------------------------------------------------------------
(* initLoggingRules: no configuration if rules come from the environment   *)
(* or the application has no id, no fallback if there is none or the same. *)
Init ==
    /\ config \in [Configs -> {"none", "starting"}]
    /\ rulesOf = [c \in Configs |-> None] /\ shown = [c \in Configs |-> CompiledRules]
    /\ coming = [c \in Configs |-> <<>>] /\ rules = None /\ seen = {}
    /\ registered = <<>> /\ console = 0 /\ journal = FALSE /\ logPath = None
    /\ underJournal \in BOOLEAN /\ home \in BOOLEAN

Next ==
    \/ \E c \in Configs, v \in RuleSets \cup {None} : Initialize(c, v) \/ Change(c, v)
    \/ \E c \in Configs : InitFail(c) \/ InitSucceed(c) \/ RulesChanged(c)
    \/ RegisterConsoleAppender
    \/ RegisterJournalAppender
    \/ RegisterFileAppender
    \/ GetLogFilePath
    \/ \E p \in Paths : SetLogFilePath(p)

Spec == Init /\ [][Next]_logVars

-----------------------------------------------------------------------------
TypeOK ==
    /\ config \in [Configs -> {"none", "starting", "loading", "ready"}]
    /\ rulesOf \in [Configs -> RuleSets \cup {None}] /\ rules \in RuleSets \cup {None}
    /\ shown \in [Configs -> RuleSets] /\ coming \in [Configs -> Seq(RuleSets \cup {Succeed})]
    /\ seen \subseteq Configs
    /\ console \in 0 .. Len(registered)
    /\ logPath \in Paths \cup {DefaultPath, None}

(* However the two configurations come up, fail and change, when nothing   *)
(* is under way the rules in force are those the order of precedence gives *)
(* (updateLoggingRules), as long as no mark has changed since they were    *)
(* chosen: a value set to or reset from the one that was in force moves    *)
(* the mark without rulesChanged.  Alone the application's configuration   *)
(* is always followed.                                                     *)
RulesAreChosen ==
    /\ (\A c \in Configs : coming[c] = <<>>) /\ seen = Marks =>
           LET new == Chosen(config, Marks, [c \in Configs |-> Rules(c)])
           IN new # None => rules = new
    /\ config["dsg"] = "ready" /\ coming["dsg"] = <<>> /\ config["fallback"] # "ready" =>
           rules = Rules("dsg")
=============================================================================
