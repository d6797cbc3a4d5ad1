----------------------------- MODULE LoadConfig -----------------------------
(***************************************************************************)
(* loadConfig of packages/node: a declaration, its sources one after       *)
(* another, the pipeline and the declared validators, while the caller may *)
(* abort and others move files and links.                                  *)
(*                                                                         *)
(* What Inheritance, FileRead and Pipeline show of their parts is used     *)
(* here as the outcome of one step: a declaration whose files were         *)
(* announced, a file read inside its boundary, a result that fails with    *)
(* its sources.                                                            *)
(***************************************************************************)
EXTENDS Diagnostics, FiniteSets

CONSTANTS
    Configs,                \* canonical paths of declarations
    Entry,                  \* the path of the selected one, as the caller gives it
    ParentPaths,            \* paths by which declarations extend others: links, or canonical
    Workspace, Missing,
    Targets,                \* the path of a source, as its declaration writes it
    Lexical,                \* where it leads from each declaration: resolve(dirname(config), target)
    Under,                  \* <<root, path>>: the path is at or below the root
    DirOf,                  \* the directory of each declaration
    Layouts,                \* maps from paths to canonical paths, or Missing
    Declarations,           \* what may be declared: see Declaration
    MaxSources, MaxProvenanceEvents,
    Reports,                \* the lists of issues a stage may end with
    MaxMoves

Paths == DOMAIN CHOOSE l \in Layouts : TRUE
Inline == "inline"          \* an object, environment or argument source
Source == [target : Targets \cup {Inline}, config : Configs]
Declaration == [sources : Seq(Source), validators : Nat]

ASSUME LoadConfigConstants ==
    /\ {Entry, Workspace} \cup ParentPaths \cup Configs \subseteq Paths /\ Missing \notin Paths
    /\ \A l \in Layouts : /\ l \in [Paths -> Paths \cup {Missing}]
                          /\ \A p \in Paths : l[p] # Missing => l[l[p]] = l[p]
                          /\ \A c \in Configs : l[c] \in Configs \cup {Missing}
    /\ Lexical \in [Configs \X Targets -> Paths] /\ Inline \notin Targets
    /\ Under \subseteq Paths \X Paths /\ DirOf \in [Configs -> Paths]
    /\ Declarations \subseteq Declaration
    /\ \A r \in Reports : r \in Seq({"warning", "error"}) /\ Len(r) <= MaxDiagnostics
    /\ {MaxSources, MaxProvenanceEvents} \subseteq Nat \ {0} /\ MaxMoves \in Nat
    /\ Reports \subseteq Seq({"warning", "error"})

VARIABLES
    options,                \* a workspace is given; declared validators are asked for
    link, moves,            \* the file system: realpath, changes so far
    signal,                 \* signal.aborted
    phase,                  \* "begin", "declare", "announce", "source", "target", "root", "open",
                            \* "pipeline", "validators", "validate", "output", "done"
    declaration,
    sources,                \* per source loaded: whether it has an error
    cached,                 \* of createSourcePathCanonicalizer
    configPath, filePath,   \* of the current file: its declaration's and its own canonical path
    issues, provenance, reportOk,       \* of the result
    delivered,              \* loadValidatedConfig has handed over a value
    (* Auxiliary. *)
    announced,              \* paths handed to onDependencies
    layouts,                \* what link has been since the load began
    opened,                 \* <<path, declaration>> of the source files opened
    validated,              \* declared validators that ran without a fault
    fault                   \* some stage failed

fileVars == <<link, moves, layouts>>
sourceVars == <<sources, cached, configPath, filePath>>
resultVars == <<issues, provenance, reportOk, delivered>>
loadVars == <<options, fileVars, signal, phase, declaration, sourceVars, resultVars, announced, opened,
              validated, fault>>

current == declaration.sources[Len(sources) + 1]

-----------------------------------------------------------------------------
Move ==
    /\ moves < MaxMoves /\ moves' = moves + 1 /\ link' \in Layouts
    /\ layouts' = layouts \cup {link'}
    /\ UNCHANGED <<options, signal, phase, declaration, sourceVars, resultVars, announced, opened,
                   validated, fault>>

Abort ==
    /\ ~signal /\ signal' = TRUE
    /\ UNCHANGED <<options, fileVars, phase, declaration, sourceVars, resultVars, announced, opened,
                   validated, fault>>

(* What is thrown becomes a result with its issues, and no others. *)
throw(code) ==
    /\ phase' = "done" /\ issues' = <<code>> /\ fault' = TRUE
    /\ provenance' = 0 /\ reportOk' \in BOOLEAN /\ UNCHANGED delivered

next(p) == phase' = p /\ UNCHANGED <<resultVars, fault>>

Begin ==
    /\ phase = "begin"
    /\ IF signal THEN throw("aborted") ELSE next("declare")
    /\ layouts' = {link}
    /\ UNCHANGED <<options, link, moves, signal, declaration, sourceVars, announced, opened, validated>>

(* Where a path has led since the load began, and whether that has changed. *)
led(p) == {l[p] : l \in layouts}
moved(p) == \E l, k \in layouts : l[p] # k[p]

(* loadPipelineDeclarationContext announces the selected declaration by the path  *)
(* it is given and parents as they are written, and only then has them resolved   *)
(* and read; what it returns names the sources' declarations by canonical path.   *)
declaring(d) == {d.sources[i].config : i \in 1..Len(d.sources)}

LoadDeclaration ==
    /\ phase = "declare"
    /\ \E names \in SUBSET ParentPaths :
        /\ announced' = {Entry} \cup names
        /\ \/ throw("error") /\ UNCHANGED declaration
           \/ /\ declaration' \in Declarations /\ next("announce")
              /\ \A c \in declaring(declaration') : \E p \in announced' : c \in led(p)
              /\ \A p \in announced' : led(p) \cap Configs # {}
    /\ UNCHANGED <<options, fileVars, signal, sourceVars, opened, validated>>

(* Each path is resolved where its source was declared. *)
Bug_declaredIn(s) == declaration.sources[Len(declaration.sources)].config
declaredIn(s) == s.config
prospective == {Lexical[<<declaredIn(s), s.target>>] :
    s \in {t \in {declaration.sources[i] : i \in 1..Len(declaration.sources)} : t.target # Inline}}

Announce ==
    /\ phase = "announce"
    /\ announced' = announced \cup prospective
    /\ \/ IF Len(declaration.sources) > MaxSources THEN throw("error") ELSE next("source")
       \/ prospective # {} /\ throw("error")        \* onDependencies refuses
    /\ UNCHANGED <<options, fileVars, signal, declaration, sourceVars, opened, validated>>

-----------------------------------------------------------------------------
(***************************************************************************)
(* loadDeclaredSources.                                                    *)
(***************************************************************************)
realpath(p) == IF link[p] = Missing THEN p ELSE link[p]
canonicalize(p) == IF p \in DOMAIN cached THEN cached[p] ELSE realpath(p)
remember(p) == cached' = [q \in DOMAIN cached \cup {p} |-> IF q = p THEN canonicalize(p) ELSE cached[q]]

push(bad) == sources' = Append(sources, bad) /\ fault' = (fault \/ bad)

NextSource ==
    /\ phase = "source"
    /\ UNCHANGED <<options, fileVars, signal, declaration, filePath, announced, opened, validated>>
    /\ IF Len(sources) = Len(declaration.sources)
       THEN next("pipeline") /\ UNCHANGED <<sources, cached, configPath>>
       ELSE IF signal THEN throw("aborted") /\ UNCHANGED <<sources, cached, configPath>>
       ELSE IF current.target = Inline
       THEN \E bad \in BOOLEAN : push(bad) /\ UNCHANGED <<phase, cached, configPath, resultVars>>
       ELSE /\ configPath' = canonicalize(current.config) /\ remember(current.config)
            /\ next("target") /\ UNCHANGED sources

(* The path starts from where its declaration is now. *)
written == Lexical[<<configPath, current.target>>]

ResolveTarget ==
    /\ phase = "target"
    /\ filePath' = canonicalize(written) /\ remember(written)
    /\ next("root")
    /\ UNCHANGED <<options, fileVars, signal, declaration, sources, configPath, announced, opened, validated>>

allowedRoot == IF options.workspace THEN canonicalize(Workspace) ELSE DirOf[configPath]

ResolveRoot ==
    /\ phase = "root"
    /\ IF options.workspace THEN remember(Workspace) ELSE UNCHANGED cached
    /\ IF <<allowedRoot, filePath>> \in Under THEN next("open") /\ UNCHANGED sources
       ELSE push(TRUE) /\ phase' = "source" /\ UNCHANGED resultVars
    /\ UNCHANGED <<options, fileVars, signal, declaration, configPath, filePath, announced, opened, validated>>

(* The file is opened by its canonical path; FileRead decides what comes of it. *)
Open ==
    /\ phase = "open"
    /\ opened' = opened \cup {<<written, current.config>>}
    /\ \E bad \in BOOLEAN :
        /\ signal \/ link[filePath] = Missing \/ <<allowedRoot, link[filePath]>> \notin Under => bad
        /\ push(bad)
    /\ phase' = "source"
    /\ UNCHANGED <<options, fileVars, signal, declaration, cached, configPath, filePath, resultVars,
                   announced, validated>>

-----------------------------------------------------------------------------
(***************************************************************************)
(* The pipeline and the declared validators.                               *)
(***************************************************************************)
sourceFailed == \E i \in 1..Len(sources) : sources[i]

mayReturn == ~options.validate \/ hasError(issues') \/ ~reportOk'

RunPipeline ==
    /\ phase = "pipeline"
    /\ \E report \in Reports :
        /\ sourceFailed => hasError(report)
        /\ issues' = IF signal THEN appendBoundedIssues(report, <<"aborted">>) ELSE report
    /\ provenance' \in 0..MaxProvenanceEvents /\ reportOk' \in BOOLEAN
    /\ fault' = (fault \/ hasError(issues'))
    /\ phase' = IF mayReturn THEN "output" ELSE "validators"
    /\ UNCHANGED <<options, fileVars, signal, declaration, sourceVars, delivered, announced, opened, validated>>

(* combineConfigIssues and a new report. *)
combine(more, events, bad) ==
    /\ issues' = appendBoundedIssues(issues, more)
    /\ provenance' = provenance + events /\ reportOk' \in BOOLEAN
    /\ fault' = (fault \/ bad)

(* Validators must fit into what is left of the events; every declared validator *)
(* that cannot be created is an issue, and then none of them runs.               *)
Bug_fits(n) == n <= MaxProvenanceEvents
fits(n) == n <= MaxProvenanceEvents - provenance

refusals(n) ==              \* record: one issue each, until they overflow
    IF n <= MaxDiagnostics THEN [i \in 1..n |-> "error"]
    ELSE [i \in 1..MaxDiagnostics |-> IF i = MaxDiagnostics THEN "overflow" ELSE "error"]

CreateValidators ==
    /\ phase = "validators" /\ UNCHANGED delivered
    /\ \/ ~fits(declaration.validators) /\ combine(<<"error">>, 0, TRUE) /\ phase' = "output"
       \/ /\ fits(declaration.validators) /\ phase' = "output"
          /\ \E n \in 0..declaration.validators :
               (n = 0 => declaration.validators = 0) /\ combine(refusals(n), 0, n > 0)
       \/ /\ fits(declaration.validators) /\ declaration.validators > 0 /\ phase' = "validate"
          /\ UNCHANGED <<issues, provenance, reportOk, fault>>
    /\ UNCHANGED <<options, fileVars, signal, declaration, sourceVars, announced, opened, validated>>

(* runValidators may stop before the last one, never without an error. *)
RunValidators ==
    /\ phase = "validate" /\ phase' = "output" /\ UNCHANGED delivered
    /\ \E n \in 0..declaration.validators, report \in Reports :
        LET more == IF signal THEN appendBoundedIssues(report, <<"aborted">>) ELSE report
        IN  /\ n < declaration.validators => hasError(more)
            /\ combine(more, n, hasError(more)) /\ validated' = n
    /\ UNCHANGED <<options, fileVars, signal, declaration, sourceVars, announced, opened>>

(* loadValidatedConfig has the output validator look at a good result. *)
ValidateOutput ==
    /\ phase = "output" /\ phase' = "done"
    /\ \/ UNCHANGED <<resultVars, fault>>           \* loadConfig alone, or nothing to look at
       \/ /\ options.validate /\ ~signal /\ ~hasError(issues) /\ reportOk /\ provenance < MaxProvenanceEvents
          /\ \E report \in Reports : combine(report, 1, hasError(report))
          /\ delivered' = (~hasError(issues') /\ reportOk')
    /\ UNCHANGED <<options, fileVars, signal, declaration, sourceVars, announced, opened, validated>>

-----------------------------------------------------------------------------
LoadInit ==
    /\ options \in [workspace : BOOLEAN, validate : BOOLEAN]
    /\ link \in Layouts /\ moves = 0 /\ layouts = {link} /\ signal = FALSE
    /\ phase = "begin" /\ declaration = [sources |-> << >>, validators |-> 0]
    /\ sources = << >> /\ cached = << >> /\ configPath = Missing /\ filePath = Missing
    /\ issues = << >> /\ provenance = 0 /\ reportOk = TRUE /\ delivered = FALSE
    /\ announced = {} /\ opened = {} /\ validated = 0 /\ fault = FALSE

LoadNext ==
    \/ phase # "done" /\ (Move \/ Abort)
    \/ Begin \/ LoadDeclaration \/ Announce
    \/ NextSource \/ ResolveTarget \/ ResolveRoot \/ Open
    \/ RunPipeline \/ CreateValidators \/ RunValidators \/ ValidateOutput

-----------------------------------------------------------------------------
(* A source file is opened under a name that was announced before. Or else its    *)
(* declaration has been moved since the load began, and was reached by an announced *)
(* path: the watcher, which follows that path and the file it leads to, notices.    *)
SourcesAnnounced ==
    \A o \in opened : o[1] \in announced \/ (moved(o[2]) /\ \E p \in announced : o[2] \in led(p))

(* A good result has all its sources, no stage of it failed, and, when its report *)
(* is good too and validation is asked for, all declared validators have passed   *)
(* it, within the budgets of issues and events that all stages share.             *)
StagesFailTheResult ==
    /\ phase = "done" /\ ~hasError(issues) =>
           /\ ~fault /\ ~sourceFailed /\ Len(sources) = Len(declaration.sources)
           /\ options.validate /\ reportOk => validated = declaration.validators
    /\ Len(issues) <= MaxDiagnostics /\ provenance <= MaxProvenanceEvents
    /\ delivered => ~hasError(issues) /\ reportOk /\ validated = declaration.validators
=============================================================================
