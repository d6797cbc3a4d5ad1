-------------------------- MODULE ApplicationProofs --------------------------
(***************************************************************************)
(* What the search for a declaration and the load that follows promise for *)
(* every workspace, declaration and bound.                                 *)
(***************************************************************************)
EXTENDS Application, DiagnosticsProofs

-----------------------------------------------------------------------------
(***************************************************************************)
(* The search.                                                             *)
(***************************************************************************)
Looking == {"lstat", "realpath", "stat"}
Refused == {"config_discovery_failed", "config_discovery_outside_workspace", "config_discovery_not_file"}
Decided == {"found"} \cup Refused
Exhausted == {"config_not_found", "max_discovery_directories_exceeded"}

DiscoveryTypes ==
    /\ entry \in [Candidates -> Kinds] /\ entryChanges \in Nat
    /\ search \in Looking \cup Decided \cup Exhausted \cup {"done"}
    /\ start \in 1..Depth /\ directory \in start..Depth /\ name \in 1..Names
    /\ lasting \subseteq Candidates /\ \A c \in lasting : entry[c] # "absent"

(* While nothing changes, a candidate is what the calls before found it to be. *)
QuietInv ==
    /\ lasting = {c \in Candidates : entry[c] # "absent"}
    /\ search = "realpath" => entry[candidate] \notin {"absent", "denied"}
    /\ search = "stat" => entry[candidate] \in {"directory", "file"}
    /\ search = "found" => entry[candidate] = "file"
    /\ search \in Refused => entry[candidate] \notin {"absent", "file"}

(* Nothing that lasts is before the candidate. *)
DiscoveryInv ==
    /\ DiscoveryTypes
    /\ search \in Looking \cup Decided =>
           candidate \in InReach /\ \A c \in lasting \cap InReach : ~before(c, candidate)
    /\ search \in Exhausted => lasting \cap InReach = {}
    /\ search = "config_not_found" => Depth < start + MaxDirectories
    /\ entryChanges = 0 /\ search # "done" => QuietInv

LEMMA DiscoveryStarts == Init => DiscoveryInv
<1>. SUFFICES ASSUME Init PROVE DiscoveryInv
    OBVIOUS
<1>. USE DiscoveryConstants DEF DiscoveryConstants
<1>1. CASE DiscoveryInit
    <2>1. DiscoveryTypes
        BY <1>1 DEF DiscoveryInit, DiscoveryTypes, Looking
    <2>2. candidate \in InReach /\ \A c \in Candidates \cap InReach : ~before(c, candidate)
        BY <1>1 DEF DiscoveryInit, candidate, InReach, Candidates, before
    <2>3. QED
        BY <1>1, <2>1, <2>2 DEF DiscoveryInit, DiscoveryInv, QuietInv, DiscoveryTypes, Exhausted, Refused
<1>2. CASE Named
    <2>1. DiscoveryTypes
        BY <1>2 DEF Named, DiscoveryTypes, Kinds
    <2>2. QED
        BY <1>2, <2>1 DEF Named, DiscoveryInv, Looking, Decided, Refused, Exhausted
<1>3. QED
    BY <1>1, <1>2 DEF Init

LEMMA DiscoveryStep == DiscoveryInv /\ [Next]_vars => DiscoveryInv'
<1>. SUFFICES ASSUME DiscoveryInv, [Next]_vars PROVE DiscoveryInv'
    OBVIOUS
<1>. USE DiscoveryConstants DEF DiscoveryConstants
<1>1. CASE UNCHANGED discoveryVars
    BY <1>1 DEF discoveryVars, DiscoveryInv, DiscoveryTypes, QuietInv, candidate, InReach, before
<1>2. CASE searching /\ ChangeEntry
    <2>1. DiscoveryTypes'
        BY <1>2 DEF ChangeEntry, DiscoveryInv, DiscoveryTypes, candidate
    <2>2. entryChanges' # 0 /\ lasting' \subseteq lasting /\ search' = search /\ search \in Looking
        BY <1>2 DEF ChangeEntry, searching, Looking, DiscoveryInv, DiscoveryTypes
    <2>3. UNCHANGED <<candidate, InReach, start>>
        BY <1>2 DEF ChangeEntry, candidate, InReach
    <2>4. QED
        BY <2>1, <2>2, <2>3 DEF DiscoveryInv, Looking, Decided, Refused, Exhausted, before
<1>3. CASE Lstat
    <2>. UNCHANGED <<entry, entryChanges, start, lasting, InReach>>
        BY <1>3 DEF Lstat, decided, InReach
    <2>1. search = "lstat" /\ candidate \in InReach /\ candidate \in Candidates
          /\ \A c \in lasting \cap InReach : ~before(c, candidate)
        BY <1>3 DEF Lstat, DiscoveryInv, DiscoveryTypes, Looking, InReach
    <2>2. entryChanges = 0 => QuietInv
        BY <2>1 DEF DiscoveryInv
    <2>3. absent(entry[candidate]) => candidate \notin lasting
        BY DEF absent, DiscoveryInv, DiscoveryTypes
    <2>4. CASE absent(entry[candidate]) /\ name < Names /\ name' = name + 1 /\ UNCHANGED <<search, directory>>
        <3>1. DiscoveryTypes'
            BY <2>4 DEF DiscoveryInv, DiscoveryTypes
        <3>2. candidate' \in InReach /\ \A c \in lasting \cap InReach : ~before(c, candidate')
            BY <2>1, <2>3, <2>4 DEF candidate, InReach, Candidates, before, DiscoveryInv, DiscoveryTypes
        <3>3. QED
            BY <2>1, <2>2, <2>4, <3>1, <3>2
               DEF DiscoveryInv, QuietInv, Decided, Refused, Exhausted, before
    <2>5. CASE absent(entry[candidate]) /\ name = Names /\ directory = Depth /\ decided("config_not_found")
        <3>1. DiscoveryTypes'
            BY <2>5 DEF decided, DiscoveryInv, DiscoveryTypes, Exhausted
        <3>2. lasting \cap InReach = {} /\ Depth < start + MaxDirectories
            BY <2>1, <2>3, <2>5 DEF candidate, InReach, Candidates, before, DiscoveryInv, DiscoveryTypes
        <3>3. QED
            BY <2>1, <2>2, <2>5, <3>1, <3>2 DEF decided, DiscoveryInv, QuietInv, Looking, Decided, Refused
    <2>6. CASE /\ absent(entry[candidate]) /\ name = Names /\ directory < Depth
               /\ directory' = directory + 1 /\ name' = 1
               /\ search' = IF directory' - start = MaxDirectories
                            THEN "max_discovery_directories_exceeded" ELSE search
        <3>1. DiscoveryTypes'
            BY <2>6 DEF DiscoveryInv, DiscoveryTypes, Exhausted
        <3>2. \A c \in lasting \cap InReach : c[1] >= directory'
            BY <2>1, <2>3, <2>6 DEF candidate, InReach, Candidates, before, DiscoveryInv, DiscoveryTypes
        <3>3. CASE directory' - start = MaxDirectories
            <4>1. lasting \cap InReach = {}
                BY <3>2, <3>3, <2>6 DEF InReach, Candidates, DiscoveryInv, DiscoveryTypes
            <4>2. QED
                BY <2>1, <2>2, <2>6, <3>1, <3>3, <4>1 DEF DiscoveryInv, QuietInv, Looking, Decided, Refused
        <3>4. CASE directory' - start # MaxDirectories
            <4>1. candidate' \in InReach
                BY <2>1, <2>6, <3>4 DEF candidate, InReach, Candidates, DiscoveryInv, DiscoveryTypes
            <4>2. \A c \in lasting \cap InReach : ~before(c, candidate')
                BY <2>6, <3>2 DEF candidate, InReach, Candidates, before, DiscoveryInv, DiscoveryTypes
            <4>3. QED
                BY <2>1, <2>2, <2>6, <3>1, <3>4, <4>1, <4>2
                   DEF DiscoveryInv, QuietInv, Decided, Refused, Exhausted, before
        <3>5. QED
            BY <3>3, <3>4
    <2>7. CASE entry[candidate] = "denied" /\ decided("config_discovery_failed")
        BY <2>1, <2>2, <2>7
           DEF decided, candidate, DiscoveryInv, DiscoveryTypes, QuietInv, Decided, Refused, Exhausted, Looking, before
    <2>8. CASE ~absent(entry[candidate]) /\ entry[candidate] # "denied" /\ decided("realpath")
        BY <2>1, <2>2, <2>8
           DEF absent, decided, candidate, DiscoveryInv, DiscoveryTypes, QuietInv, Decided, Refused, Exhausted,
               Looking, before
    <2>9. QED
        BY <1>3, <2>4, <2>5, <2>6, <2>7, <2>8 DEF Lstat
<1>4. CASE Realpath \/ Stat
    <2>1. \E s \in Decided \cup {"stat"} : decided(s)
        BY <1>4 DEF Realpath, Stat, Decided, Refused
    <2>2. UNCHANGED <<entry, entryChanges, start, directory, name, lasting, InReach, candidate>>
        BY <2>1 DEF decided, InReach, candidate
    <2>3. search \in Looking /\ search' \in Decided \cup {"stat"}
        BY <1>4, <2>1 DEF Realpath, Stat, decided, Looking
    <2>4. DiscoveryTypes'
        BY <2>2, <2>3 DEF DiscoveryInv, DiscoveryTypes, Looking
    <2>5. entryChanges = 0 => QuietInv'
        <3>1. entryChanges = 0 => QuietInv
            BY <2>3 DEF DiscoveryInv, Looking
        <3>2. QED
            BY <1>4, <2>2, <3>1 DEF Realpath, Stat, decided, QuietInv, Refused
    <2>6. QED
        BY <2>2, <2>3, <2>4, <2>5 DEF DiscoveryInv, Looking, Decided, Refused, Exhausted, before
<1>5. CASE HandOver
    <2>1. DiscoveryTypes'
        BY <1>5 DEF HandOver, DiscoveryTypes, Kinds
    <2>2. QED
        BY <1>5, <2>1 DEF HandOver, DiscoveryInv, Looking, Decided, Refused, Exhausted
<1>6. QED
    BY <1>1, <1>2, <1>3, <1>4, <1>5 DEF Next, DiscoveryNext, vars

(* A candidate that the search ended at is the nearest, if nothing changed. *)
LEMMA QuietDecides ==
    ASSUME DiscoveryInv, entryChanges = 0, search \in Decided
    PROVE  Nearest(candidate) /\ \A c \in Existing : Nearest(c) => c = candidate
<1>1. QuietInv /\ Existing = lasting \cap InReach /\ candidate \in InReach
      /\ \A c \in lasting \cap InReach : ~before(c, candidate)
    BY DEF DiscoveryInv, Existing, InReach, QuietInv, Decided, Refused
<1>2. Nearest(candidate)
    BY <1>1 DEF Nearest, Existing, QuietInv, Decided
<1>3. ASSUME NEW c \in Existing, Nearest(c) PROVE c = candidate
    <2>1. ~before(c, candidate) /\ ~before(candidate, c)
        BY <1>2, <1>3 DEF Nearest
    <2>2. c \in Candidates /\ candidate \in Candidates
        BY <1>1, <1>3 DEF Existing, InReach
    <2>3. QED
        BY <2>1, <2>2, DiscoveryConstants DEF Candidates, before, DiscoveryConstants
<1>4. QED
    BY <1>2, <1>3

(* A candidate that exists throughout the search is never passed over, in any    *)
(* workspace and whatever others do; and in a quiet file system the first that   *)
(* exists decides, alone.                                                        *)
THEOREM NearestDecides == Spec => []DiscoveryDecides
<1>1. DiscoveryInv => DiscoveryDecides
    <2>. SUFFICES ASSUME DiscoveryInv PROVE DiscoveryDecides
        OBVIOUS
    <2>1. search = "found" => candidate \in InReach /\ \A c \in lasting \cap InReach : ~before(c, candidate)
        BY DEF DiscoveryInv, Decided
    <2>2. search \in Exhausted => lasting \cap InReach = {}
        BY DEF DiscoveryInv
    <2>3. ASSUME entryChanges = 0, ~searching, search # "done"
          PROVE  /\ (search = "found") <=> (\E c \in Existing : Nearest(c) /\ entry[c] = "file")
                 /\ search = "found" => Nearest(candidate)
                 /\ search = "config_not_found" => Existing = {} /\ Depth < start + MaxDirectories
        <3>1. QuietInv /\ search \in Decided \cup Exhausted
            BY <2>3 DEF DiscoveryInv, DiscoveryTypes, searching, Looking
        <3>2. CASE search \in Decided
            BY <2>3, <3>1, <3>2, QuietDecides DEF QuietInv, Decided, Refused, Nearest
        <3>3. CASE search \in Exhausted
            <4>1. Existing = {}
                BY <2>2, <3>1, <3>3 DEF Existing, QuietInv, InReach
            <4>2. QED
                BY <3>3, <4>1 DEF DiscoveryInv, Exhausted
        <3>4. QED
            BY <3>1, <3>2, <3>3
    <2>4. QED
        BY <2>1, <2>2, <2>3 DEF DiscoveryDecides, Exhausted
<1>2. QED
    BY <1>1, DiscoveryStarts, DiscoveryStep, PTL DEF Spec

-----------------------------------------------------------------------------
(***************************************************************************)
(* What the load announces.                                                *)
(***************************************************************************)
Reading == {"source", "target", "root", "open"}
OnFile == {"target", "root", "open"}

(* A declaration that was reached by an announced path and has not been moved is *)
(* still found where it was, also through what is cached of it.                  *)
Reached(c) == \E p \in announced : c \in led(p)
Still(c) == link[c] = c /\ (c \in DOMAIN cached => cached[c] = c)

AnnounceInv ==
    /\ link \in layouts /\ layouts \subseteq Layouts /\ sources \in Seq(BOOLEAN)
    /\ phase \in {"begin", "declare"} => cached = << >> /\ opened = {}
    /\ phase \in {"begin", "declare", "announce"} => sources = << >>
    /\ phase \in Reading \cup {"announce"} =>
           /\ declaration \in Declarations /\ Len(sources) <= Len(declaration.sources)
           /\ \A c \in declaring(declaration) :
                Reached(c) /\ (moved(c) \/ Still(c))
    /\ phase \in Reading => prospective \subseteq announced
    /\ phase \in OnFile =>
           /\ Len(sources) < Len(declaration.sources) /\ current.target # Inline
           /\ moved(current.config) \/ configPath = current.config
    /\ SourcesAnnounced

LEMMA DeclaredTypes ==
    ASSUME NEW d \in Declarations
    PROVE  d.sources \in Seq(Source) /\ d.validators \in Nat /\ declaring(d) \subseteq Configs
<1>1. d.sources \in Seq(Source) /\ d.validators \in Nat
    BY LoadConfigConstants DEF LoadConfigConstants, Declaration
<1>2. \A i \in 1..Len(d.sources) : d.sources[i] \in Source
    BY <1>1
<1>3. QED
    BY <1>1, <1>2, LoadConfigConstants DEF LoadConfigConstants, declaring, Source

(* The current source is declared in an announced file; where it leads was       *)
(* announced when that file is where it was.                                     *)
LEMMA CurrentIsDeclared ==
    ASSUME declaration \in Declarations, sources \in Seq(BOOLEAN), Len(sources) < Len(declaration.sources)
    PROVE  /\ current.config \in declaring(declaration)
           /\ current.target # Inline => Lexical[<<current.config, current.target>>] \in prospective
<1>1. declaration.sources \in Seq(Source)
    BY DeclaredTypes
<1>2. Len(sources) + 1 \in 1..Len(declaration.sources)
    BY <1>1
<1>3. current \in {declaration.sources[i] : i \in 1..Len(declaration.sources)}
    BY <1>2 DEF current
<1>4. current.config \in declaring(declaration)
    BY <1>2 DEF current, declaring
<1>5. QED
    BY <1>3, <1>4 DEF prospective, declaredIn

(* What a path led to is canonical: it leads to itself, unless it has moved. *)
LEMMA UnmovedIsStill ==
    ASSUME link \in layouts, layouts \subseteq Layouts, NEW p \in Paths, NEW c \in Configs, c \in led(p)
    PROVE  moved(c) \/ link[c] = c
<1>1. PICK l \in layouts : l[p] = c
    BY DEF led
<1>2. l \in Layouts /\ c # Missing
    BY <1>1, LoadConfigConstants DEF LoadConfigConstants
<1>3. l[c] = c
    BY <1>1, <1>2, LoadConfigConstants DEF LoadConfigConstants
<1>4. QED
    BY <1>3 DEF moved

(* canonicalize finds an unmoved declaration where it was, and remembers that. *)
LEMMA CanonicalizeUnmoved ==
    ASSUME NEW c, Still(c)
    PROVE  canonicalize(c) = c
BY DEF Still, canonicalize, realpath

LEMMA RememberKeeps ==
    ASSUME NEW p, remember(p), link' = link, NEW c, Still(c)
    PROVE  Still(c)'
<1>1. canonicalize(c) = c
    BY CanonicalizeUnmoved
<1>2. QED
    BY <1>1 DEF remember, Still

(* What a step that leaves the links alone keeps of a declaration. *)
LEMMA DeclaringKeeps ==
    ASSUME UNCHANGED <<link, layouts, declaration>>, announced \subseteq announced',
           UNCHANGED cached \/ (\E p : remember(p)),
           \A c \in declaring(declaration) : Reached(c) /\ (moved(c) \/ Still(c))
    PROVE  \A c \in declaring(declaration') : Reached(c)' /\ (moved(c)' \/ Still(c)')
<1>. SUFFICES ASSUME NEW c \in declaring(declaration)
              PROVE  Reached(c)' /\ (moved(c)' \/ Still(c)')
    OBVIOUS
<1>1. Reached(c)' /\ (moved(c) => moved(c)')
    BY DEF Reached, led, moved
<1>2. Still(c) => Still(c)'
    BY RememberKeeps DEF Still
<1>3. QED
    BY <1>1, <1>2

LEMMA AnnounceStarts == Init => AnnounceInv
BY DEF Init, LoadInit, AnnounceInv, Reading, OnFile, SourcesAnnounced

(* Steps that read nothing more, or nothing yet, and leave what was announced. *)
LEMMA AnnounceIdle ==
    ASSUME AnnounceInv, UNCHANGED <<link, layouts, opened>>, sources' \in Seq(BOOLEAN),
           announced \subseteq announced', phase' \notin Reading \cup {"begin", "declare", "announce"}
    PROVE  AnnounceInv'
BY DEF AnnounceInv, Reading, OnFile, SourcesAnnounced, led, moved

LEMMA AnnounceStep == AnnounceInv /\ [Next]_vars => AnnounceInv'
<1>. SUFFICES ASSUME AnnounceInv, [Next]_vars PROVE AnnounceInv'
    OBVIOUS
<1>. USE DEF fileVars, sourceVars, next
<1>1. CASE UNCHANGED loadVars
    BY <1>1 DEF loadVars, AnnounceInv, SourcesAnnounced, prospective, declaredIn, current, Reached, Still, led, moved
<1>2. CASE Move /\ phase # "done"
    <2>1. link' \in layouts' /\ layouts \subseteq layouts' /\ layouts' \subseteq Layouts
        BY <1>2 DEF Move, AnnounceInv
    <2>2. UNCHANGED <<phase, declaration, sources, cached, configPath, announced, opened>>
        BY <1>2 DEF Move
    <2>3. \A c : (Reached(c) => Reached(c)') /\ (moved(c) => moved(c)') /\ (Still(c) => moved(c)' \/ Still(c)')
        BY <2>1, <2>2 DEF AnnounceInv, Reached, Still, led, moved
    <2>4. SourcesAnnounced'
        BY <2>2, <2>3 DEF AnnounceInv, SourcesAnnounced, Reached
    <2>5. UNCHANGED <<current, prospective>>
        BY <2>2 DEF current, prospective, declaredIn
    <2>6. QED
        BY <2>1, <2>2, <2>3, <2>4, <2>5 DEF AnnounceInv
<1>3. CASE Abort /\ phase # "done"
    BY <1>3 DEF Abort, AnnounceInv, SourcesAnnounced, prospective, declaredIn, current, Reached, Still, led, moved
<1>4. CASE Begin
    <2>1. /\ UNCHANGED <<link, declaration, sources, cached, opened>> /\ layouts' = {link}
          /\ phase = "begin" /\ phase' \in {"declare", "done"}
        BY <1>4 DEF Begin, throw
    <2>2. opened = {} /\ cached = << >> /\ sources = << >> /\ link \in Layouts
        BY <2>1 DEF AnnounceInv
    <2>3. QED
        BY <2>1, <2>2 DEF AnnounceInv, SourcesAnnounced, Reading, OnFile
<1>5. CASE LoadDeclaration
    <2>1. PICK names \in SUBSET ParentPaths :
            /\ announced' = {Entry} \cup names
            /\ \/ throw("error") /\ UNCHANGED declaration
               \/ /\ declaration' \in Declarations /\ next("announce")
                  /\ \A c \in declaring(declaration') : \E p \in announced' : c \in led(p)
        BY <1>5 DEF LoadDeclaration
    <2>2. phase = "declare" /\ UNCHANGED <<link, layouts, sources, cached, opened>>
        BY <1>5 DEF LoadDeclaration
    <2>3. cached = << >> /\ opened = {} /\ sources = << >> /\ link \in layouts /\ layouts \subseteq Layouts
        BY <2>2 DEF AnnounceInv
    <2>4. SourcesAnnounced'
        BY <2>2, <2>3 DEF SourcesAnnounced
    <2>5. CASE phase' = "done"
        BY <2>2, <2>3, <2>4, <2>5 DEF AnnounceInv, Reading, OnFile
    <2>6. CASE /\ declaration' \in Declarations /\ phase' = "announce"
               /\ \A c \in declaring(declaration') : \E p \in announced' : c \in led(p)
        <3>1. declaration'.sources \in Seq(Source) /\ declaring(declaration') \subseteq Configs
            BY <2>6, DeclaredTypes
        <3>2. Len(sources') <= Len(declaration'.sources)
            BY <2>2, <2>3, <3>1
        <3>3. ASSUME NEW c \in declaring(declaration') PROVE Reached(c)' /\ (moved(c)' \/ Still(c)')
            <4>1. PICK p \in announced' : c \in led(p)
                BY <2>6, <3>3
            <4>2. p \in Paths /\ c \in Configs
                BY <2>1, <3>1, <3>3, <4>1, LoadConfigConstants DEF LoadConfigConstants
            <4>3. moved(c) \/ link[c] = c
                BY <2>3, <4>1, <4>2, UnmovedIsStill
            <4>4. DOMAIN cached' = {}
                BY <2>2, <2>3
            <4>5. QED
                BY <2>2, <4>1, <4>3, <4>4 DEF Reached, Still, led, moved
        <3>4. QED
            BY <2>2, <2>3, <2>4, <2>6, <3>2, <3>3 DEF AnnounceInv, Reading, OnFile
    <2>7. QED
        BY <2>1, <2>5, <2>6 DEF throw
<1>6. CASE Announce
    <2>1. announced' = announced \cup prospective
          /\ UNCHANGED <<link, layouts, declaration, sources, cached, configPath, opened>>
        BY <1>6 DEF Announce
    <2>2. CASE phase' = "done"
        BY <2>1, <2>2, AnnounceIdle DEF AnnounceInv, Reading
    <2>3. CASE phase' = "source"
        <3>1. UNCHANGED prospective
            BY <2>1 DEF prospective, declaredIn
        <3>2. phase = "announce"
            BY <1>6 DEF Announce
        <3>3. QED
            BY <2>1, <2>3, <3>1, <3>2, DeclaringKeeps DEF AnnounceInv, Reading, OnFile, SourcesAnnounced, led, moved
    <2>4. QED
        BY <1>6, <2>2, <2>3 DEF Announce, throw
<1>7. CASE NextSource
    <2>1. UNCHANGED <<link, layouts, declaration, announced, opened, prospective>> /\ phase = "source"
        BY <1>7 DEF NextSource, prospective, declaredIn
    <2>2. CASE phase' \in {"pipeline", "done"} /\ UNCHANGED sources
        BY <2>1, <2>2, AnnounceIdle DEF AnnounceInv, Reading
    <2>3. CASE /\ Len(sources) # Len(declaration.sources)
               /\ \E bad \in BOOLEAN : push(bad) /\ UNCHANGED <<phase, cached, configPath, resultVars>>
        <3>1. PICK bad \in BOOLEAN : sources' = Append(sources, bad) /\ UNCHANGED <<phase, cached>>
            BY <2>3 DEF push
        <3>2. declaration \in Declarations /\ Len(sources) <= Len(declaration.sources) /\ sources \in Seq(BOOLEAN)
            BY <2>1 DEF AnnounceInv, Reading
        <3>3. sources' \in Seq(BOOLEAN) /\ Len(sources') = Len(sources) + 1
            BY <3>1, <3>2
        <3>4. Len(sources') <= Len(declaration.sources)
            BY <2>3, <3>2, <3>3, DeclaredTypes
        <3>5. QED
            BY <2>1, <3>1, <3>3, <3>4, DeclaringKeeps DEF AnnounceInv, Reading, OnFile, SourcesAnnounced, led, moved
    <2>4. CASE /\ Len(sources) # Len(declaration.sources) /\ current.target # Inline
               /\ configPath' = canonicalize(current.config) /\ remember(current.config)
               /\ next("target") /\ UNCHANGED sources
        <3>1. declaration \in Declarations /\ Len(sources) <= Len(declaration.sources) /\ sources \in Seq(BOOLEAN)
            BY <2>1 DEF AnnounceInv, Reading
        <3>2. Len(sources) < Len(declaration.sources)
            BY <2>4, <3>1, DeclaredTypes
        <3>3. current.config \in declaring(declaration) /\ UNCHANGED current
            BY <2>1, <2>4, <3>1, <3>2, CurrentIsDeclared DEF current
        <3>4. \A c \in declaring(declaration) : Reached(c) /\ (moved(c) \/ Still(c))
            BY <2>1 DEF AnnounceInv, Reading
        <3>5. \A c \in declaring(declaration') : Reached(c)' /\ (moved(c)' \/ Still(c)')
            BY <2>1, <2>4, <3>4, DeclaringKeeps
        <3>6. moved(current.config)' \/ configPath' = current.config
            BY <2>1, <2>4, <3>3, <3>4, CanonicalizeUnmoved DEF moved
        <3>7. QED
            BY <2>1, <2>4, <3>1, <3>2, <3>3, <3>5, <3>6
               DEF AnnounceInv, Reading, OnFile, SourcesAnnounced, led, moved
    <2>5. QED
        BY <1>7, <2>2, <2>3, <2>4 DEF NextSource, throw
<1>8. CASE ResolveTarget \/ ResolveRoot
    <2>1. /\ UNCHANGED <<link, layouts, declaration, configPath, announced, opened, prospective>>
          /\ phase \in OnFile /\ phase' \in Reading
        BY <1>8 DEF ResolveTarget, ResolveRoot, prospective, declaredIn, OnFile, Reading
    <2>2. \/ UNCHANGED sources /\ phase' \in OnFile
          \/ (\E bad \in BOOLEAN : sources' = Append(sources, bad)) /\ phase' = "source"
        BY <1>8 DEF ResolveTarget, ResolveRoot, push, OnFile
    <2>3. /\ declaration \in Declarations /\ sources \in Seq(BOOLEAN) /\ Len(sources) < Len(declaration.sources)
          /\ \A c \in declaring(declaration) : Reached(c) /\ (moved(c) \/ Still(c))
        BY <2>1 DEF AnnounceInv, Reading, OnFile
    <2>4. \A c \in declaring(declaration') : Reached(c)' /\ (moved(c)' \/ Still(c)')
        <3>1. UNCHANGED cached \/ (\E p : remember(p))
            BY <1>8 DEF ResolveTarget, ResolveRoot
        <3>2. QED
            BY <2>1, <2>3, <3>1, DeclaringKeeps
    <2>5. sources' \in Seq(BOOLEAN) /\ Len(sources') <= Len(declaration.sources)
        BY <2>2, <2>3, DeclaredTypes
    <2>6. UNCHANGED sources => UNCHANGED current
        BY <2>1 DEF current
    <2>7. QED
        BY <2>1, <2>2, <2>3, <2>4, <2>5, <2>6 DEF AnnounceInv, Reading, OnFile, SourcesAnnounced, led, moved
<1>9. CASE Open
    <2>1. /\ UNCHANGED <<link, layouts, declaration, cached, configPath, announced, prospective>>
          /\ phase = "open" /\ phase' = "source" /\ opened' = opened \cup {<<written, current.config>>}
        BY <1>9 DEF Open, prospective, declaredIn
    <2>2. PICK bad \in BOOLEAN : sources' = Append(sources, bad)
        BY <1>9 DEF Open, push
    <2>3. /\ declaration \in Declarations /\ sources \in Seq(BOOLEAN) /\ Len(sources) < Len(declaration.sources)
          /\ current.target # Inline /\ (moved(current.config) \/ configPath = current.config)
          /\ \A c \in declaring(declaration) : Reached(c) /\ (moved(c) \/ Still(c))
        BY <2>1 DEF AnnounceInv, Reading, OnFile
    <2>4. sources' \in Seq(BOOLEAN) /\ Len(sources') <= Len(declaration.sources)
        BY <2>2, <2>3, DeclaredTypes
    <2>5. current.config \in declaring(declaration) /\ prospective \subseteq announced
          /\ Lexical[<<current.config, current.target>>] \in prospective
        BY <2>1, <2>3, CurrentIsDeclared DEF AnnounceInv, Reading
    <2>6. written \in announced \/ (moved(current.config) /\ Reached(current.config))
        BY <2>3, <2>5 DEF written
    <2>7. SourcesAnnounced'
        BY <2>1, <2>6 DEF AnnounceInv, SourcesAnnounced, Reached, led, moved
    <2>8. QED
        BY <2>1, <2>3, <2>4, <2>7, DeclaringKeeps DEF AnnounceInv, Reading, OnFile
<1>10. CASE RunPipeline \/ CreateValidators \/ RunValidators \/ ValidateOutput
    <2>1. /\ UNCHANGED <<link, layouts, sources, announced, opened>>
          /\ phase' \in {"output", "validators", "validate", "done"}
        BY <1>10 DEF RunPipeline, CreateValidators, RunValidators, ValidateOutput
    <2>2. QED
        BY <2>1, AnnounceIdle DEF AnnounceInv, Reading
<1>11. QED
    BY <1>1, <1>2, <1>3, <1>4, <1>5, <1>6, <1>7, <1>8, <1>9, <1>10 DEF Next, LoadNext, HandOver, vars

(* However files are moved during a load, a source is opened under an announced  *)
(* name, or its declaration, reached by an announced path, has been moved.       *)
THEOREM OpenedWasAnnounced == Spec => []SourcesAnnounced
<1>1. AnnounceInv => SourcesAnnounced
    BY DEF AnnounceInv
<1>2. QED
    BY <1>1, AnnounceStarts, AnnounceStep, PTL DEF Spec

-----------------------------------------------------------------------------
(***************************************************************************)
(* How stages fail.                                                        *)
(***************************************************************************)
Complete == Len(sources) = Len(declaration.sources)

(* Where a failure is while the load goes on: in a source until the pipeline has *)
(* run, and in the issues from then on.                                          *)
StageTypes ==
    /\ issues \in Issues /\ provenance \in 0..MaxProvenanceEvents
    /\ sources \in Seq(BOOLEAN) /\ declaration.validators \in Nat /\ validated \in Nat
    /\ fault \in BOOLEAN /\ delivered \in BOOLEAN

StageInv ==
    /\ StageTypes
    /\ phase # "done" => ~delivered
    /\ phase \in {"begin", "declare", "announce"} => ~fault /\ sources = << >>
    /\ phase \in Reading \cup {"pipeline"} => (fault => sourceFailed)
    /\ phase \in {"pipeline", "validators", "validate", "output"} => Complete
    /\ phase \notin {"output", "done"} => validated = 0
    /\ phase \in {"validators", "validate", "output"} => (fault \/ sourceFailed => hasError(issues))
    /\ phase \in {"validators", "validate"} => options.validate /\ ~hasError(issues) /\ reportOk
    /\ phase = "validate" => fits(declaration.validators)
    /\ phase = "output" =>
           (options.validate /\ reportOk /\ ~hasError(issues) => validated = declaration.validators)
    /\ StagesFailTheResult

LEMMA OneIssue ==
    ASSUME NEW code \in Codes, code # "warning"
    PROVE  <<code>> \in Issues /\ hasError(<<code>>)
BY DiagnosticsConstants DEF DiagnosticsConstants, Issues, hasError

(* What is thrown fails the result, whatever was loaded before. *)
LEMMA ThrownFails ==
    ASSUME StageInv, phase # "done", NEW code \in {"error", "aborted"}, throw(code),
           UNCHANGED <<declaration, sources, validated>>
    PROVE  StageInv'
<1>1. issues' = <<code>> /\ issues' \in Issues /\ hasError(issues')
    BY OneIssue DEF throw, Codes
<1>2. phase' = "done" /\ fault' = TRUE /\ provenance' = 0 /\ ~delivered' /\ delivered' \in BOOLEAN
    BY DEF throw, StageInv, StageTypes
<1>3. Len(issues') <= MaxDiagnostics /\ 0 \in 0..MaxProvenanceEvents
    BY <1>1, LoadConfigConstants DEF Issues, LoadConfigConstants
<1>4. QED
    BY <1>1, <1>2, <1>3 DEF StageInv, StageTypes, StagesFailTheResult, Reading

(* More issues keep the errors of both lists. *)
LEMMA CombineKeepsErrors ==
    ASSUME StageTypes, NEW more \in Seq(Codes), NEW events, NEW bad \in BOOLEAN, combine(more, events, bad),
           bad => hasError(more)
    PROVE  /\ issues' \in Issues /\ fault' \in BOOLEAN
           /\ hasError(issues) \/ hasError(more) => hasError(issues')
           /\ (fault => hasError(issues)) => (fault' => hasError(issues'))
           /\ provenance' = provenance + events
BY AppendKeepsErrors DEF combine, StageTypes

LEMMA RefusalsAreErrors ==
    ASSUME NEW n \in Nat
    PROVE  refusals(n) \in Seq(Codes) /\ (n > 0 => hasError(refusals(n)))
<1>1. ASSUME NEW m \in Nat, NEW f \in [1..m -> {"error", "overflow"}]
      PROVE  f \in Seq(Codes) /\ (m > 0 => hasError(f))
    <2>1. f \in Seq({"error", "overflow"}) /\ Len(f) = m
        BY <1>1
    <2>2. \A i \in 1..m : f[i] \in Codes /\ f[i] # "warning"
        BY <1>1 DEF Codes
    <2>3. QED
        BY <2>1, <2>2 DEF hasError
<1>2. CASE n <= MaxDiagnostics
    BY <1>1, <1>2 DEF refusals
<1>3. CASE n > MaxDiagnostics
    <2>1. refusals(n) = [i \in 1..MaxDiagnostics |-> IF i = MaxDiagnostics THEN "overflow" ELSE "error"]
        BY <1>3, DiagnosticsConstants DEF refusals, DiagnosticsConstants
    <2>2. refusals(n) \in [1..MaxDiagnostics -> {"error", "overflow"}]
        BY <2>1
    <2>3. QED
        BY <1>1, <2>2, DiagnosticsConstants DEF DiagnosticsConstants
<1>4. QED
    BY <1>2, <1>3, DiagnosticsConstants DEF DiagnosticsConstants

(* What a stage reports, with the abort that it may have seen. *)
withAbort(report) == IF signal THEN appendBoundedIssues(report, <<"aborted">>) ELSE report

LEMMA StageReports ==
    ASSUME NEW report \in Reports
    PROVE  /\ withAbort(report) \in Issues /\ withAbort(report) \in Seq(Codes)
           /\ hasError(report) => hasError(withAbort(report))
<1>1. report \in Issues
    BY LoadConfigConstants DEF LoadConfigConstants, Issues, Codes
<1>2. <<"aborted">> \in Seq(Codes)
    BY DEF Codes
<1>3. QED
    BY <1>1, <1>2, AppendKeepsErrors DEF withAbort, Issues

(* One more source, which is bad if the step says so. *)
LEMMA PushedSource ==
    ASSUME sources \in Seq(BOOLEAN), fault \in BOOLEAN, fault => sourceFailed, NEW bad \in BOOLEAN, push(bad)
    PROVE  sources' \in Seq(BOOLEAN) /\ fault' \in BOOLEAN /\ (fault' => sourceFailed')
<1>1. sources' = Append(sources, bad) /\ fault' = (fault \/ bad)
    BY DEF push
<1>2. sources' \in Seq(BOOLEAN) /\ Len(sources') = Len(sources) + 1 /\ sources'[Len(sources) + 1] = bad
    BY <1>1
<1>3. \A i \in 1..Len(sources) : sources'[i] = sources[i]
    BY <1>1
<1>4. ASSUME NEW i \in 1..Len(sources), sources[i] PROVE sourceFailed'
    <2>1. i \in 1..Len(sources') /\ sources'[i]
        BY <1>2, <1>3, <1>4
    <2>2. QED
        BY <2>1 DEF sourceFailed
<1>5. ASSUME bad PROVE sourceFailed'
    <2>1. Len(sources) + 1 \in 1..Len(sources') /\ sources'[Len(sources) + 1]
        BY <1>2, <1>5
    <2>2. QED
        BY <2>1 DEF sourceFailed
<1>6. QED
    BY <1>1, <1>2, <1>4, <1>5 DEF sourceFailed

LEMMA StageStarts == Init => StageInv
<1>1. << >> \in Issues /\ << >> \in Seq(BOOLEAN) /\ 0 \in 0..MaxProvenanceEvents
    BY DiagnosticsConstants, LoadConfigConstants DEF DiagnosticsConstants, LoadConfigConstants, Issues
<1>2. Init => StageTypes
    <2>. SUFFICES ASSUME Init PROVE StageTypes
        OBVIOUS
    <2>1. issues = << >> /\ sources = << >> /\ provenance = 0 /\ validated = 0 /\ fault = FALSE /\ delivered = FALSE
        BY DEF Init, LoadInit
    <2>2. declaration.validators = 0
        BY DEF Init, LoadInit
    <2>3. fault \in BOOLEAN /\ delivered \in BOOLEAN
        BY <2>1
    <2>4. issues \in Issues /\ provenance \in 0..MaxProvenanceEvents /\ sources \in Seq(BOOLEAN)
        BY <1>1, <2>1, Zenon
    <2>5. declaration.validators \in Nat /\ validated \in Nat
        BY <2>1, <2>2
    <2>6. QED
        BY <2>3, <2>4, <2>5 DEF StageTypes
<1>3. QED
    BY <1>1, <1>2 DEF Init, LoadInit, StageInv, StageTypes, Reading, StagesFailTheResult, Issues

(* Steps that only go on, or load a source. *)
LEMMA StageGoesOn ==
    ASSUME StageInv, UNCHANGED <<options, resultVars, validated>>,
           declaration'.validators \in Nat, sources' \in Seq(BOOLEAN), fault' \in BOOLEAN,
           phase \notin {"output", "done"}, phase' \in {"declare", "announce"} \cup Reading \cup {"pipeline"},
           phase' \in {"declare", "announce"} => ~fault' /\ sources' = << >>,
           phase' \in Reading \cup {"pipeline"} => (fault' => sourceFailed'),
           phase' = "pipeline" => Complete'
    PROVE  StageInv'
BY DEF StageInv, StageTypes, resultVars, Reading, StagesFailTheResult

LEMMA StageStep == StageInv /\ [Next]_vars => StageInv'
<1>. SUFFICES ASSUME StageInv, [Next]_vars PROVE StageInv'
    OBVIOUS
<1>. USE DEF fileVars, sourceVars, next
<1>1. CASE UNCHANGED <<options, phase, declaration, sourceVars, resultVars, validated, fault>>
    BY <1>1 DEF resultVars, StageInv, StageTypes, StagesFailTheResult, Complete, sourceFailed, fits
<1>2. CASE Begin
    BY <1>2, ThrownFails, StageGoesOn DEF Begin, StageInv, StageTypes, Reading
<1>3. CASE LoadDeclaration
    BY <1>3, ThrownFails, StageGoesOn, DeclaredTypes DEF LoadDeclaration, StageInv, StageTypes, Reading
<1>4. CASE Announce
    BY <1>4, ThrownFails, StageGoesOn DEF Announce, StageInv, StageTypes, Reading
<1>5. CASE NextSource
    <2>1. phase = "source" /\ UNCHANGED <<options, declaration, validated>>
        BY <1>5 DEF NextSource
    <2>2. CASE Len(sources) = Len(declaration.sources) /\ next("pipeline") /\ UNCHANGED sources
        BY <2>1, <2>2, StageGoesOn DEF StageInv, StageTypes, Reading, Complete, sourceFailed
    <2>3. CASE throw("aborted") /\ UNCHANGED sources
        BY <2>1, <2>3, ThrownFails
    <2>4. CASE \E bad \in BOOLEAN : push(bad) /\ UNCHANGED <<phase, cached, configPath, resultVars>>
        BY <2>1, <2>4, PushedSource, StageGoesOn DEF StageInv, StageTypes, Reading
    <2>5. CASE next("target") /\ UNCHANGED sources
        BY <2>1, <2>5, StageGoesOn DEF StageInv, StageTypes, Reading, sourceFailed
    <2>6. QED
        BY <1>5, <2>2, <2>3, <2>4, <2>5 DEF NextSource
<1>6. CASE ResolveTarget
    BY <1>6, StageGoesOn DEF ResolveTarget, StageInv, StageTypes, Reading, sourceFailed
<1>7. CASE ResolveRoot
    <2>1. phase = "root" /\ UNCHANGED <<options, declaration, validated>>
        BY <1>7 DEF ResolveRoot
    <2>2. CASE next("open") /\ UNCHANGED sources
        BY <2>1, <2>2, StageGoesOn DEF StageInv, StageTypes, Reading, sourceFailed
    <2>3. CASE push(TRUE) /\ phase' = "source" /\ UNCHANGED resultVars
        BY <2>1, <2>3, PushedSource, StageGoesOn DEF StageInv, StageTypes, Reading
    <2>4. QED
        BY <1>7, <2>2, <2>3 DEF ResolveRoot
<1>8. CASE Open
    BY <1>8, PushedSource, StageGoesOn DEF Open, StageInv, StageTypes, Reading
<1>9. CASE RunPipeline
    <2>1. /\ phase = "pipeline" /\ UNCHANGED <<options, declaration, sources, delivered, validated>>
          /\ provenance' \in 0..MaxProvenanceEvents /\ fault' = (fault \/ hasError(issues'))
          /\ phase' = IF mayReturn THEN "output" ELSE "validators"
        BY <1>9 DEF RunPipeline
    <2>2. PICK report \in Reports : (sourceFailed => hasError(report)) /\ issues' = withAbort(report)
        BY <1>9 DEF RunPipeline, withAbort
    <2>3. issues' \in Issues /\ (sourceFailed => hasError(issues'))
        BY <2>2, StageReports
    <2>4. fault' => hasError(issues')
        BY <2>1, <2>3 DEF StageInv, StageTypes
    <2>5. UNCHANGED <<Complete, sourceFailed>> /\ fault' \in BOOLEAN
        BY <2>1 DEF Complete, sourceFailed, hasError
    <2>6. QED
        BY <2>1, <2>3, <2>4, <2>5 DEF StageInv, StageTypes, mayReturn, Reading, StagesFailTheResult, Issues
<1>10. CASE CreateValidators
    <2>1. phase = "validators" /\ UNCHANGED <<options, declaration, sources, delivered, validated, Complete, sourceFailed>>
        BY <1>10 DEF CreateValidators, Complete, sourceFailed
    <2>2. CASE phase' = "validate" /\ fits(declaration.validators) /\ UNCHANGED <<issues, provenance, reportOk, fault>>
        BY <2>1, <2>2 DEF StageInv, StageTypes, Reading, StagesFailTheResult, fits
    <2>3. ASSUME phase' = "output",
                 NEW more \in Seq(Codes), NEW bad \in BOOLEAN, combine(more, 0, bad), bad => hasError(more),
                 ~hasError(more) => declaration.validators = 0
          PROVE  StageInv'
        <3>1. /\ issues' \in Issues /\ fault' \in BOOLEAN
              /\ hasError(issues) \/ hasError(more) => hasError(issues')
              /\ (fault => hasError(issues)) => (fault' => hasError(issues'))
              /\ provenance' = provenance + 0
            BY <2>3, CombineKeepsErrors DEF StageInv
        <3>2. QED
            BY <2>1, <2>3, <3>1 DEF StageInv, StageTypes, Reading, StagesFailTheResult, Issues
    <2>4. CASE combine(<<"error">>, 0, TRUE) /\ phase' = "output"
        <3>1. <<"error">> \in Seq(Codes) /\ hasError(<<"error">>)
            BY OneIssue DEF Codes, Issues
        <3>2. QED
            BY <2>3, <2>4, <3>1
    <2>5. ASSUME phase' = "output", NEW n \in 0..declaration.validators, n = 0 => declaration.validators = 0,
                 combine(refusals(n), 0, n > 0)
          PROVE  StageInv'
        <3>1. n \in Nat
            BY <2>5 DEF StageInv, StageTypes
        <3>2. refusals(n) \in Seq(Codes) /\ (n > 0 => hasError(refusals(n)))
            BY <3>1, RefusalsAreErrors
        <3>3. (n > 0) \in BOOLEAN /\ (~(n > 0) => n = 0)
            BY <3>1
        <3>4. QED
            BY <2>3, <2>5, <3>2, <3>3
    <2>6. QED
        BY <1>10, <2>2, <2>4, <2>5 DEF CreateValidators
<1>11. CASE RunValidators
    <2>1. /\ phase = "validate" /\ phase' = "output"
          /\ UNCHANGED <<options, declaration, sources, delivered, Complete, sourceFailed>>
        BY <1>11 DEF RunValidators, Complete, sourceFailed
    <2>2. PICK n \in 0..declaration.validators, report \in Reports :
            /\ n < declaration.validators => hasError(withAbort(report))
            /\ combine(withAbort(report), n, hasError(withAbort(report))) /\ validated' = n
        BY <1>11 DEF RunValidators, withAbort
    <2>. DEFINE more == withAbort(report)
    <2>3. more \in Seq(Codes) /\ hasError(more) \in BOOLEAN
        BY StageReports DEF hasError
    <2>. HIDE DEF more
    <2>4. /\ issues' \in Issues /\ fault' \in BOOLEAN
          /\ hasError(issues) \/ hasError(more) => hasError(issues')
          /\ (fault => hasError(issues)) => (fault' => hasError(issues'))
          /\ provenance' = provenance + n
        BY <2>2, <2>3, CombineKeepsErrors DEF StageInv, more
    <2>5. n \in Nat /\ (~hasError(issues') => n = declaration.validators)
        BY <2>2, <2>4 DEF StageInv, StageTypes, more
    <2>6. provenance' \in 0..MaxProvenanceEvents
        BY <2>1, <2>2, <2>4, LoadConfigConstants DEF StageInv, StageTypes, fits, LoadConfigConstants
    <2>7. QED
        BY <2>1, <2>2, <2>4, <2>5, <2>6 DEF StageInv, StageTypes, Reading, StagesFailTheResult, Issues
<1>12. CASE ValidateOutput
    <2>1. /\ phase = "output" /\ phase' = "done"
          /\ UNCHANGED <<options, declaration, sources, validated, Complete, sourceFailed>>
        BY <1>12 DEF ValidateOutput, Complete, sourceFailed
    <2>2. CASE UNCHANGED <<resultVars, fault>>
        BY <2>1, <2>2 DEF resultVars, StageInv, StageTypes, Reading, StagesFailTheResult, Complete, Issues
    <2>3. CASE /\ options.validate /\ ~hasError(issues) /\ reportOk /\ provenance < MaxProvenanceEvents
               /\ \E report \in Reports : combine(report, 1, hasError(report))
               /\ delivered' = (~hasError(issues') /\ reportOk')
        <3>1. PICK report \in Reports : combine(report, 1, hasError(report))
            BY <2>3
        <3>2. report \in Seq(Codes) /\ hasError(report) \in BOOLEAN
            BY LoadConfigConstants DEF LoadConfigConstants, Codes, hasError
        <3>3. /\ issues' \in Issues /\ fault' \in BOOLEAN
              /\ hasError(issues) \/ hasError(report) => hasError(issues')
              /\ (fault => hasError(issues)) => (fault' => hasError(issues'))
              /\ provenance' = provenance + 1
            BY <3>1, <3>2, CombineKeepsErrors DEF StageInv
        <3>4. provenance' \in 0..MaxProvenanceEvents
            BY <2>3, <3>3, LoadConfigConstants DEF StageInv, StageTypes, LoadConfigConstants
        <3>5. validated = declaration.validators /\ Complete /\ (fault \/ sourceFailed => hasError(issues'))
            BY <2>1, <2>3, <3>3 DEF StageInv
        <3>6. delivered' \in BOOLEAN /\ (delivered' => ~hasError(issues') /\ reportOk')
            BY <2>3 DEF hasError
        <3>7. QED
            BY <2>1, <3>3, <3>4, <3>5, <3>6
               DEF StageInv, StageTypes, Reading, StagesFailTheResult, Complete, Issues
    <2>4. QED
        BY <1>12, <2>2, <2>3 DEF ValidateOutput
<1>13. QED
    BY <1>1, <1>2, <1>3, <1>4, <1>5, <1>6, <1>7, <1>8, <1>9, <1>10, <1>11, <1>12
       DEF Next, LoadNext, HandOver, vars, loadVars, Move, Abort

(* Under any budgets a good result has all its sources, no stage of it failed,   *)
(* and its declared validators have passed it.                                   *)
THEOREM StagesFailTheResultHolds == Spec => []StagesFailTheResult
<1>1. StageInv => StagesFailTheResult
    BY DEF StageInv
<1>2. QED
    BY <1>1, StageStarts, StageStep, PTL DEF Spec
=============================================================================
