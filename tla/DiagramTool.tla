------------------------------ MODULE DiagramTool ------------------------------
(***************************************************************************)
(* Tools/diagram_design.py: calls of diagram_guide(), diagram_reference()   *)
(* and render_diagram() over the skill files they read, from a local        *)
(* checkout or from GitHub through a cache that the process keeps, and over *)
(* the files they save.  An action is what a call does between two awaits.  *)
(* A type is its slug: how it ends and what the aliases make of it are      *)
(* constants.  A document is what the model wrote; Good tells whether the   *)
(* check would pass it.                                                     *)
(***************************************************************************)
EXTENDS Integers, FiniteSets

CONSTANTS
    Types,     \* slugs the table of SKILL.md may list
    Asked,     \* what a caller may ask for: slugs and other names
    Stripped,  \* asked -> without a last "-chart", "-map", ...
    Aliases,   \* some of those -> the slug that is meant
    Near,      \* those without an alias -> the slugs that are spelled like it
    Documents, Good, \* documents, and those that pass the check
    Titles, Callers,
    Tasks,     \* caller -> which of "guide", "reference" and "render" it calls
    MaxSecond  \* bound: the clock

DiagramToolAssumption ==
    /\ Types \subseteq Asked /\ Good \subseteq Documents /\ MaxSecond \in Nat
    /\ \A a \in Asked : Stripped[a] \in Asked
    /\ Tasks \in [Callers -> SUBSET {"guide", "reference", "render"}]

VARIABLES
    second,
    checkout, \* the files in the local checkout; none without SKILL.md
    github,   \* the files at the pinned ref
    fetched,    \* file -> whether GitHub had it when it was asked for
    disk,     \* saved diagrams: path -> the document; history: when, and whether twice
    asks     \* caller -> where it is and its locals

vars == <<second, checkout, github, fetched, disk, asks>>

Skill == <<"skill", 0>>
Style == <<"style", 0>>
Rules(type) == <<"rules", type>>
Example(type) == <<"example", type>>
Template == <<"template", 0>>
Files == {Skill, Style, Template} \cup {Rules(t) : t \in Types} \cup {Example(t) : t \in Types}
Whole(listed) == {Skill, Style, Template} \cup {Rules(t) : t \in listed}

Idle == [at |-> "idle"]

\* The upstream project may lack SKILL.md at that ref, or an example.
Init ==
    /\ second = 0
    /\ checkout = {}
    /\ github \in {{}, Whole(Types), Files}
    /\ fetched = [f \in {} |-> FALSE]
    /\ disk = [p \in {} |-> [doc |-> Template]]
    /\ asks = [c \in Callers |-> Idle]

At(c, place) == asks[c].at = place
Local == checkout # {}

-----------------------------------------------------------------------------
(* _read() *)

Read(f) == IF Local THEN f \in checkout ELSE fetched[f]
Known(f) == Local \/ f \in DOMAIN fetched

\* What is not known is asked for: an answer, or 404, is kept; anything else raises.
Fetch(c) ==
    /\ asks[c].at \in {"guide", "table", "rules", "example", "template"}
    /\ \E f \in asks[c].wants :
          /\ ~Known(f)
          /\ \/ fetched' = [g \in DOMAIN fetched \cup {f} |->
                             IF g = f THEN f \in github ELSE fetched[g]] /\ UNCHANGED asks
             \/ asks' = [asks EXCEPT ![c] = [at |-> "over", said |-> "unavailable"]]
                /\ UNCHANGED fetched
    /\ UNCHANGED <<second, checkout, github, disk>>

Has(c, place) == At(c, place) /\ \A f \in asks[c].wants : Known(f)
Answer(c, said) == asks' = [asks EXCEPT ![c] = [at |-> "over", said |-> said]]
Sources == <<second, checkout, github, fetched, disk>>

\* diagram_guide()
Guide(c) ==
    /\ At(c, "idle") /\ "guide" \in Tasks[c]
    /\ asks' = [asks EXCEPT ![c] = [at |-> "guide", wants |-> {Skill, Style}]]
    /\ UNCHANGED Sources
Guided(c) ==
    /\ Has(c, "guide")
    /\ Answer(c, IF Read(Skill) THEN "guide" ELSE "unavailable")
    /\ UNCHANGED Sources

-----------------------------------------------------------------------------
(* _resolve() and diagram_reference() *)

Listed == IF Read(Skill) THEN Types ELSE {}
\* A plausible bug: the aliases are looked up with the ending on.
KeepEnding(asked) == IF asked \in DOMAIN Aliases THEN Aliases[asked] ELSE Stripped[asked]
Key(asked) == LET key == Stripped[asked] IN IF key \in DOMAIN Aliases THEN Aliases[key] ELSE key
Resolved(asked) == IF Key(asked) \in Listed THEN {Key(asked)} ELSE Near[Key(asked)] \cap Listed

Reference(c, asked) ==
    /\ At(c, "idle") /\ "reference" \in Tasks[c]
    /\ asks' = [asks EXCEPT ![c] = [at |-> "table", asked |-> asked, wants |-> {Skill}]]
    /\ UNCHANGED Sources

Want(c, place, type, files) ==
    asks' = [asks EXCEPT ![c] = [at |-> place, asked |-> asks[c].asked, type |-> type,
                                   wants |-> files]]
TypeFound(c) ==
    /\ Has(c, "table")
    /\ \/ \E type \in Resolved(asks[c].asked) : Want(c, "rules", type, {Rules(type)})
       \/ /\ Resolved(asks[c].asked) = {}
          /\ asks' = [asks EXCEPT ![c] =
                 [at |-> "over", said |-> IF Read(Skill) THEN "unknown" ELSE "unavailable",
                  asked |-> @.asked]]
    /\ UNCHANGED Sources

Referred(c, example) ==
    asks' = [asks EXCEPT ![c] = [at |-> "over", said |-> "reference", type |-> @.type,
                                   asked |-> @.asked, example |-> example]]
\* Rules that are missing are empty; without an example there is the template.
RulesRead(c) ==
    /\ Has(c, "rules")
    /\ \/ Want(c, "example", asks[c].type, {Example(asks[c].type)})
       \/ Referred(c, {})
    /\ UNCHANGED Sources
ExampleRead(c) ==
    /\ Has(c, "example")
    /\ IF Read(Example(asks[c].type)) THEN Referred(c, asks[c].wants)
       ELSE Want(c, "template", asks[c].type, {Template})
    /\ UNCHANGED Sources
TemplateRead(c) == Has(c, "template") /\ Referred(c, asks[c].wants) /\ UNCHANGED Sources

-----------------------------------------------------------------------------
(* render_diagram() *)

\* A plausible bug: no time in the name.
SameName(title) == <<title, 0>>
PathFor(title) == <<title, second>>

\* Without a picture there is a panel that says so; the file is written at once.
Render(c, doc, title) ==
    /\ At(c, "idle") /\ "render" \in Tasks[c]
    /\ disk' = [p \in DOMAIN disk \cup {PathFor(title)} |->
           IF p # PathFor(title) THEN disk[p]
           ELSE [doc |-> doc, second |-> second,
                 twice |-> p \in DOMAIN disk /\ disk[p].second = second]]
    /\ asks' = [asks EXCEPT ![c] =
           [at |-> IF Local THEN "checking" ELSE "over", said |-> "rendered", doc |-> doc,
            title |-> title, path |-> PathFor(title), saved |-> second, check |-> "skipped"]]
    /\ UNCHANGED <<second, checkout, github, fetched>>
RenderFault(c) ==
    At(c, "idle") /\ "render" \in Tasks[c] /\ Answer(c, "fault") /\ UNCHANGED Sources

\* The check reads the file while other calls run; it may not run, or not end in time.
Check(c) ==
    /\ At(c, "checking")
    /\ \E check \in {"failed", IF disk[asks[c].path].doc \in Good THEN "passed" ELSE "failed"} :
          asks' = [asks EXCEPT ![c].at = "over", ![c].check = check]
    /\ UNCHANGED Sources

Done(c) == At(c, "over") /\ asks' = [asks EXCEPT ![c] = Idle] /\ UNCHANGED Sources

-----------------------------------------------------------------------------
\* The checkout is cloned and pulled, upstream goes on, time passes.
Clone == checkout' \in {Whole(Types), Files} \ {checkout}
         /\ UNCHANGED <<second, github, fetched, disk, asks>>
Upstream == github' = Files /\ github' # github
            /\ UNCHANGED <<second, checkout, fetched, disk, asks>>
Tick == second < MaxSecond /\ second' = second + 1
        /\ UNCHANGED <<checkout, github, fetched, disk, asks>>

Next ==
    \/ Clone \/ Upstream \/ Tick
    \/ \E c \in Callers :
          \/ Fetch(c) \/ Guide(c) \/ Guided(c) \/ TypeFound(c) \/ RulesRead(c) \/ ExampleRead(c)
          \/ TemplateRead(c) \/ RenderFault(c) \/ Check(c) \/ Done(c)
          \/ \E asked \in Asked : Reference(c, asked)
          \/ \E doc \in Documents, title \in Titles : Render(c, doc, title)

Spec == Init /\ [][Next]_vars

-----------------------------------------------------------------------------
(* Properties *)

TypeOK ==
    /\ second \in 0..MaxSecond /\ DOMAIN fetched \subseteq Files
    /\ \A p \in DOMAIN disk : disk[p].doc \in Documents

\* A slug that has no ending to lose, or one that an alias gives back; another slug is left
\* to what is spelled like the rest of it (diagram_design.py:627-635).
KeepsItsName(type) ==
    IF Stripped[type] \in DOMAIN Aliases THEN Aliases[Stripped[type]] = type
    ELSE Stripped[type] = type

\* diagram_guide(), diagram_reference(): a slug of the table that keeps its name finds its
\* own type, wherever the table came from, and what is handed out as an example is of no
\* other type than the rules.
ListedIsFound ==
    \A c \in Callers : At(c, "over") /\ asks[c].said \in {"unknown", "reference"} =>
        /\ asks[c].asked \in Types /\ KeepsItsName(asks[c].asked) =>
              asks[c].said # "unknown" /\ asks[c].type = asks[c].asked
        /\ asks[c].said = "reference" =>
              asks[c].example \subseteq {Template, Example(asks[c].type)}

\* render_diagram(): what a call says it saved is what the model wrote, and what passed
\* is good, however many renders, checks and changes of the checkout come between; but
\* for another render under the same name in the same second.
SavedStays ==
    \A c \in Callers : At(c, "over") /\ asks[c].said = "rendered" =>
        LET file == disk[asks[c].path]
        IN \/ file.doc = asks[c].doc /\ (asks[c].check = "passed" => asks[c].doc \in Good)
           \/ file.twice /\ file.second = asks[c].saved
===============================================================================
