----------------------------- MODULE NotebookNames -----------------------------
(***************************************************************************)
(* Tools/notebook_lens.py: how list_notebooks() and run_notebook() find a   *)
(* notebook by name, in the two calls it takes to run one, and the copies   *)
(* that runs leave among the notebooks.  A file is its folder and stem; the *)
(* stem of a copy is the original's with the time of the run.               *)
(***************************************************************************)
EXTENDS Integers, Sequences, FiniteSets

CONSTANTS
    Folders,   \* folders below the content root
    Titles,    \* stems of the person's own notebooks
    Within,    \* title -> the titles it is a part of
    MaxRuns    \* bound: runs, each in a second of its own

NotebookNamesAssumption ==
    /\ Within \in [Titles -> SUBSET Titles] /\ MaxRuns \in Nat
    /\ \A t \in Titles : t \in Within[t]

VARIABLES
    files,   \* notebooks on the server
    copies,  \* those of them that runs have saved
    found,   \* what the person was told would be run; none at first
    ran,     \* what was run when they agreed
    runs     \* runs so far

vars == <<files, copies, found, ran, runs>>

Root == "root"
None == [folder |-> "none"]
Own(title) == [title |-> title, copy |-> 0]
File(folder, stem) == [folder |-> folder, stem |-> stem]
OwnFiles == {File(f, Own(t)) : f \in Folders \cup {Root}, t \in Titles}

Init == files \in SUBSET OwnFiles /\ copies = {} /\ found = None /\ ran = None /\ runs = 0

-----------------------------------------------------------------------------
(* discover_notebooks_remote() lists every folder, the ones with copies too.  *)
(* resolve_notebook_remote(): a path, then a stem, then a part of a stem.  The *)
(* stem alone is the path of a file in the root.                              *)

Listed == files

ByPath(name) == {f \in Listed : f.stem = name.stem /\ f.folder = name.folder}
ByStem(name) == {f \in Listed : f.stem = name.stem /\ name.folder = Root}
ByPart(name) == {f \in Listed : /\ name.folder = Root
                                /\ f.stem.title \in Within[name.stem.title]}

Resolved(name) ==
    LET matches == IF ByPath(name) # {} THEN ByPath(name)
                   ELSE IF ByStem(name) # {} THEN ByStem(name) ELSE ByPart(name)
    IN IF Cardinality(matches) = 1 THEN CHOOSE f \in matches : TRUE ELSE None

Names == {File(f, Own(t)) : f \in Folders \cup {Root}, t \in Titles}

\* run_notebook() without confirmed: it says what it found, and how to call it again.
LookUp(name) ==
    /\ Resolved(name) # None
    /\ found' = Resolved(name) /\ ran' = None
    /\ UNCHANGED <<files, copies, runs>>

\* A plausible bug: a copy has no time in its name.
SameStem(file) == Own(file.stem.title)
CopyStem(file) == [title |-> file.stem.title, copy |-> runs + 1]

\* The second call, with the name of the first answer; the copy, if it can be saved,
\* goes to the folder for executed ones.  Copies are not run again here.
Confirm ==
    /\ found # None /\ found.stem.copy = 0 /\ runs < MaxRuns
    /\ LET file == Resolved(File(Root, found.stem))
       IN /\ file # None
          /\ ran' = file
          /\ \/ LET copy == File("executed", CopyStem(file))
                IN files' = files \cup {copy} /\ copies' = copies \cup {copy}
             \/ UNCHANGED <<files, copies>>
    /\ runs' = runs + 1
    /\ UNCHANGED found

\* The person adds or removes notebooks in between.
Edit ==
    /\ \E f \in OwnFiles :
          files' \in {files \cup {f}, files \ {f}} /\ copies' = copies \ {f}
    /\ ran' = None
    /\ UNCHANGED <<found, runs>>

Next == (\E name \in Names : LookUp(name)) \/ Confirm \/ Edit
Spec == Init /\ [][Next]_vars

-----------------------------------------------------------------------------
(* Properties *)

TypeOK ==
    /\ \A f \in files : f.stem.title \in Titles /\ f.stem.copy \in 0..MaxRuns
    /\ runs \in 0..MaxRuns /\ copies \subseteq files

\* resolve_notebook_remote(): the copies that runs leave beside the notebooks never
\* change what the whole name of a notebook that is there finds, nor a path.
CopiesStayApart ==
    \A name \in Names :
        LET own == {f \in files \ copies : f.stem = name.stem}
        IN /\ name \in own => Resolved(name) = name
           /\ Cardinality(own) = 1 /\ name.folder = Root => Resolved(name) \in own

\* run_notebook() docstring, notebook_lens.py:1840: "to look up the notebook, tell the
\* user what you're about to run": what runs is what the person was told.
RunsWhatWasTold == ran # None => ran = found
===============================================================================
