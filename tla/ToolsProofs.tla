---------------------------- MODULE ToolsProofs ----------------------------
(***************************************************************************)
(* Proofs about the runs of notebooks, for any number of cells and of      *)
(* messages, and about the other parts of the tools.                       *)
(***************************************************************************)
EXTENDS Tools, SelectionProofs, FiniteSetTheorems, SequenceTheorems, TLAPS

Kinds == {"output", "clear", "clearLater", "error", "idle", "reply"}
Msgs == [of : Numbers, kind : Kinds, n : 0..MaxMessages]

-----------------------------------------------------------------------------
(* The messages on the wire that are of the current cell *)

\* What the call will make of one message, if it is of cell c.
After(outputs, m, c) ==
    IF m.kind # "reply" /\ m.of = c THEN Effect(outputs, m) ELSE outputs

\* s is what the messages of w make of first, one after the other.
Unfolds(s, first, w, c) ==
    /\ s \in [0..Len(w) -> Outputs]
    /\ s[0] = first
    /\ \A k \in 1..Len(w) : s[k] = After(s[k - 1], w[k], c)

IdleAt(w, j, c) == w[j].of = c /\ w[j].kind = "idle"
ErrorIn(w, c) == \E k \in 1..Len(w) : w[k].of = c /\ w[k].kind = "error"

\* The messages of w bring the outputs a cell shows, first, to those it has
\* published, pub: all of them until it is idle, and those up to idle after that;
\* behind idle only threads print.
Brings(w, c, first, pub, idle) ==
    /\ \A k \in 1..Len(w) : w[k].of <= c
    /\ c \in idle => \E j \in 1..Len(w) : IdleAt(w, j, c)
    /\ \A j \in 1..Len(w) : IdleAt(w, j, c) =>
          c \in idle /\ \A k \in (j + 1)..Len(w) : w[k].kind = "output"
    /\ \E s : /\ Unfolds(s, first, w, c)
              /\ c \notin idle => pub = s[Len(w)]
              /\ \A j \in 1..Len(w) : IdleAt(w, j, c) => pub = s[j]

-----------------------------------------------------------------------------
(* The invariant *)

Places == {"looking", "loading", "starting", "connecting", "running", "draining",
           "deleting", "saving", "over"}
CallType ==
    [at : Places, cell : 0..Cells, nb : [Numbers -> Outputs], ok : BOOLEAN, failed : BOOLEAN]
KernelType ==
    [at : {"none", "asked", "alive", "deleted"}, cell : 0..Cells, sent : 0..MaxMessages,
     late : 0..MaxLate]
ResultsType ==
    [recorded : {"none", "ok", "failed", "cancelled"}, panel : BOOLEAN, saved : BOOLEAN,
     copy : [Numbers -> Outputs]]
USE DEF KernelType, ResultsType

RunTypes ==
    /\ call \in CallType
    /\ kernel \in KernelType
    /\ wire \in Seq(Msgs)
    /\ results \in ResultsType
    /\ published \in [Numbers -> Outputs]
    /\ ended \in [idle : SUBSET Numbers, failed : SUBSET Numbers]
    /\ lost \in BOOLEAN

\* The kernel at each place of the call: nobody forgets one that can be deleted.
KernelKnown ==
    /\ call.at \in {"looking", "loading"} => kernel.at = "none"
    /\ call.at \in {"saving", "over"} => kernel.at \in {"none", "deleted"} \/ lost

\* Up to the first cell nothing has run; no cell runs or has run that was not sent.
NothingEarly ==
    /\ call.at \in {"looking", "loading", "starting", "connecting"} =>
          call.cell = 0 /\ wire = <<>> /\ ended.idle = {} /\ ended.failed = {}
    /\ kernel.cell \in {0, call.cell}
    /\ \A i \in Numbers : i > call.cell => published[i] = <<>>

\* Between two cells: those sent have ended, none raised, and what is still on its
\* way is theirs.
BetweenCells ==
    At("running") =>
        /\ kernel.cell = 0 /\ ended.idle = 1..call.cell /\ ended.failed = {}
        /\ \A i \in 1..call.cell : call.nb[i] = published[i]
        /\ \A k \in 1..Len(wire) : wire[k].of <= call.cell

\* In a cell: those before it have ended and none raised; what it published is on
\* its way, and so is its error.
InACell ==
    At("draining") =>
        /\ call.cell \in Numbers
        /\ ended.idle \cup {call.cell} = 1..call.cell /\ ended.failed \subseteq {call.cell}
        /\ call.cell \in ended.idle <=> kernel.cell = 0
        /\ Brings(wire, call.cell, call.nb[call.cell], published[call.cell], ended.idle)
        /\ call.cell \in ended.failed => call.failed \/ ErrorIn(wire, call.cell)

AllRan == call.nb = published /\ ended.idle = Numbers /\ ended.failed = {}

\* What is recorded, and what will be.
Recorded ==
    /\ call.at \notin {"deleting", "saving", "over"} => results.recorded = "none" /\ call.ok
    /\ At("deleting") => results.recorded \in {"none", "cancelled"}
    /\ At("deleting") /\ results.recorded = "none" /\ call.ok => AllRan
    /\ results.recorded = "ok" => AllRan

IInv ==
    /\ NotebookRunAssumption
    /\ RunTypes /\ KernelKnown /\ NothingEarly /\ BetweenCells /\ InACell /\ Recorded
    /\ CellsShowTheirOutputs

-----------------------------------------------------------------------------
(* Lemmas about the wire *)

LEMMA Numbered ==
    ASSUME NotebookRunAssumption
    PROVE  /\ Cells \in Nat /\ MaxMessages \in Nat /\ MaxLate \in Nat
           /\ Numbers \subseteq Nat /\ <<>> \in Outputs
           /\ \A o \in Outputs : o \in Seq([of : 0..Cells, n : 0..MaxMessages])
BY DEF NotebookRunAssumption, Numbers, Outputs

\* A message leaves outputs outputs; those of one cell stay so, when it is its own.
LEMMA EffectIsOutputs ==
    ASSUME NotebookRunAssumption, NEW o \in Outputs, NEW m \in Msgs
    PROVE  /\ Effect(o, m) \in Outputs
           /\ m.kind \in {"idle", "clearLater", "reply"} => Effect(o, m) = o
           /\ (\A k \in DOMAIN o : o[k].of = m.of) =>
                 \A k \in DOMAIN Effect(o, m) : Effect(o, m)[k].of = m.of
<1> DEFINE E == [of : 0..Cells, n : 0..MaxMessages]
           e == [of |-> m.of, n |-> m.n]
<1>1. m.of \in Numbers /\ m.kind \in Kinds /\ m.n \in 0..MaxMessages
  BY DEF Msgs
<1>2. e \in E /\ e.of = m.of
  BY <1>1 DEF Numbers, NotebookRunAssumption
<1>3. Outputs = Seq(E)
  BY DEF Outputs
<1> HIDE DEF E, e
<1>4. /\ Append(o, e) \in Seq(E) /\ Len(o) \in Nat /\ Len(Append(o, e)) = Len(o) + 1
      /\ \A k \in 1..Len(o) : Append(o, e)[k] = o[k]
      /\ Append(o, e)[Len(o) + 1] = e
      /\ DOMAIN o = 1..Len(o) /\ DOMAIN Append(o, e) = 1..Len(Append(o, e))
  BY <1>2, <1>3, AppendProperties, LenProperties
<1>5. CASE m.kind \in {"output", "error"}
  <2>1. Effect(o, m) = Append(o, e)
    BY <1>5 DEF Effect, e
  <2>2. \A k \in DOMAIN Append(o, e) : k \in DOMAIN o \/ k = Len(o) + 1
    BY <1>4
  <2> QED
    BY <1>2, <1>3, <1>4, <1>5, <2>1, <2>2
<1>6. CASE m.kind = "clear"
  <2>1. Effect(o, m) = <<>>
    BY <1>6 DEF Effect
  <2> QED
    BY <1>6, <2>1, Numbered
<1>7. CASE m.kind \notin {"output", "error", "clear"}
  <2>1. Effect(o, m) = o
    BY <1>7 DEF Effect
  <2> QED
    BY <2>1
<1> QED
  BY <1>5, <1>6, <1>7

LEMMA AfterIsOutputs ==
    ASSUME NotebookRunAssumption, NEW o \in Outputs, NEW m \in Msgs, NEW c
    PROVE  After(o, m, c) \in Outputs
BY EffectIsOutputs DEF After

\* The facts about a message put at the end, and about the first one taken away.
LEMMA OneMoreMessage ==
    ASSUME NEW w \in Seq(Msgs), NEW m \in Msgs
    PROVE  /\ Append(w, m) \in Seq(Msgs) /\ Len(w) \in Nat /\ Len(Append(w, m)) = Len(w) + 1
           /\ \A k \in 1..Len(w) : Append(w, m)[k] = w[k]
           /\ Append(w, m)[Len(w) + 1] = m
           /\ \A k \in 1..Len(Append(w, m)) : k \in 1..Len(w) \/ k = Len(w) + 1
BY AppendProperties, LenProperties

LEMMA OneMessageLess ==
    ASSUME NEW w \in Seq(Msgs), w # <<>>
    PROVE  /\ Tail(w) \in Seq(Msgs) /\ Len(w) \in Nat \ {0} /\ Len(Tail(w)) = Len(w) - 1
           /\ \A k \in 1..Len(Tail(w)) : Tail(w)[k] = w[k + 1] /\ k + 1 \in 1..Len(w)
           /\ Head(w) = w[1] /\ Head(w) \in Msgs /\ 1 \in 1..Len(w)
OBVIOUS

LEMMA UnfoldsOn ==
    ASSUME NotebookRunAssumption, NEW w \in Seq(Msgs), NEW m \in Msgs, NEW c, NEW first, NEW s,
           Unfolds(s, first, w, c)
    PROVE  \E u : /\ Unfolds(u, first, Append(w, m), c)
                  /\ \A k \in 0..Len(w) : u[k] = s[k]
                  /\ u[Len(w) + 1] = After(s[Len(w)], m, c)
<1> DEFINE L == Len(w)
           end == After(s[L], m, c)
           rest == Append(w, m)
           u == [k \in 0..(L + 1) |-> IF k = L + 1 THEN end ELSE s[k]]
<1>1. /\ L \in Nat /\ Len(rest) = L + 1 /\ rest[L + 1] = m /\ \A k \in 1..L : rest[k] = w[k]
  BY OneMoreMessage
<1>2. end \in Outputs /\ s \in [0..L -> Outputs] /\ s[0] = first
  BY <1>1, AfterIsOutputs DEF Unfolds
<1>3. \A k \in 1..L : s[k] = After(s[k - 1], w[k], c)
  BY DEF Unfolds
<1> HIDE DEF L, end, rest
<1>4. /\ u \in [0..Len(rest) -> Outputs] /\ u[0] = first /\ u[L + 1] = end
      /\ \A k \in 0..L : u[k] = s[k]
  BY <1>1, <1>2
<1> HIDE DEF u
<1>5. \A k \in 1..Len(rest) : u[k] = After(u[k - 1], rest[k], c)
  <2>1. ASSUME NEW k \in 1..L
        PROVE  u[k] = After(u[k - 1], rest[k], c)
    <3>1. k - 1 \in 0..L /\ k \in 0..L
      BY <1>1
    <3> QED
      BY <1>1, <1>3, <1>4, <3>1
  <2>2. u[L + 1] = After(u[L], rest[L + 1], c)
    BY <1>1, <1>4 DEF end
  <2>3. (L + 1) - 1 = L /\ \A k \in 1..Len(rest) : k \in 1..L \/ k = L + 1
    BY <1>1
  <2> QED
    BY <2>1, <2>2, <2>3
<1>6. Unfolds(u, first, rest, c)
  BY <1>4, <1>5 DEF Unfolds
<1> QED
  BY <1>4, <1>6 DEF L, end, rest

LEMMA UnfoldsFrom ==
    ASSUME NEW w \in Seq(Msgs), w # <<>>, NEW c, NEW first, NEW s, Unfolds(s, first, w, c)
    PROVE  \E u : /\ Unfolds(u, After(first, Head(w), c), Tail(w), c)
                  /\ \A k \in 0..Len(Tail(w)) : u[k] = s[k + 1]
<1> DEFINE L == Len(w) - 1
           rest == Tail(w)
           u == [k \in 0..L |-> s[k + 1]]
<1>1. /\ L \in Nat /\ Len(w) = L + 1 /\ Len(rest) = L
      /\ \A k \in 1..L : rest[k] = w[k + 1]
  BY OneMessageLess
<1>2. s \in [0..(L + 1) -> Outputs] /\ s[0] = first
  BY <1>1 DEF Unfolds
<1>3. \A k \in 1..(L + 1) : s[k] = After(s[k - 1], w[k], c)
  BY <1>1 DEF Unfolds
<1>4. s[1] = After(first, Head(w), c)
  <2>1. 1 \in 1..(L + 1) /\ 1 - 1 = 0
    BY <1>1
  <2> QED
    BY <1>2, <1>3, <2>1, OneMessageLess
<1> HIDE DEF L, rest
<1>5. u \in [0..Len(rest) -> Outputs] /\ u[0] = s[1] /\ \A k \in 0..L : u[k] = s[k + 1]
  BY <1>1, <1>2
<1> HIDE DEF u
<1>6. ASSUME NEW k \in 1..Len(rest)
      PROVE  u[k] = After(u[k - 1], rest[k], c)
  <2>1. /\ k \in 0..L /\ k - 1 \in 0..L /\ k + 1 \in 1..(L + 1) /\ (k + 1) - 1 = k
        /\ (k - 1) + 1 = k /\ k \in 1..L
    BY <1>1
  <2>2. s[k + 1] = After(s[k], w[k + 1], c)
    BY <1>3, <2>1
  <2>3. u[k] = s[k + 1] /\ u[k - 1] = s[k]
    BY <1>5, <2>1
  <2>4. rest[k] = w[k + 1]
    BY <1>1, <2>1
  <2> QED
    BY <2>2, <2>3, <2>4
<1>7. Unfolds(u, After(first, Head(w), c), rest, c)
  BY <1>4, <1>5, <1>6 DEF Unfolds
<1> QED
  BY <1>1, <1>5, <1>7 DEF rest

\* Before idle: a message of the cell, or a reply that says nothing.
LEMMA BringsMore ==
    ASSUME NotebookRunAssumption, NEW w \in Seq(Msgs), NEW m \in Msgs, NEW c, NEW first, NEW pub,
           NEW idle, Brings(w, c, first, pub, idle), c \notin idle,
           m.of <= c, m.kind # "idle"
    PROVE  Brings(Append(w, m), c, first, After(pub, m, c), idle)
<1> DEFINE rest == Append(w, m)
           L == Len(w)
<1>1. /\ L \in Nat /\ Len(rest) = L + 1 /\ rest[L + 1] = m /\ \A k \in 1..L : rest[k] = w[k]
      /\ \A k \in 1..Len(rest) : k \in 1..L \/ k = L + 1
  BY OneMoreMessage
<1>2. PICK s : Unfolds(s, first, w, c) /\ pub = s[L]
  BY DEF Brings
<1>3. PICK u : Unfolds(u, first, rest, c) /\ u[L + 1] = After(s[L], m, c)
  BY <1>2, UnfoldsOn
<1> HIDE DEF rest
<1>4. \A j \in 1..Len(rest) : ~IdleAt(rest, j, c)
  BY <1>1 DEF Brings, IdleAt
<1>5. \A k \in 1..Len(rest) : rest[k].of <= c
  BY <1>1 DEF Brings
<1>6. After(pub, m, c) = u[Len(rest)]
  BY <1>1, <1>2, <1>3
<1>7. Brings(rest, c, first, After(pub, m, c), idle)
  BY <1>3, <1>4, <1>5, <1>6 DEF Brings
<1> QED
  BY <1>7 DEF rest

\* Idle itself.
LEMMA BringsIdle ==
    ASSUME NotebookRunAssumption, NEW w \in Seq(Msgs), NEW m \in Msgs, NEW c, NEW first, NEW pub,
           NEW idle, Brings(w, c, first, pub, idle), c \notin idle,
           m.of = c, m.kind = "idle", c \in Nat, pub \in Outputs
    PROVE  Brings(Append(w, m), c, first, pub, idle \cup {c})
<1> DEFINE rest == Append(w, m)
           L == Len(w)
<1>1. /\ L \in Nat /\ Len(rest) = L + 1 /\ rest[L + 1] = m /\ \A k \in 1..L : rest[k] = w[k]
      /\ \A k \in 1..Len(rest) : k \in 1..L \/ k = L + 1
  BY OneMoreMessage
<1>2. PICK s : Unfolds(s, first, w, c) /\ pub = s[L]
  BY DEF Brings
<1>3. PICK u : Unfolds(u, first, rest, c) /\ u[L + 1] = After(s[L], m, c)
  BY <1>2, UnfoldsOn
<1>4. u[L + 1] = pub
  BY <1>2, <1>3, EffectIsOutputs DEF After
<1> HIDE DEF rest
<1>5. /\ IdleAt(rest, L + 1, c) /\ L + 1 \in 1..Len(rest)
      /\ \A j \in 1..Len(rest) : IdleAt(rest, j, c) => j = L + 1
  BY <1>1 DEF Brings, IdleAt
<1>6. \A k \in 1..Len(rest) : rest[k].of <= c
  BY <1>1 DEF Brings
<1>7. \A k \in (L + 2)..Len(rest) : rest[k].kind = "output"
  BY <1>1
<1>8. (L + 1) + 1 = L + 2
  BY <1>1
<1>9. Brings(rest, c, first, pub, idle \cup {c})
  BY <1>3, <1>4, <1>5, <1>6, <1>7, <1>8 DEF Brings
<1> QED
  BY <1>9 DEF rest

\* What a thread prints, of this cell only when it is idle.
LEMMA BringsLate ==
    ASSUME NotebookRunAssumption, NEW w \in Seq(Msgs), NEW m \in Msgs, NEW c, NEW first, NEW pub,
           NEW idle, Brings(w, c, first, pub, idle),
           m.of <= c, m.of = c => c \in idle, m.kind = "output"
    PROVE  Brings(Append(w, m), c, first, pub, idle)
<1> DEFINE rest == Append(w, m)
           L == Len(w)
<1>1. /\ L \in Nat /\ Len(rest) = L + 1 /\ rest[L + 1] = m /\ \A k \in 1..L : rest[k] = w[k]
      /\ \A k \in 1..Len(rest) : k \in 1..L \/ k = L + 1
  BY OneMoreMessage
<1>2. PICK s : /\ Unfolds(s, first, w, c)
               /\ c \notin idle => pub = s[L]
               /\ \A j \in 1..L : IdleAt(w, j, c) => pub = s[j]
  BY DEF Brings
<1>3. PICK u : /\ Unfolds(u, first, rest, c)
               /\ \A k \in 0..L : u[k] = s[k]
               /\ u[L + 1] = After(s[L], m, c)
  BY <1>2, UnfoldsOn
<1> HIDE DEF rest
<1>4. \A j \in 1..Len(rest) : IdleAt(rest, j, c) <=> j \in 1..L /\ IdleAt(w, j, c)
  BY <1>1 DEF IdleAt
<1>5. \A k \in 1..Len(rest) : rest[k].of <= c
  BY <1>1 DEF Brings
<1>6. c \in idle => \E j \in 1..Len(rest) : IdleAt(rest, j, c)
  BY <1>1, <1>4 DEF Brings
<1>7. ASSUME NEW j \in 1..Len(rest), IdleAt(rest, j, c)
      PROVE  /\ c \in idle /\ \A k \in (j + 1)..Len(rest) : rest[k].kind = "output"
             /\ pub = u[j]
  <2>1. j \in 1..L /\ IdleAt(w, j, c)
    BY <1>4, <1>7
  <2>2. c \in idle /\ \A k \in (j + 1)..L : w[k].kind = "output"
    BY <2>1 DEF Brings
  <2>3. \A k \in (j + 1)..Len(rest) : (k \in 1..L /\ k \in (j + 1)..L) \/ k = L + 1
    BY <1>1, <2>1
  <2>4. j \in 0..L
    BY <1>1, <2>1
  <2> QED
    BY <1>1, <1>2, <1>3, <2>1, <2>2, <2>3, <2>4
<1>8. c \notin idle => pub = u[Len(rest)]
  <2>1. ASSUME c \notin idle
        PROVE  u[L + 1] = s[L]
    BY <1>3, <2>1 DEF After
  <2> QED
    BY <1>1, <1>2, <2>1
<1>9. Brings(rest, c, first, pub, idle)
  BY <1>3, <1>5, <1>6, <1>7, <1>8 DEF Brings
<1> QED
  BY <1>9 DEF rest

\* The first message is read; if it is of the cell it is not idle.
LEMMA BringsTheRest ==
    ASSUME NotebookRunAssumption, NEW w \in Seq(Msgs), w # <<>>, NEW c, NEW first, NEW pub,
           NEW idle, Brings(w, c, first, pub, idle), ~IdleAt(w, 1, c)
    PROVE  Brings(Tail(w), c, After(first, Head(w), c), pub, idle)
<1> DEFINE rest == Tail(w)
           L == Len(w) - 1
<1>1. /\ L \in Nat /\ Len(w) = L + 1 /\ Len(rest) = L
      /\ \A k \in 1..L : rest[k] = w[k + 1] /\ k + 1 \in 1..Len(w)
  BY OneMessageLess
<1>2. PICK s : /\ Unfolds(s, first, w, c)
               /\ c \notin idle => pub = s[Len(w)]
               /\ \A j \in 1..Len(w) : IdleAt(w, j, c) => pub = s[j]
  BY DEF Brings
<1>3. PICK u : /\ Unfolds(u, After(first, Head(w), c), rest, c)
               /\ \A k \in 0..L : u[k] = s[k + 1]
  BY <1>1, <1>2, UnfoldsFrom
<1> HIDE DEF rest, L
<1>4. \A j \in 1..L : IdleAt(rest, j, c) <=> IdleAt(w, j + 1, c)
  BY <1>1 DEF IdleAt
<1>5. \A k \in 1..Len(rest) : rest[k].of <= c
  BY <1>1 DEF Brings
<1>6. c \in idle => \E j \in 1..Len(rest) : IdleAt(rest, j, c)
  <2> SUFFICES ASSUME c \in idle
               PROVE  \E j \in 1..Len(rest) : IdleAt(rest, j, c)
    OBVIOUS
  <2>1. PICK j \in 1..Len(w) : IdleAt(w, j, c)
    BY DEF Brings
  <2>2. j # 1
    BY <2>1
  <2>3. j - 1 \in 1..L /\ (j - 1) + 1 = j
    BY <1>1, <2>2
  <2> QED
    BY <1>1, <1>4, <2>1, <2>3
<1>7. ASSUME NEW j \in 1..Len(rest), IdleAt(rest, j, c)
      PROVE  /\ c \in idle /\ \A k \in (j + 1)..Len(rest) : rest[k].kind = "output"
             /\ pub = u[j]
  <2>1. j \in 0..L /\ j + 1 \in 1..Len(w) /\ IdleAt(w, j + 1, c)
    BY <1>1, <1>4, <1>7
  <2>2. c \in idle /\ \A k \in ((j + 1) + 1)..Len(w) : w[k].kind = "output"
    BY <2>1 DEF Brings
  <2>3. \A k \in (j + 1)..Len(rest) : k \in 1..L /\ k + 1 \in ((j + 1) + 1)..Len(w)
    BY <1>1, <2>1
  <2>4. \A k \in (j + 1)..Len(rest) : rest[k].kind = "output"
    BY <1>1, <2>2, <2>3
  <2>5. pub = u[j]
    BY <1>2, <1>3, <2>1
  <2> QED
    BY <2>2, <2>4, <2>5
<1>8. c \notin idle => pub = u[Len(rest)]
  BY <1>1, <1>2, <1>3
<1>9. Brings(rest, c, After(first, Head(w), c), pub, idle)
  BY <1>3, <1>5, <1>6, <1>7, <1>8 DEF Brings
<1> QED
  BY <1>9 DEF rest

\* At idle the cell shows what it published.
LEMMA IdleBringsNothing ==
    ASSUME NotebookRunAssumption, NEW w \in Seq(Msgs), w # <<>>, NEW c, NEW first \in Outputs,
           NEW pub, NEW idle, Brings(w, c, first, pub, idle), IdleAt(w, 1, c)
    PROVE  /\ pub = first /\ c \in idle
           /\ \A k \in 2..Len(w) : w[k].kind = "output"
<1>1. 1 \in 1..Len(w) /\ w[1] \in Msgs /\ 1 - 1 = 0 /\ 1 + 1 = 2
  BY OneMessageLess
<1>2. PICK s : Unfolds(s, first, w, c) /\ pub = s[1]
  BY <1>1 DEF Brings
<1>3. s[1] = After(first, w[1], c)
  BY <1>1, <1>2 DEF Unfolds
<1>4. After(first, w[1], c) = first
  BY <1>1, EffectIsOutputs DEF After, IdleAt
<1>5. c \in idle /\ \A k \in (1 + 1)..Len(w) : w[k].kind = "output"
  BY <1>1 DEF Brings
<1> QED
  BY <1>1, <1>2, <1>3, <1>4, <1>5

\* A cell is sent: whatever is still on the wire is of others.
LEMMA BringsNothing ==
    ASSUME NotebookRunAssumption, NEW w \in Seq(Msgs), NEW c \in Nat, NEW idle, c \notin idle,
           \A k \in 1..Len(w) : w[k].of < c
    PROVE  Brings(w, c, <<>>, <<>>, idle)
<1>1. Len(w) \in Nat /\ \A k \in 1..Len(w) : w[k] \in Msgs
  BY LenProperties, ElementOfSeq
<1>2. \A k \in 1..Len(w) : w[k].of <= c /\ w[k].of # c
  BY <1>1, Numbered, SMTT(60) DEF Msgs
<1> DEFINE s == [k \in 0..Len(w) |-> <<>>]
<1>3. \A k \in 0..Len(w) : s[k] = <<>>
  OBVIOUS
<1>4. s \in [0..Len(w) -> Outputs]
  BY Numbered
<1> HIDE DEF s
<1>5. ASSUME NEW k \in 1..Len(w)
      PROVE  s[k] = After(s[k - 1], w[k], c)
  <2>1. k \in 0..Len(w) /\ k - 1 \in 0..Len(w)
    BY <1>1
  <2> QED
    BY <1>2, <1>3, <2>1 DEF After
<1>6. 0 \in 0..Len(w) /\ Len(w) \in 0..Len(w)
  BY <1>1
<1>7. Unfolds(s, <<>>, w, c)
  BY <1>3, <1>4, <1>5, <1>6 DEF Unfolds
<1>8. \A j \in 1..Len(w) : ~IdleAt(w, j, c)
  BY <1>2 DEF IdleAt
<1> QED
  BY <1>2, <1>3, <1>6, <1>7, <1>8 DEF Brings

-----------------------------------------------------------------------------
(* The steps of the kernel *)

\* The cell that runs is the one the call waits for.
LEMMA RunsTheCell ==
    ASSUME IInv, KernelRuns
    PROVE  /\ At("draining") /\ kernel.cell = call.cell /\ call.cell \in Numbers
           /\ call.cell \notin ended.idle /\ call.cell # 0
BY DEF IInv, KernelRuns, Connected, At, BetweenCells, InACell, NothingEarly

\* A message from the cell, of any kind but idle.
LEMMA CellPublishes ==
    ASSUME IInv, KernelRuns, NEW kind \in {"output", "clear", "clearLater", "error"},
           Publishes(kind), UNCHANGED call
    PROVE  /\ wire' \in Seq(Msgs) /\ published' \in [Numbers -> Outputs]
           /\ \A i \in Numbers \ {call.cell} : published'[i] = published[i]
           /\ Brings(wire', call.cell, call.nb[call.cell], published'[call.cell], ended.idle)
           /\ ErrorIn(wire, call.cell) \/ kind = "error" => ErrorIn(wire', call.cell)
<1> DEFINE c == call.cell
           m == Message(c, kind)
           pub == published[c]
<1>1. /\ At("draining") /\ kernel.cell = c /\ c \in Numbers /\ c \notin ended.idle
  BY RunsTheCell
<1>2. /\ wire' = Append(wire, m)
      /\ published' = [published EXCEPT ![c] = Effect(pub, m)]
  BY <1>1 DEF Publishes
<1>3. m \in Msgs /\ m.of = c /\ m.kind = kind /\ m.kind \notin {"idle", "reply"}
  BY <1>1 DEF Message, Msgs, Kinds, IInv, RunTypes
<1>4. wire \in Seq(Msgs) /\ pub \in Outputs /\ NotebookRunAssumption /\ c \in Nat
  BY <1>1, Numbered DEF IInv, RunTypes
<1>5. Brings(wire, c, call.nb[c], pub, ended.idle)
  BY <1>1 DEF IInv, InACell
<1> HIDE DEF m, pub
<1>6. Effect(pub, m) \in Outputs /\ After(pub, m, c) = Effect(pub, m)
  BY <1>3, <1>4, EffectIsOutputs DEF After
<1>7. /\ published' \in [Numbers -> Outputs] /\ published'[c] = Effect(pub, m)
      /\ \A i \in Numbers \ {c} : published'[i] = published[i]
  BY <1>1, <1>2, <1>6 DEF IInv, RunTypes
<1>8. m.of <= c
  BY <1>3, <1>4
<1>9. Brings(wire', c, call.nb[c], published'[c], ended.idle)
  <2> HIDE DEF c
  <2>1. Brings(Append(wire, m), c, call.nb[c], After(pub, m, c), ended.idle)
    BY <1>1, <1>3, <1>4, <1>5, <1>8, BringsMore
  <2> QED
    BY <1>2, <1>6, <1>7, <2>1
<1>10. /\ wire' \in Seq(Msgs)
       /\ ErrorIn(wire, c) \/ kind = "error" => ErrorIn(wire', c)
  <2>1. /\ wire' \in Seq(Msgs) /\ Len(wire) \in Nat /\ Len(wire') = Len(wire) + 1
        /\ \A k \in 1..Len(wire) : wire'[k] = wire[k]
        /\ wire'[Len(wire) + 1] = m
    BY <1>2, <1>3, <1>4, OneMoreMessage
  <2> QED
    BY <1>3, <2>1 DEF ErrorIn
<1> QED
  BY <1>7, <1>9, <1>10

\* A step of the kernel in a cell, after which what it has published is on its way.
LEMMA KernelStep ==
    ASSUME IInv, At("draining"), UNCHANGED <<call, results, lost>>,
           kernel' \in KernelType,
           kernel'.at = kernel.at, kernel'.cell \in {0, call.cell},
           wire' \in Seq(Msgs), published' \in [Numbers -> Outputs],
           \A i \in Numbers \ {call.cell} : published'[i] = published[i],
           ended' \in [idle : SUBSET Numbers, failed : SUBSET Numbers],
           ended'.idle \cup {call.cell} = 1..call.cell,
           ended'.failed \subseteq {call.cell},
           call.cell \in ended'.idle <=> kernel'.cell = 0,
           Brings(wire', call.cell, call.nb[call.cell], published'[call.cell], ended'.idle),
           call.cell \in ended'.failed => call.failed \/ ErrorIn(wire', call.cell)
    PROVE  IInv'
<1>1. RunTypes'
  BY DEF IInv, RunTypes
<1>2. KernelKnown' /\ BetweenCells' /\ Recorded'
  BY DEF IInv, KernelKnown, BetweenCells, Recorded, At, Connected
<1>3. call.cell \in Numbers /\ call.cell \in Nat /\ Numbers \subseteq Nat
  BY Numbered DEF IInv, InACell
<1>4. NothingEarly'
  BY <1>3 DEF IInv, NothingEarly, At
<1>5. InACell'
  BY <1>3 DEF InACell, At
<1>6. CellsShowTheirOutputs'
  <2>1. \A i \in 1..(call.cell - 1) : i \in Numbers \ {call.cell}
    BY <1>3 DEF Numbers, IInv, NotebookRunAssumption
  <2>2. results.recorded # "ok"
    BY DEF IInv, Recorded, At
  <2> QED
    BY <2>1, <2>2 DEF IInv, CellsShowTheirOutputs
<1> QED
  BY <1>1, <1>2, <1>4, <1>5, <1>6 DEF IInv

LEMMA PublishKeeps ==
    ASSUME IInv, NEW kind \in {"output", "clear", "clearLater"}, Publish(kind)
    PROVE  IInv'
<1>1. KernelRuns /\ Publishes(kind) /\ UNCHANGED <<call, results, lost, ended>>
  BY DEF Publish, KernelRuns
<1>2. /\ kernel' = [kernel EXCEPT !.sent = @ + 1] /\ kernel.sent + 1 \in 0..MaxMessages
  BY DEF Publish, IInv, RunTypes, NotebookRunAssumption
<1>3. /\ kernel' \in KernelType
      /\ kernel'.at = kernel.at /\ kernel'.cell = kernel.cell
  BY <1>2 DEF IInv, RunTypes
<1>4. /\ At("draining") /\ kernel.cell = call.cell /\ call.cell # 0
  BY <1>1, RunsTheCell
<1>5. /\ wire' \in Seq(Msgs) /\ published' \in [Numbers -> Outputs]
      /\ \A i \in Numbers \ {call.cell} : published'[i] = published[i]
      /\ Brings(wire', call.cell, call.nb[call.cell], published'[call.cell], ended.idle)
      /\ ErrorIn(wire, call.cell) => ErrorIn(wire', call.cell)
  BY <1>1, CellPublishes
<1>6. /\ ended \in [idle : SUBSET Numbers, failed : SUBSET Numbers]
      /\ ended.idle \cup {call.cell} = 1..call.cell /\ ended.failed \subseteq {call.cell}
      /\ call.cell \in ended.idle <=> kernel.cell = 0
      /\ call.cell \in ended.failed => call.failed \/ ErrorIn(wire, call.cell)
  BY <1>4 DEF IInv, RunTypes, InACell
<1> QED
  BY <1>1, <1>3, <1>4, <1>5, <1>6, KernelStep

LEMMA RaiseKeeps ==
    ASSUME IInv, Raise
    PROVE  IInv'
<1>1. KernelRuns /\ Publishes("error") /\ UNCHANGED <<call, results, lost>>
  BY DEF Raise, KernelRuns
<1>2. /\ kernel' = [kernel EXCEPT !.sent = MaxMessages] /\ MaxMessages \in 0..MaxMessages
      /\ ended' = [ended EXCEPT !.failed = @ \cup {kernel.cell}]
  BY DEF Raise, IInv, NotebookRunAssumption
<1>3. /\ kernel' \in KernelType
      /\ kernel'.at = kernel.at /\ kernel'.cell = kernel.cell
  BY <1>2 DEF IInv, RunTypes
<1>4. /\ At("draining") /\ kernel.cell = call.cell /\ call.cell \in Numbers /\ call.cell # 0
  BY <1>1, RunsTheCell
<1>5. /\ wire' \in Seq(Msgs) /\ published' \in [Numbers -> Outputs]
      /\ \A i \in Numbers \ {call.cell} : published'[i] = published[i]
      /\ Brings(wire', call.cell, call.nb[call.cell], published'[call.cell], ended.idle)
      /\ ErrorIn(wire', call.cell)
  BY <1>1, CellPublishes
<1>6. /\ ended' \in [idle : SUBSET Numbers, failed : SUBSET Numbers]
      /\ ended'.idle = ended.idle /\ ended'.failed = ended.failed \cup {call.cell}
  BY <1>2, <1>4 DEF IInv, RunTypes
<1>7. /\ ended.idle \cup {call.cell} = 1..call.cell /\ ended.failed \subseteq {call.cell}
      /\ call.cell \in ended.idle <=> kernel.cell = 0
  BY <1>4 DEF IInv, InACell
<1>8. /\ ended'.idle \cup {call.cell} = 1..call.cell /\ ended'.failed \subseteq {call.cell}
      /\ call.cell \in ended'.idle <=> kernel'.cell = 0
  BY <1>3, <1>6, <1>7
<1> QED
  BY <1>1, <1>3, <1>4, <1>5, <1>6, <1>8, KernelStep

LEMMA GoIdleKeeps ==
    ASSUME IInv, GoIdle
    PROVE  IInv'
<1> DEFINE c == call.cell
           idle == Message(c, "idle")
           reply == Message(c, "reply")
           first == call.nb[c]
           pub == published[c]
<1>1. /\ KernelRuns /\ UNCHANGED <<call, results, lost, published>>
      /\ At("draining") /\ kernel.cell = c /\ c \in Numbers /\ c # 0 /\ c \notin ended.idle
  BY RunsTheCell DEF GoIdle, KernelRuns
<1>2. /\ kernel' = [kernel EXCEPT !.cell = 0]
      /\ ended' = [ended EXCEPT !.idle = @ \cup {c}]
      /\ wire' \in {wire \o <<idle>>, wire \o <<reply>> \o <<idle>>}
  BY <1>1 DEF GoIdle
<1>3. /\ kernel' \in KernelType
      /\ kernel'.at = kernel.at /\ kernel'.cell = 0
  <2>1. 0 \in 0..Cells
    BY DEF IInv, NotebookRunAssumption
  <2> QED
    BY <1>2, <2>1 DEF IInv, RunTypes
<1>4. /\ ended' \in [idle : SUBSET Numbers, failed : SUBSET Numbers]
      /\ ended'.idle = ended.idle \cup {c} /\ ended'.failed = ended.failed
  BY <1>1, <1>2 DEF IInv, RunTypes
<1>5. /\ idle \in Msgs /\ idle.of = c /\ idle.kind = "idle"
      /\ reply \in Msgs /\ reply.of = c /\ reply.kind = "reply"
  BY <1>1 DEF Message, Msgs, Kinds, IInv, RunTypes
<1>6. wire \in Seq(Msgs) /\ pub \in Outputs /\ NotebookRunAssumption /\ c \in Nat /\ c <= c
  BY <1>1, Numbered DEF IInv, RunTypes
<1>7. Brings(wire, c, first, pub, ended.idle)
  BY <1>1 DEF IInv, InACell
<1> HIDE DEF c, idle, reply, first, pub
<1>8. \E w \in Seq(Msgs) :
         /\ wire' = Append(w, idle) /\ Brings(w, c, first, pub, ended.idle)
         /\ ErrorIn(wire, c) => ErrorIn(w, c)
  <2>1. CASE wire' = wire \o <<idle>>
    <3>1. wire' = Append(wire, idle)
      BY <1>5, <1>6, <2>1, AppendIsConcat
    <3> QED
      BY <1>6, <1>7, <3>1
  <2>2. CASE wire' = wire \o <<reply>> \o <<idle>>
    <3> DEFINE w == Append(wire, reply)
    <3>1. /\ w \in Seq(Msgs) /\ w = wire \o <<reply>> /\ Len(wire) \in Nat
          /\ Len(w) = Len(wire) + 1 /\ \A k \in 1..Len(wire) : w[k] = wire[k]
      BY <1>5, <1>6, AppendIsConcat, OneMoreMessage
    <3>2. Brings(w, c, first, After(pub, reply, c), ended.idle)
      BY <1>1, <1>5, <1>6, <1>7, BringsMore
    <3>3. After(pub, reply, c) = pub
      BY <1>5 DEF After
    <3> HIDE DEF w
    <3>4. wire' = Append(w, idle)
      BY <1>5, <2>2, <3>1, AppendIsConcat
    <3>5. ErrorIn(wire, c) => ErrorIn(w, c)
      BY <3>1 DEF ErrorIn
    <3> QED
      BY <3>1, <3>2, <3>3, <3>4, <3>5
  <2> QED
    BY <1>2, <2>1, <2>2
<1>9. PICK w \in Seq(Msgs) :
         /\ wire' = Append(w, idle) /\ Brings(w, c, first, pub, ended.idle)
         /\ ErrorIn(wire, c) => ErrorIn(w, c)
  BY <1>8
<1>10. Brings(wire', c, first, pub, ended'.idle)
  <2>1. c \notin ended.idle
    BY <1>1
  <2>2. Brings(Append(w, idle), c, first, pub, ended.idle \cup {c})
    BY <1>5, <1>6, <1>9, <2>1, BringsIdle
  <2> QED
    BY <1>4, <1>9, <2>2
<1>11. wire' \in Seq(Msgs) /\ (ErrorIn(wire, c) => ErrorIn(wire', c))
  <2>1. /\ wire' \in Seq(Msgs) /\ Len(w) \in Nat /\ Len(wire') = Len(w) + 1
        /\ \A k \in 1..Len(w) : wire'[k] = w[k]
    BY <1>5, <1>9, OneMoreMessage
  <2> QED
    BY <1>9, <2>1 DEF ErrorIn
<1>12. /\ ended.idle \cup {c} = 1..c /\ ended.failed \subseteq {c}
       /\ c \in ended.failed => call.failed \/ ErrorIn(wire, c)
  BY <1>1 DEF IInv, InACell, c
<1>13. /\ ended'.idle \cup {c} = 1..c /\ ended'.failed \subseteq {c}
       /\ c \in ended'.idle
       /\ c \in ended'.failed => call.failed \/ ErrorIn(wire', c)
  BY <1>4, <1>11, <1>12
<1>14. published' \in [Numbers -> Outputs] /\ \A i \in Numbers : published'[i] = published[i]
  BY <1>1 DEF IInv, RunTypes
<1> QED
  BY <1>1, <1>3, <1>4, <1>10, <1>11, <1>13, <1>14, KernelStep DEF c, first, pub

\* A thread prints into a cell that has ended, while another runs or none does.
LEMMA PublishLateKeeps ==
    ASSUME IInv, NEW i \in Numbers, PublishLate(i)
    PROVE  IInv'
<1> DEFINE c == call.cell
           m == Message(i, "output")
<1>1. /\ Connected /\ i \in ended.idle /\ wire' = Append(wire, m)
      /\ UNCHANGED <<call, results, published, ended, lost>>
      /\ kernel' = [kernel EXCEPT !.late = @ + 1] /\ kernel.late + 1 \in 0..MaxLate
  BY DEF PublishLate, IInv, RunTypes, NotebookRunAssumption
<1>2. /\ kernel' \in KernelType
      /\ kernel'.at = kernel.at /\ kernel'.cell = kernel.cell
  BY <1>1 DEF IInv, RunTypes
<1>3. m \in Msgs /\ m.of = i /\ m.kind = "output"
  BY DEF Message, Msgs, Kinds, IInv, RunTypes
<1>4. NotebookRunAssumption /\ wire \in Seq(Msgs) /\ c \in Nat /\ i \in Nat
  BY Numbered DEF IInv, RunTypes, CallType, NotebookRunAssumption
<1> HIDE DEF m
<1>5. /\ wire' \in Seq(Msgs) /\ Len(wire) \in Nat /\ Len(wire') = Len(wire) + 1
      /\ \A k \in 1..Len(wire) : wire'[k] = wire[k]
      /\ wire'[Len(wire) + 1] = m
      /\ \A k \in 1..Len(wire') : k \in 1..Len(wire) \/ k = Len(wire) + 1
  BY <1>1, <1>3, <1>4, OneMoreMessage
<1>6. CASE At("running")
  <2>1. i <= c /\ \A k \in 1..Len(wire) : wire[k].of <= c
    BY <1>1, <1>4, <1>6 DEF IInv, BetweenCells
  <2>2. BetweenCells'
    BY <1>1, <1>2, <1>3, <1>5, <1>6, <2>1 DEF IInv, BetweenCells, At
  <2> QED
    BY <1>1, <1>2, <1>5, <1>6, <2>2 DEF IInv, RunTypes, KernelKnown, NothingEarly, InACell,
       Recorded, AllRan, At, Connected, CellsShowTheirOutputs
<1>7. CASE At("draining")
  <2>1. /\ ended.idle \cup {c} = 1..c /\ ended.failed \subseteq {c}
        /\ c \in ended.idle <=> kernel.cell = 0
        /\ Brings(wire, c, call.nb[c], published[c], ended.idle)
        /\ c \in ended.failed => call.failed \/ ErrorIn(wire, c)
        /\ kernel.cell \in {0, c}
    BY <1>7 DEF IInv, InACell, NothingEarly
  <2>2. m.of <= c /\ (m.of = c => c \in ended.idle)
    BY <1>1, <1>3, <1>4, <2>1
  <2>3. Brings(wire', c, call.nb[c], published[c], ended.idle)
    <3> HIDE DEF c
    <3> QED
      BY <1>1, <1>3, <1>4, <2>1, <2>2, BringsLate
  <2>4. ErrorIn(wire, c) => ErrorIn(wire', c)
    BY <1>5 DEF ErrorIn
  <2>5. /\ published' \in [Numbers -> Outputs]
        /\ ended' \in [idle : SUBSET Numbers, failed : SUBSET Numbers]
    BY <1>1 DEF IInv, RunTypes
  <2> HIDE DEF c
  <2> QED
    BY <1>1, <1>2, <1>5, <1>7, <2>1, <2>3, <2>4, <2>5, KernelStep DEF c
<1> QED
  BY <1>1, <1>6, <1>7 DEF Connected, At

-----------------------------------------------------------------------------
(* The steps of the call *)

\* The call goes to another place, and may know by then that it failed.
LEMMA CallMoves ==
    ASSUME call \in CallType, NEW place \in Places, NEW ok \in BOOLEAN,
           call' = [call EXCEPT !.at = place, !.ok = ok]
    PROVE  /\ call' \in CallType /\ call'.at = place /\ call'.ok = ok
           /\ call'.cell = call.cell /\ call'.nb = call.nb /\ call'.failed = call.failed
BY DEF CallType

LEMMA CallMovesOnly ==
    ASSUME call \in CallType, NEW place \in Places, call' = [call EXCEPT !.at = place]
    PROVE  /\ call' \in CallType /\ call'.at = place /\ call'.ok = call.ok
           /\ call'.cell = call.cell /\ call'.nb = call.nb /\ call'.failed = call.failed
BY DEF CallType

\* The call leaves the notebook and what was published as they are, and is not in a
\* cell or between two.
LEMMA CallStep ==
    ASSUME IInv, call' \in CallType, call'.cell = call.cell, call'.nb = call.nb,
           UNCHANGED <<published, ended>>, wire' \in {wire, <<>>}, kernel'.cell \in {kernel.cell, 0},
           kernel' \in KernelType,
           results' \in ResultsType,
           lost' \in BOOLEAN, ~At("draining")', At("running")' => At("connecting"),
           call'.at \in {"looking", "loading", "starting", "connecting"} =>
              call.at \in {"looking", "loading", "starting", "connecting"},
           KernelKnown', Recorded'
    PROVE  IInv'
<1>1. RunTypes'
  <2>1. wire' \in Seq(Msgs)
    <3>1. wire \in Seq(Msgs)
      BY DEF IInv, RunTypes
    <3> QED
      BY <3>1, EmptySeq
  <2> QED
    BY <2>1 DEF IInv, RunTypes
<1>2. NothingEarly'
  BY DEF IInv, NothingEarly
<1>3. BetweenCells'
  <2> SUFFICES ASSUME At("running")'
               PROVE  BetweenCells'
    BY DEF BetweenCells
  <2>1. /\ call.cell = 0 /\ wire = <<>> /\ ended.idle = {} /\ ended.failed = {}
        /\ kernel.cell = 0
    BY DEF IInv, NothingEarly, At
  <2>2. 1..0 = {} /\ Len(<<>>) = 0
    OBVIOUS
  <2>3. wire' = <<>> /\ kernel'.cell = 0 /\ call'.cell = 0
    BY <2>1
  <2> QED
    BY <2>1, <2>2, <2>3 DEF BetweenCells
<1>4. InACell'
  BY DEF InACell, At
<1>5. CellsShowTheirOutputs'
  <2>1. results'.recorded = "ok" => call.nb = published
    BY DEF Recorded, AllRan
  <2> QED
    BY <2>1 DEF IInv, CellsShowTheirOutputs
<1> QED
  BY <1>1, <1>2, <1>3, <1>4, <1>5 DEF IInv

LEMMA ServerStartsKeeps ==
    ASSUME IInv, ServerStarts
    PROVE  IInv'
<1>1. /\ kernel' = [kernel EXCEPT !.at = "alive"] /\ kernel.at = "asked"
      /\ UNCHANGED <<call, wire, results, published, ended, lost>>
  BY DEF ServerStarts
<1>2. /\ kernel' \in KernelType
      /\ kernel'.at = "alive" /\ kernel'.cell = kernel.cell
  BY <1>1 DEF IInv, RunTypes
<1> QED
  BY <1>1, <1>2 DEF IInv, RunTypes, KernelKnown, NothingEarly, BetweenCells, InACell, Recorded,
     AllRan, At, Connected, CellsShowTheirOutputs

\* Up to the first cell, and away from a connection that is lost or takes too long.
LEMMA SetUpKeeps ==
    ASSUME IInv, Look \/ Load \/ Started \/ Connect
    PROVE  IInv'
<1> USE DEF Environment, At
<1>1. /\ UNCHANGED <<wire, published, ended, results, lost>>
      /\ call.at \in {"looking", "loading", "starting", "connecting"}
  BY DEF Look, Load, Started, Connect
<1>2. PICK place \in Places : call' = [call EXCEPT !.at = place]
  BY DEF Look, Load, Started, Connect, Places
<1>3. /\ call' \in CallType /\ call'.at = place /\ call'.ok = call.ok
      /\ call'.cell = call.cell /\ call'.nb = call.nb
  <2>1. call \in CallType
    BY DEF IInv, RunTypes
  <2> QED
    BY <1>2, <2>1, CallMovesOnly
<1>4. /\ kernel' \in KernelType
      /\ kernel'.cell = kernel.cell
  BY DEF Look, Load, Started, Connect, IInv, RunTypes
<1>5. /\ call.at = "looking" => call'.at \in {"loading", "over"} /\ kernel' = kernel
      /\ call.at = "loading" => \/ call'.at = "over" /\ kernel' = kernel
                                \/ call'.at = "starting"
      /\ call.at = "starting" => call'.at = "connecting"
      /\ call.at = "connecting" => call'.at = "running"
  BY <1>3 DEF Look, Load, Started, Connect, IInv, RunTypes, CallType
<1>6. KernelKnown'
  BY <1>1, <1>5 DEF IInv, KernelKnown
<1>7. call.ok
  BY <1>1 DEF IInv, Recorded, Connected
<1>8. Recorded'
  BY <1>1, <1>3, <1>5, <1>7 DEF IInv, Recorded, Connected
<1> QED
  BY <1>1, <1>3, <1>4, <1>5, <1>6, <1>8, CallStep DEF IInv, RunTypes

LEMMA StartFailsKeeps ==
    ASSUME IInv, StartFails
    PROVE  IInv'
<1>1. /\ call.at = "starting" /\ call' = [call EXCEPT !.at = "saving", !.ok = FALSE]
      /\ results' = [results EXCEPT !.recorded = "failed"]
      /\ UNCHANGED <<wire, published, ended>>
      /\ \/ lost' = TRUE /\ kernel' = kernel
         \/ kernel' = [kernel EXCEPT !.at = "none"] /\ lost' = lost
  BY DEF StartFails, Environment, At
<1>2. /\ call' \in CallType /\ call'.at = "saving" /\ call'.ok = FALSE
      /\ call'.cell = call.cell /\ call'.nb = call.nb
  <2>1. call \in CallType /\ "saving" \in Places
    BY DEF IInv, RunTypes, Places
  <2> QED
    BY <1>1, <2>1, CallMoves
<1>3. /\ kernel' \in KernelType
      /\ kernel'.cell = kernel.cell /\ (kernel'.at = "none" \/ lost')
  BY <1>1 DEF IInv, RunTypes
<1>4. /\ results' \in ResultsType
      /\ results'.recorded = "failed"
  BY <1>1 DEF IInv, RunTypes
<1>5. KernelKnown' /\ Recorded'
  BY <1>2, <1>3, <1>4 DEF KernelKnown, Recorded, At
<1>6. lost' \in BOOLEAN
  BY <1>1 DEF IInv, RunTypes
<1> QED
  BY <1>1, <1>2, <1>3, <1>4, <1>5, <1>6, CallStep DEF At

\* The connection is lost, or the cell takes too long: the kernel is deleted next.
LEMMA BreaksKeep ==
    ASSUME IInv, LoseConnection \/ TimesOut
    PROVE  IInv'
<1>1. /\ call.at \in {"connecting", "running", "draining"}
      /\ call' = [call EXCEPT !.at = "deleting", !.ok = FALSE]
      /\ wire' = <<>> /\ UNCHANGED <<kernel, results, published, ended, lost>>
  BY DEF LoseConnection, TimesOut, IsTimed, Connected, At, InsideTry
<1>2. /\ call' \in CallType /\ call'.at = "deleting" /\ call'.ok = FALSE
      /\ call'.cell = call.cell /\ call'.nb = call.nb
  <2>1. call \in CallType /\ "deleting" \in Places
    BY DEF IInv, RunTypes, Places
  <2> QED
    BY <1>1, <2>1, CallMoves
<1>3. results.recorded = "none"
  BY <1>1 DEF IInv, Recorded
<1>4. KernelKnown' /\ Recorded'
  BY <1>1, <1>2, <1>3 DEF KernelKnown, Recorded, At
<1> QED
  BY <1>1, <1>2, <1>4, CallStep DEF At, IInv, RunTypes

LEMMA AllSentKeeps ==
    ASSUME IInv, AllSent
    PROVE  IInv'
<1>1. /\ call.at = "running" /\ ~(call.cell < Cells)
      /\ call' = [call EXCEPT !.at = "deleting"]
      /\ wire' = <<>> /\ UNCHANGED <<kernel, results, published, ended, lost>>
  BY DEF AllSent, CellIsLeft, At
<1>2. /\ call' \in CallType /\ call'.at = "deleting" /\ call'.ok = call.ok
      /\ call'.cell = call.cell /\ call'.nb = call.nb
  <2>1. call \in CallType /\ "deleting" \in Places
    BY DEF IInv, RunTypes, Places
  <2> QED
    BY <1>1, <2>1, CallMovesOnly
<1>3. call.cell = Cells
  BY <1>1 DEF IInv, RunTypes, CallType, NotebookRunAssumption
<1>4. AllRan
  <2>1. /\ ended.idle = 1..call.cell /\ ended.failed = {}
        /\ \A i \in 1..call.cell : call.nb[i] = published[i]
    BY <1>1 DEF IInv, BetweenCells, At
  <2>2. call.nb \in [Numbers -> Outputs] /\ published \in [Numbers -> Outputs]
    BY DEF IInv, RunTypes, CallType
  <2>3. \A i \in Numbers : call.nb[i] = published[i]
    BY <1>3, <2>1 DEF Numbers
  <2>4. call.nb = published
    BY <2>2, <2>3
  <2> QED
    BY <1>3, <2>1, <2>4 DEF AllRan, Numbers
<1>5. results.recorded = "none"
  BY <1>1 DEF IInv, Recorded
<1>6. AllRan'
  BY <1>1, <1>2, <1>4 DEF AllRan
<1>7. KernelKnown' /\ Recorded'
  BY <1>1, <1>2, <1>5, <1>6 DEF KernelKnown, Recorded, At
<1> QED
  BY <1>1, <1>2, <1>7, CallStep DEF At, IInv, RunTypes

LEMMA DeleteKeeps ==
    ASSUME IInv, Delete
    PROVE  IInv'
<1>1. /\ call.at = "deleting" /\ UNCHANGED <<wire, published, ended>>
      /\ \/ kernel' = [kernel EXCEPT !.at = "deleted", !.cell = 0] /\ lost' = lost
         \/ lost' = TRUE /\ kernel' = kernel
  BY DEF Delete, Environment, At
<1>2. /\ kernel' \in KernelType
      /\ kernel'.cell \in {kernel.cell, 0} /\ (kernel'.at = "deleted" \/ lost')
      /\ lost' \in BOOLEAN
  <2>1. 0 \in 0..Cells
    BY DEF IInv, NotebookRunAssumption
  <2> QED
    BY <1>1, <2>1 DEF IInv, RunTypes
<1>3. PICK place \in {"saving", "over"} : call' = [call EXCEPT !.at = place]
  BY DEF Delete
<1>4. /\ call' \in CallType /\ call'.at = place /\ call'.ok = call.ok
      /\ call'.cell = call.cell /\ call'.nb = call.nb
  <2>1. call \in CallType /\ place \in Places
    BY DEF IInv, RunTypes, Places
  <2> QED
    BY <1>3, <2>1, CallMovesOnly
<1>5. /\ results' \in ResultsType
      /\ results'.recorded = "ok" => results.recorded = "none" /\ call.ok
  BY <1>1 DEF Delete, IInv, RunTypes, Recorded, At
<1>6. results'.recorded = "ok" => AllRan
  BY <1>1, <1>5 DEF IInv, Recorded, At
<1>7. AllRan => AllRan'
  BY <1>1, <1>4 DEF AllRan
<1>8. KernelKnown' /\ Recorded'
  BY <1>2, <1>4, <1>6, <1>7 DEF KernelKnown, Recorded, At
<1> QED
  BY <1>1, <1>2, <1>4, <1>5, <1>8, CallStep DEF At

LEMMA SaveKeeps ==
    ASSUME IInv, Save
    PROVE  IInv'
<1>1. /\ call.at = "saving" /\ call' = [call EXCEPT !.at = "over"]
      /\ UNCHANGED <<kernel, lost, wire, published, ended>>
  BY DEF Save, Environment, At
<1>2. /\ call' \in CallType /\ call'.at = "over" /\ call'.ok = call.ok
      /\ call'.cell = call.cell /\ call'.nb = call.nb
  <2>1. call \in CallType /\ "over" \in Places
    BY DEF IInv, RunTypes, Places
  <2> QED
    BY <1>1, <2>1, CallMovesOnly
<1>3. /\ results' \in ResultsType
      /\ results'.recorded = results.recorded
  <2>1. PICK saved \in BOOLEAN :
           results' = [results EXCEPT !.panel = TRUE, !.saved = saved,
                                      !.copy = IF saved THEN call.nb ELSE @]
    BY DEF Save
  <2>2. (IF saved THEN call.nb ELSE results.copy) \in [Numbers -> Outputs]
    BY DEF IInv, RunTypes, CallType
  <2> QED
    BY <2>1, <2>2 DEF IInv, RunTypes
<1>4. AllRan => AllRan'
  BY <1>1, <1>2 DEF AllRan
<1>5. KernelKnown' /\ Recorded'
  BY <1>1, <1>2, <1>3, <1>4 DEF IInv, KernelKnown, Recorded, At
<1> QED
  BY <1>1, <1>2, <1>3, <1>5, CallStep DEF At, IInv, RunTypes

\* Stop is pressed anywhere.
LEMMA CancelKeeps ==
    ASSUME IInv, Cancel
    PROVE  IInv'
<1> DEFINE place == IF call.at \in {"connecting", "running", "draining"} THEN "deleting" ELSE "over"
<1>1. /\ call.at # "over" /\ call' = [call EXCEPT !.at = place]
      /\ results' = [results EXCEPT !.recorded = IF @ = "none" THEN "cancelled" ELSE @]
      /\ wire' = <<>> /\ UNCHANGED <<kernel, published, ended>>
  BY DEF Cancel, Connected, At, InsideTry
<1>2. /\ call' \in CallType /\ call'.at = place /\ call'.ok = call.ok
      /\ call'.cell = call.cell /\ call'.nb = call.nb
  <2>1. call \in CallType /\ place \in Places
    BY DEF IInv, RunTypes, Places
  <2> QED
    BY <1>1, <2>1, CallMovesOnly
<1>3. /\ results' \in ResultsType
      /\ results'.recorded = IF results.recorded = "none" THEN "cancelled" ELSE results.recorded
  BY <1>1 DEF IInv, RunTypes
<1>4. lost' = (lost \/ call.at \in {"starting", "deleting"})
  BY DEF Cancel
<1>5. lost' \in BOOLEAN /\ (call.at \in {"starting", "deleting"} => lost')
  BY <1>4
<1>6. lost => lost'
  BY <1>4
<1>7. KernelKnown'
  <2>1. call'.at = "over" => \/ call.at \in {"looking", "loading"}
                             \/ call.at \in {"starting", "deleting"} \/ call.at = "saving"
    BY <1>1, <1>2 DEF IInv, RunTypes, CallType, Places
  <2>2. call'.at \in {"deleting", "over"}
    BY <1>2
  <2> QED
    BY <1>1, <1>5, <1>6, <2>1, <2>2 DEF IInv, KernelKnown
<1>8. AllRan => AllRan'
  BY <1>1, <1>2 DEF AllRan
<1>9. Recorded'
  <2>1. call.at \in {"connecting", "running", "draining"} => results.recorded = "none"
    BY DEF IInv, Recorded
  <2>2. call'.at \in {"deleting", "over"}
    BY <1>2
  <2>3. call'.at = "deleting" => results'.recorded = "cancelled"
    BY <1>2, <1>3, <2>1
  <2>4. results'.recorded = "ok" => results.recorded = "ok"
    BY <1>3
  <2> QED
    BY <1>8, <2>2, <2>3, <2>4 DEF IInv, Recorded, At
<1> QED
  BY <1>1, <1>2, <1>3, <1>5, <1>7, <1>9, CallStep DEF At, IInv, RunTypes

\* The next cell is emptied and sent.  What is on the wire is of those before it.
LEMMA SendKeeps ==
    ASSUME IInv, Send
    PROVE  IInv'
<1> DEFINE c == call.cell + 1
<1>1. /\ call.at = "running" /\ call.cell < Cells
      /\ call' = [call EXCEPT !.at = "draining", !.cell = c, !.failed = FALSE, !.nb[c] = <<>>]
      /\ kernel' = [kernel EXCEPT !.cell = c, !.sent = 0]
      /\ UNCHANGED <<results, lost, wire, published, ended>>
  BY DEF Send, CellIsLeft, Environment, At
<1>2. /\ call.cell \in Nat /\ c \in Nat /\ c \in Numbers /\ c \in 0..Cells /\ c # 0
      /\ 1..call.cell \cup {c} = 1..c /\ c \notin 1..call.cell
      /\ \A i \in 1..(c - 1) : i \in 1..call.cell /\ i # c
      /\ NotebookRunAssumption
  BY <1>1 DEF IInv, RunTypes, CallType, Numbers, NotebookRunAssumption
<1> HIDE DEF c
<1>3. /\ call'.at = "draining" /\ call'.cell = c /\ call'.failed = FALSE /\ call'.ok = call.ok
      /\ call'.nb = [call.nb EXCEPT ![c] = <<>>]
  BY <1>1 DEF IInv, RunTypes, CallType
<1>4. /\ call'.nb \in [Numbers -> Outputs] /\ call'.nb[c] = <<>>
      /\ \A i \in Numbers \ {c} : call'.nb[i] = call.nb[i]
  BY <1>2, <1>3, Numbered DEF IInv, RunTypes, CallType
<1>5. call' \in CallType
  BY <1>1, <1>2, <1>3, <1>4, Numbered DEF IInv, RunTypes, CallType, Places
<1>6. /\ kernel' \in KernelType
      /\ kernel'.cell = c
  <2>1. 0 \in 0..MaxMessages
    BY DEF IInv, NotebookRunAssumption
  <2> QED
    BY <1>1, <1>2, <2>1 DEF IInv, RunTypes
<1>7. /\ kernel.cell = 0 /\ ended.idle = 1..call.cell /\ ended.failed = {}
      /\ \A i \in 1..call.cell : call.nb[i] = published[i]
      /\ \A k \in 1..Len(wire) : wire[k].of <= call.cell
  BY <1>1 DEF IInv, BetweenCells, At
<1>8. published[c] = <<>>
  BY <1>2 DEF IInv, NothingEarly, c
<1>9. Brings(wire, c, <<>>, <<>>, ended.idle)
  <2>1. wire \in Seq(Msgs) /\ c \notin ended.idle
    BY <1>2, <1>7 DEF IInv, RunTypes
  <2>2. \A k \in 1..Len(wire) : wire[k].of < c
    <3>1. \A k \in 1..Len(wire) : wire[k].of \in Nat
      <4>1. \A k \in 1..Len(wire) : wire[k] \in Msgs
        BY <2>1, ElementOfSeq
      <4> QED
        BY <1>2, <4>1, Numbered DEF Msgs
    <3> QED
      BY <1>2, <1>7, <3>1 DEF c
  <2> QED
    BY <1>2, <2>1, <2>2, BringsNothing
<1>10. InACell'
  <2>1. ended'.idle \cup {c} = 1..c /\ ended'.failed \subseteq {c}
    BY <1>1, <1>2, <1>7
  <2>2. Brings(wire', c, call'.nb[c], published'[c], ended'.idle)
    BY <1>1, <1>4, <1>8, <1>9
  <2>3. c \notin ended'.idle /\ c \notin ended'.failed
    BY <1>1, <1>2, <1>7
  <2> QED
    BY <1>2, <1>3, <1>6, <2>1, <2>2, <2>3 DEF InACell
<1>11. RunTypes' /\ KernelKnown' /\ BetweenCells' /\ Recorded'
  <2>1. RunTypes'
    BY <1>1, <1>5, <1>6 DEF IInv, RunTypes
  <2>2. results.recorded = "none" /\ call.ok
    BY <1>1 DEF IInv, Recorded
  <2> QED
    BY <1>1, <1>3, <2>1, <2>2 DEF KernelKnown, BetweenCells, Recorded, At
<1>12. NothingEarly'
  <2>1. \A i \in Numbers : i > c => i > call.cell
    BY <1>2, Numbered DEF c
  <2> QED
    BY <1>1, <1>3, <1>6, <2>1 DEF IInv, NothingEarly
<1>13. CellsShowTheirOutputs'
  <2>1. \A i \in 1..(c - 1) : call'.nb[i] = published'[i]
    <3>1. \A i \in 1..(c - 1) : i \in Numbers
      BY <1>2 DEF Numbers, IInv, NotebookRunAssumption
    <3> QED
      BY <1>1, <1>2, <1>4, <1>7, <3>1
  <2>2. DOMAIN call'.nb[c] = {}
    BY <1>4
  <2>3. results'.recorded # "ok"
    BY <1>1 DEF IInv, Recorded
  <2> QED
    BY <1>3, <2>1, <2>2, <2>3 DEF CellsShowTheirOutputs
<1> QED
  BY <1>2, <1>10, <1>11, <1>12, <1>13 DEF IInv

\* The first message is read: what it makes of the cell's outputs is what the cell
\* made of them when it published it.
LEMMA ReadsKeep ==
    ASSUME IInv, Ignore \/ Receive
    PROVE  IInv'
<1> DEFINE c == call.cell
           m == Head(wire)
           first == call.nb[c]
<1>1. /\ call.at = "draining" /\ wire # <<>> /\ wire' = Tail(wire)
      /\ UNCHANGED <<kernel, results, published, ended, lost>>
  BY DEF Ignore, Receive, At
<1>2. /\ wire' \in Seq(Msgs) /\ Len(wire) \in Nat \ {0} /\ Len(wire') = Len(wire) - 1
      /\ \A k \in 1..Len(wire') : wire'[k] = wire[k + 1] /\ k + 1 \in 1..Len(wire)
      /\ m = wire[1] /\ m \in Msgs
  BY <1>1, OneMessageLess DEF IInv, RunTypes
<1>3. /\ c \in Numbers /\ c \in Nat /\ NotebookRunAssumption /\ first \in Outputs
      /\ call.nb \in [Numbers -> Outputs] /\ c \notin 1..(c - 1)
  BY <1>1, Numbered DEF IInv, InACell, At, RunTypes, CallType
<1>4. /\ ended.idle \cup {c} = 1..c /\ ended.failed \subseteq {c}
      /\ c \in ended.idle <=> kernel.cell = 0
      /\ Brings(wire, c, first, published[c], ended.idle)
      /\ c \in ended.failed => call.failed \/ ErrorIn(wire, c)
  BY <1>1 DEF IInv, InACell, At
<1>5. /\ \A k \in DOMAIN first : first[k].of = c
      /\ \A i \in 1..(c - 1) : call.nb[i] = published[i]
  BY <1>3 DEF IInv, CellsShowTheirOutputs
<1>6. results.recorded = "none" /\ call.ok
  BY <1>1 DEF IInv, Recorded
<1>7. m.kind = "idle" => m.of # c
  BY DEF Ignore, Receive, Ours
<1>8. /\ call' \in CallType /\ call'.at = "draining" /\ call'.cell = c /\ call'.ok = call.ok
      /\ call'.nb = [call.nb EXCEPT ![c] = After(first, m, c)]
      /\ call'.failed \in BOOLEAN
      /\ call.failed \/ (m.of = c /\ m.kind = "error") => call'.failed
  <2>1. After(first, m, c) \in Outputs
    BY <1>2, <1>3, AfterIsOutputs
  <2>2. CASE Ignore
    <3>1. call' = call /\ ~(m.kind # "reply" /\ m.of = c)
      BY <2>2 DEF Ignore, Ours
    <3>2. [call.nb EXCEPT ![c] = first] = call.nb
      BY <1>3
    <3> QED
      BY <1>1, <3>1, <3>2 DEF After, IInv, RunTypes, CallType
  <2>3. CASE Receive
    <3> DEFINE nbs == [call.nb EXCEPT ![c] = Effect(@, m)]
               failed == HadError(m)
    <3>1. /\ m.kind # "reply" /\ m.of = c
          /\ call' = [call EXCEPT !.nb = nbs, !.failed = failed]
      BY <2>3 DEF Receive, Ours
    <3>2. nbs = [call.nb EXCEPT ![c] = After(first, m, c)] /\ nbs \in [Numbers -> Outputs]
      BY <1>3, <2>1, <3>1 DEF After
    <3>3. failed \in BOOLEAN /\ (failed <=> call.failed \/ m.kind = "error")
      BY DEF HadError, IInv, RunTypes, CallType
    <3> HIDE DEF nbs, failed
    <3> QED
      BY <1>1, <3>1, <3>2, <3>3 DEF IInv, RunTypes, CallType
  <2> QED
    BY <2>2, <2>3
<1>9. call'.nb[c] = After(first, m, c) /\ \A i \in Numbers \ {c} : call'.nb[i] = call.nb[i]
  BY <1>3, <1>8
<1>10. Brings(wire', c, call'.nb[c], published[c], ended.idle)
  <2> HIDE DEF c, first
  <2>1. ~IdleAt(wire, 1, c)
    BY <1>2, <1>7 DEF IdleAt
  <2>2. wire \in Seq(Msgs)
    BY DEF IInv, RunTypes
  <2>3. Brings(Tail(wire), c, After(first, m, c), published[c], ended.idle)
    BY <1>1, <1>3, <1>4, <2>1, <2>2, BringsTheRest
  <2> QED
    BY <1>1, <1>9, <2>3
<1>11. c \in ended.failed => call'.failed \/ ErrorIn(wire', c)
  <2> SUFFICES ASSUME c \in ended.failed, ~call'.failed
               PROVE  ErrorIn(wire', c)
    OBVIOUS
  <2>1. ~call.failed /\ ~(m.of = c /\ m.kind = "error")
    BY <1>8
  <2>2. PICK k \in 1..Len(wire) : wire[k].of = c /\ wire[k].kind = "error"
    BY <1>4, <2>1 DEF ErrorIn
  <2>3. k # 1
    BY <1>2, <2>1, <2>2
  <2>4. k - 1 \in 1..Len(wire') /\ (k - 1) + 1 = k
    BY <1>2, <2>3
  <2> QED
    BY <1>2, <2>2, <2>4 DEF ErrorIn
<1> HIDE DEF first, m
<1>12. InACell'
  BY <1>1, <1>3, <1>4, <1>8, <1>10, <1>11 DEF InACell
<1>13. RunTypes' /\ KernelKnown' /\ BetweenCells' /\ Recorded' /\ NothingEarly'
  <2>1. RunTypes'
    BY <1>1, <1>2, <1>8 DEF IInv, RunTypes
  <2>2. NothingEarly'
    BY <1>1, <1>8 DEF IInv, NothingEarly
  <2> QED
    BY <1>1, <1>6, <1>8, <2>1, <2>2 DEF KernelKnown, BetweenCells, Recorded, At
<1>14. CellsShowTheirOutputs'
  <2>1. \A i \in 1..(c - 1) : call'.nb[i] = published'[i]
    <3>1. \A i \in 1..(c - 1) : i \in Numbers \ {c}
      BY <1>3 DEF Numbers, NotebookRunAssumption
    <3> QED
      BY <1>1, <1>5, <1>9, <3>1
  <2>2. \A k \in DOMAIN call'.nb[c] : call'.nb[c][k].of = c
    BY <1>2, <1>3, <1>5, <1>9, EffectIsOutputs DEF After
  <2> QED
    BY <1>1, <1>6, <1>8, <2>1, <2>2 DEF CellsShowTheirOutputs
<1> QED
  BY <1>3, <1>12, <1>13, <1>14 DEF IInv

\* Idle is read: the cell shows what it published, and if it raised, the call knows.
LEMMA CellEndsKeeps ==
    ASSUME IInv, CellEnds
    PROVE  IInv'
<1> DEFINE c == call.cell
           m == Head(wire)
<1>1. /\ call.at = "draining" /\ wire # <<>> /\ m.of = c /\ m.kind = "idle"
      /\ UNCHANGED <<kernel, results, published, ended, lost>>
  BY DEF CellEnds, Ours, At
<1>2. /\ wire \in Seq(Msgs) /\ Len(wire) \in Nat \ {0}
      /\ Tail(wire) \in Seq(Msgs) /\ Len(Tail(wire)) = Len(wire) - 1
      /\ \A k \in 1..Len(Tail(wire)) : Tail(wire)[k] = wire[k + 1] /\ k + 1 \in 1..Len(wire)
      /\ m = wire[1]
  BY <1>1, OneMessageLess DEF IInv, RunTypes
<1>3. /\ c \in Numbers /\ c \in Nat /\ NotebookRunAssumption /\ call.nb[c] \in Outputs
      /\ call \in CallType
  BY <1>1, Numbered DEF IInv, InACell, At, RunTypes, CallType
<1>4. /\ ended.idle \cup {c} = 1..c /\ ended.failed \subseteq {c}
      /\ c \in ended.idle <=> kernel.cell = 0
      /\ Brings(wire, c, call.nb[c], published[c], ended.idle)
      /\ c \in ended.failed => call.failed \/ ErrorIn(wire, c)
  BY <1>1 DEF IInv, InACell, At
<1>5. /\ published[c] = call.nb[c] /\ c \in ended.idle
      /\ \A k \in 2..Len(wire) : wire[k].kind = "output"
  <2> HIDE DEF c
  <2>1. IdleAt(wire, 1, c)
    BY <1>1, <1>2 DEF IdleAt
  <2> QED
    BY <1>1, <1>2, <1>3, <1>4, <2>1, IdleBringsNothing
<1>6. ~ErrorIn(wire, c)
  <2> SUFFICES ASSUME NEW k \in 1..Len(wire), wire[k].kind = "error"
               PROVE  FALSE
    BY DEF ErrorIn
  <2>1. k # 1
    BY <1>1, <1>2
  <2>2. k \in 2..Len(wire)
    BY <1>2, <2>1
  <2> QED
    BY <1>5, <2>2
<1>7. results.recorded = "none" /\ call.ok
  BY <1>1 DEF IInv, Recorded
<1>8. CASE HadError(m)
  <2>1. call' = [call EXCEPT !.at = "deleting", !.ok = FALSE] /\ wire' = <<>>
    BY <1>8 DEF CellEnds
  <2>2. /\ call' \in CallType /\ call'.at = "deleting" /\ call'.ok = FALSE
        /\ call'.cell = call.cell /\ call'.nb = call.nb
    <3>1. "deleting" \in Places
      BY DEF Places
    <3> QED
      BY <1>3, <2>1, <3>1, CallMoves
  <2>3. KernelKnown' /\ Recorded'
    BY <1>1, <1>7, <2>2 DEF KernelKnown, Recorded, At
  <2> QED
    BY <1>1, <2>1, <2>2, <2>3, CallStep DEF At, IInv, RunTypes
<1>9. CASE ~HadError(m)
  <2>1. call' = [call EXCEPT !.at = "running"] /\ wire' = Tail(wire)
    BY <1>9 DEF CellEnds
  <2>2. /\ call' \in CallType /\ call'.at = "running" /\ call'.ok = call.ok
        /\ call'.cell = call.cell /\ call'.nb = call.nb
    <3>1. "running" \in Places
      BY DEF Places
    <3> QED
      BY <1>3, <2>1, <3>1, CallMovesOnly
  <2>3. ended.idle = 1..c /\ ended.failed = {} /\ kernel.cell = 0
    BY <1>4, <1>5, <1>6, <1>9 DEF HadError
  <2>4. \A k \in 1..Len(wire') : wire'[k].of <= c
    BY <1>2, <1>4, <2>1 DEF Brings
  <2>5. \A i \in 1..c : call.nb[i] = published[i]
    <3>1. \A i \in 1..(c - 1) : call.nb[i] = published[i]
      BY DEF IInv, CellsShowTheirOutputs
    <3>2. \A i \in 1..c : i = c \/ i \in 1..(c - 1)
      BY <1>3
    <3> QED
      BY <1>5, <3>1, <3>2
  <2>6. BetweenCells'
    BY <1>1, <2>2, <2>3, <2>4, <2>5 DEF BetweenCells
  <2>7. RunTypes' /\ KernelKnown' /\ InACell' /\ Recorded' /\ NothingEarly'
    <3>1. RunTypes'
      BY <1>1, <1>2, <2>1, <2>2 DEF IInv, RunTypes
    <3>2. NothingEarly'
      BY <1>1, <2>2 DEF IInv, NothingEarly
    <3> QED
      BY <1>1, <1>7, <2>2, <3>1, <3>2 DEF KernelKnown, InACell, Recorded, At
  <2>8. CellsShowTheirOutputs'
    BY <1>1, <1>7, <2>2 DEF IInv, CellsShowTheirOutputs
  <2> QED
    BY <1>3, <2>6, <2>7, <2>8 DEF IInv
<1> QED
  BY <1>8, <1>9

-----------------------------------------------------------------------------
(* The invariant and what follows from it *)

LEMMA InitHolds ==
    ASSUME NotebookRunAssumption, Init
    PROVE  IInv
<1>1. PICK nbs \in [Numbers -> {<<>>, <<Old>>}] :
         call = [at |-> "looking", cell |-> 0, nb |-> nbs, ok |-> TRUE, failed |-> FALSE]
  BY DEF Init
<1>2. <<>> \in Outputs /\ <<Old>> \in Outputs
  BY DEF Outputs, Old, NotebookRunAssumption
<1>3. nbs \in [Numbers -> Outputs] /\ NoOutputs \in [Numbers -> Outputs]
  BY <1>2 DEF NoOutputs
<1>4. /\ kernel = [at |-> "none", cell |-> 0, sent |-> 0, late |-> 0] /\ wire = <<>>
      /\ results = [recorded |-> "none", panel |-> FALSE, saved |-> FALSE, copy |-> NoOutputs]
      /\ published = NoOutputs /\ ended = [idle |-> {}, failed |-> {}] /\ lost = FALSE
  BY DEF Init
<1>5. call \in CallType /\ call.at = "looking" /\ call.cell = 0 /\ call.ok
  BY <1>1, <1>3 DEF CallType, Places, NotebookRunAssumption
<1>6. RunTypes
  <2>1. /\ 0 \in 0..Cells /\ 0 \in 0..MaxMessages /\ 0 \in 0..MaxLate
        /\ {} \in SUBSET Numbers
    BY DEF NotebookRunAssumption
  <2>2. kernel \in KernelType
    BY <1>4, <2>1
  <2>3. results \in ResultsType
    BY <1>3, <1>4
  <2> QED
    BY <1>3, <1>4, <1>5, <2>1, <2>2, <2>3, EmptySeq DEF RunTypes
<1>7. NothingEarly
  BY <1>4, <1>5 DEF NothingEarly, NoOutputs
<1>8. CellsShowTheirOutputs
  BY <1>4, <1>5 DEF CellsShowTheirOutputs, Numbers, NotebookRunAssumption
<1> QED
  BY <1>4, <1>5, <1>6, <1>7, <1>8 DEF IInv, KernelKnown, BetweenCells, InACell, Recorded, At

LEMMA NextKeeps ==
    ASSUME IInv, Next
    PROVE  IInv'
<1>1. CASE Execution
  BY <1>1, ServerStartsKeeps, RaiseKeeps, GoIdleKeeps, PublishKeeps, PublishLateKeeps DEF Execution
<1>2. CASE Tool
  BY <1>2, SetUpKeeps, StartFailsKeeps, SendKeeps, AllSentKeeps, ReadsKeep, CellEndsKeeps,
     DeleteKeeps, SaveKeeps DEF Tool
<1> QED
  BY <1>1, <1>2, BreaksKeep, CancelKeeps DEF Next

LEMMA StutterKeeps ==
    ASSUME IInv, UNCHANGED vars
    PROVE  IInv'
BY DEF vars, IInv, RunTypes, KernelKnown, NothingEarly, BetweenCells, InACell, Recorded, AllRan, At,
   Connected, CellsShowTheirOutputs

\* IInv holds always, however messages mix and wherever the call is stopped.
THEOREM Invariance == Spec => []IInv
<1>1. Init => IInv
  BY NotebookRunAssumption, InitHolds
<1>2. IInv /\ [Next]_vars => IInv'
  BY NextKeeps, StutterKeeps
<1> QED
  BY <1>1, <1>2, PTL DEF Spec

\* A cell shows what its execution published and nothing of another's, and a run is
\* recorded as good only if every cell ran to its end and none raised.
THEOREM RunsTellTruly == Spec => []RunTellsTruly
<1>1. IInv => RunTellsTruly
  <2> SUFFICES ASSUME IInv PROVE RunTellsTruly
    OBVIOUS
  <2>1. TypeOK
    BY DEF IInv, RunTypes, CallType, Places, TypeOK
  <2>2. OkMeansAllRan
    BY DEF IInv, Recorded, AllRan, OkMeansAllRan
  <2> QED
    BY <2>1, <2>2 DEF IInv, RunTellsTruly
<1> QED
  BY <1>1, Invariance, PTL

\* When the call is over, however it ended, its kernel is deleted, unless the server
\* did not answer its start or its deletion.
THEOREM KernelsAreTornDown == Spec => []KernelTornDown
<1>1. IInv => KernelTornDown
  BY DEF IInv, KernelKnown, KernelTornDown, At
<1> QED
  BY <1>1, Invariance, PTL

-----------------------------------------------------------------------------
(* DataLens: for any addresses, pages, calls at a time and size of the cache *)

\* An entry came into the cache within a request's time of being served.
CacheIsKnown(entries) ==
    \A u \in DOMAIN entries :
        /\ entries[u].at \in Nat /\ entries[u].at <= now
        /\ entries[u].served \in Nat /\ entries[u].at - entries[u].served <= Timeout

\* How long ago a call's page was served, at each place of the call.
Timely(mine) ==
    /\ mine.at \in {"asked", "answered", "pictures"} =>
          mine.since \in Nat /\ mine.since <= now /\ now - mine.since <= Timeout
    /\ mine.at = "answered" => mine.served \in Nat /\ mine.since <= mine.served
    /\ mine.at = "got" => mine.served \in Nat /\ now - mine.served <= CacheSeconds + Timeout
    /\ mine.at = "pictures" =>
          mine.panel.served \in Nat /\ mine.since - mine.panel.served <= CacheSeconds + Timeout
    /\ mine.at = "over" /\ mine.panel # Lens!NoPage =>
          /\ mine.shown \in Nat /\ mine.panel.served \in Nat
          /\ mine.shown - mine.panel.served <= CacheSeconds + 2 * Timeout

LensIInv ==
    /\ CacheSeconds \in Nat /\ Timeout \in Nat
    /\ now \in Nat
    /\ CacheIsKnown(cache)
    /\ calls = [c \in Callers |-> calls[c]]
    /\ \A c \in Callers : Timely(calls[c])

\* One call goes on, with an entry put into the cache or not.
LEMMA CallGoes ==
    ASSUME LensIInv, NEW c \in Callers, NEW mine, Timely(mine),
           calls' = [calls EXCEPT ![c] = mine], now' = now, CacheIsKnown(cache')
    PROVE  LensIInv'
<1>1. /\ calls' = [d \in Callers |-> calls'[d]] /\ calls'[c] = mine
      /\ \A d \in Callers \ {c} : calls'[d] = calls[d]
  BY DEF LensIInv
<1>2. \A d \in Callers : Timely(calls'[d])
  BY <1>1 DEF LensIInv
<1>3. CacheIsKnown(cache)'
  BY DEF CacheIsKnown
<1>4. \A d \in Callers : Timely(calls[d])'
  BY <1>2 DEF Timely
<1> QED
  BY <1>1, <1>3, <1>4 DEF LensIInv

\* What _cache_put() adds was served within a request's time.
LEMMA PutIsKnown ==
    ASSUME LensIInv, NEW url, NEW got, NEW served \in Nat, now - served <= Timeout,
           Lens!Put(url, got, served)
    PROVE  CacheIsKnown(cache')
<1> DEFINE entry == [at |-> now, page |-> got, served |-> served]
           full == [u \in DOMAIN cache \cup {url} |-> IF u = url THEN entry ELSE cache[u]]
<1>1. \A u \in DOMAIN full : full[u] = entry \/ (u \in DOMAIN cache /\ full[u] = cache[u])
  OBVIOUS
<1>2. entry.at = now /\ entry.served = served
  OBVIOUS
<1> HIDE DEF entry
<1>3. CacheIsKnown(full)
  BY <1>1, <1>2 DEF CacheIsKnown, LensIInv
<1>4. cache' = full \/ \E gone : cache' = [u \in DOMAIN full \ gone |-> full[u]]
  BY DEF Lens!Put, entry
<1> HIDE DEF full
<1> QED
  BY <1>3, <1>4 DEF CacheIsKnown

\* _get(): a cached page is younger than the cache keeps it and a request takes.
LEMMA GetIsTimely ==
    ASSUME LensIInv, NEW c \in Callers, NEW url, NEW view,
           Lens!Get(c, [url |-> url, view |-> view]), now' = now, cache' = cache
    PROVE  LensIInv'
<1> DEFINE got == [at |-> "got", url |-> Final[url], view |-> view, scripted |-> FALSE,
                   page |-> cache[url].page, served |-> cache[url].served]
           asked == [at |-> "asked", url |-> url, view |-> view, since |-> now]
<1>1. CASE Lens!Hit(url)
  <2>1. calls' = [calls EXCEPT ![c] = got]
    BY <1>1 DEF Lens!Get
  <2>2. url \in DOMAIN cache /\ now - cache[url].at < CacheSeconds
    BY <1>1 DEF Lens!Hit, Lens!IsFresh
  <2>3. /\ cache[url].at \in Nat /\ cache[url].served \in Nat /\ now \in Nat
        /\ cache[url].at - cache[url].served <= Timeout /\ CacheSeconds \in Nat /\ Timeout \in Nat
    BY <2>2 DEF LensIInv, CacheIsKnown
  <2>4. now - cache[url].served <= CacheSeconds + Timeout
    BY <2>2, <2>3
  <2>5. Timely(got)
    BY <2>3, <2>4 DEF Timely
  <2> HIDE DEF got
  <2> QED
    BY <2>1, <2>5, CallGoes DEF LensIInv
<1>2. CASE ~Lens!Hit(url)
  <2>1. calls' = [calls EXCEPT ![c] = asked]
    BY <1>2 DEF Lens!Get
  <2>2. Timely(asked)
    BY DEF Timely, LensIInv
  <2> HIDE DEF asked
  <2> QED
    BY <2>1, <2>2, CallGoes DEF LensIInv
<1> QED
  BY <1>1, <1>2

\* A server answers; its answer arrives and is put into the cache.
LEMMA AnswerKeeps ==
    ASSUME LensIInv, NEW c \in Callers, Lens!Serve(c) \/ Lens!Arrive(c)
    PROVE  LensIInv'
<1>1. CASE Lens!Serve(c)
  <2> DEFINE mine == [at |-> "answered", url |-> calls[c].url, view |-> calls[c].view,
                      since |-> calls[c].since, page |-> web[Final[calls[c].url]], served |-> now]
  <2>1. calls' = [calls EXCEPT ![c] = mine] /\ calls[c].at = "asked" /\ now' = now /\ cache' = cache
    BY <1>1 DEF Lens!Serve, Lens!At, LensIInv
  <2>2. Timely(mine)
    BY <2>1 DEF Timely, LensIInv
  <2> HIDE DEF mine
  <2> QED
    BY <2>1, <2>2, CallGoes DEF LensIInv
<1>2. CASE Lens!Arrive(c)
  <2> DEFINE mine == [at |-> "got", url |-> Final[calls[c].url], view |-> calls[c].view,
                      scripted |-> FALSE, page |-> calls[c].page, served |-> calls[c].served]
  <2>1. calls' = [calls EXCEPT ![c] = mine] /\ calls[c].at = "answered" /\ now' = now
    BY <1>2 DEF Lens!Arrive, Lens!At, LensIInv
  <2>2. calls[c].served \in Nat /\ now - calls[c].served <= Timeout
    BY <2>1 DEF Timely, LensIInv
  <2>3. CacheIsKnown(cache')
    BY <1>2, <2>2, PutIsKnown DEF Lens!Arrive
  <2>4. now - calls[c].served <= CacheSeconds + Timeout
    BY <2>2 DEF LensIInv
  <2>5. Timely(mine)
    BY <2>2, <2>4 DEF Timely
  <2> HIDE DEF mine
  <2> QED
    BY <2>1, <2>3, <2>5, CallGoes
<1> QED
  BY <1>1, <1>2

\* A call is over, or idle again, without a panel.
LEMMA EndKeeps ==
    ASSUME LensIInv, NEW c \in Callers, Lens!FetchFails(c) \/ Lens!Done(c)
    PROVE  LensIInv'
<1>1. Timely(Lens!Over(Lens!NoPage)) /\ Timely(Lens!Idle)
  BY DEF Timely, Lens!Over, Lens!NoPage, Lens!Idle
<1> QED
  BY <1>1, CallGoes DEF Lens!FetchFails, Lens!Done, LensIInv

LEMMA OpenKeeps ==
    ASSUME LensIInv, NEW c \in Callers, NEW url, NEW view,
           Lens!Open(c, url, view) \/ Lens!OpenChart(c, url)
    PROVE  LensIInv'
<1>1. now' = now /\ cache' = cache
  BY DEF Lens!Open, Lens!OpenChart
<1>2. CASE Lens!Get(c, [url |-> url, view |-> view]) \/ Lens!Get(c, [url |-> url, view |-> "chart"])
  BY <1>1, <1>2, GetIsTimely
<1>3. CASE calls' = [calls EXCEPT ![c] = [at |-> "rendering", url |-> url]]
  <2> DEFINE mine == [at |-> "rendering", url |-> url]
  <2>1. Timely(mine)
    BY DEF Timely
  <2>2. calls' = [calls EXCEPT ![c] = mine]
    BY <1>3
  <2> HIDE DEF mine
  <2> QED
    BY <1>1, <2>1, <2>2, CallGoes DEF LensIInv
<1> QED
  BY <1>2, <1>3 DEF Lens!Open, Lens!OpenChart

\* The browser's page is of this moment; without it the page is fetched.
LEMMA RenderKeeps ==
    ASSUME LensIInv, NEW c \in Callers, Lens!Rendered(c) \/ Lens!RenderFails(c)
    PROVE  LensIInv'
<1>1. now' = now /\ cache' = cache
  BY DEF Lens!Rendered, Lens!RenderFails
<1>2. CASE Lens!RenderFails(c)
  BY <1>1, <1>2, GetIsTimely DEF Lens!RenderFails
<1>3. CASE Lens!Rendered(c)
  <2>1. PICK got : calls' = [calls EXCEPT ![c] =
            [at |-> "got", url |-> calls[c].url, view |-> "auto", scripted |-> TRUE, served |-> now,
             page |-> got]]
    BY <1>3 DEF Lens!Rendered, LensIInv
  <2> DEFINE mine == [at |-> "got", url |-> calls[c].url, view |-> "auto", scripted |-> TRUE,
                      served |-> now, page |-> got]
  <2>2. Timely(mine)
    BY DEF Timely, LensIInv
  <2>3. calls' = [calls EXCEPT ![c] = mine]
    BY <2>1
  <2> HIDE DEF mine
  <2> QED
    BY <1>1, <2>2, <2>3, CallGoes DEF LensIInv
<1> QED
  BY <1>2, <1>3

\* A panel carries the time its page was served, and comes up at once or when its
\* pictures have come.
LEMMA ShowKeeps ==
    ASSUME LensIInv, NEW c \in Callers, Lens!Show(c)
    PROVE  LensIInv'
<1>1. calls[c].at = "got" /\ now' = now /\ cache' = cache
  BY DEF Lens!Show, Lens!At
<1>2. /\ calls[c].served \in Nat /\ now \in Nat /\ CacheSeconds \in Nat /\ Timeout \in Nat
      /\ now - calls[c].served <= CacheSeconds + Timeout
  BY <1>1 DEF Timely, LensIInv
<1>3. \E panelOf : /\ panelOf = Lens!NoPage \/ panelOf.served = calls[c].served
                   /\ \/ calls' = [calls EXCEPT ![c] = Lens!Over(panelOf)]
                      \/ /\ panelOf.served = calls[c].served
                         /\ calls' = [calls EXCEPT ![c] =
                                        [at |-> "pictures", since |-> now, panel |-> panelOf]]
  <2>1. Lens!Panel(calls[c]).served = calls[c].served /\ Lens!ChartPanel(calls[c]).served = calls[c].served
    BY DEF Lens!Panel, Lens!ChartPanel
  <2>2. \/ calls' = [calls EXCEPT ![c] = Lens!Over(Lens!NoPage)]
        \/ calls' = [calls EXCEPT ![c] = Lens!Over(Lens!ChartPanel(calls[c]))]
        \/ calls' = [calls EXCEPT ![c] = Lens!Over(Lens!Panel(calls[c]))]
        \/ calls' = [calls EXCEPT ![c] =
                        [at |-> "pictures", since |-> now, panel |-> Lens!Panel(calls[c])]]
    <3> DEFINE charted == calls[c].view = "chart"
               raises == Lens!Raises(calls[c].page, calls[c].view)
               rows == Lens!ChartRows(calls[c].page, 0)
               waits == Lens!WantsPictures(calls[c]) /\ ~Lens!Hit(Picture)
    <3>1. calls' = [calls EXCEPT ![c] =
             IF charted THEN Lens!Over(IF rows = 0 THEN Lens!NoPage ELSE Lens!ChartPanel(calls[c]))
             ELSE IF raises THEN Lens!Over(Lens!NoPage)
             ELSE IF waits THEN [at |-> "pictures", since |-> now, panel |-> Lens!Panel(calls[c])]
             ELSE Lens!Over(Lens!Panel(calls[c]))]
      BY DEF Lens!Show
    <3> HIDE DEF charted, raises, rows, waits
    <3>2. CASE charted
      BY <3>1, <3>2
    <3>3. CASE ~charted /\ raises
      BY <3>1, <3>3
    <3>4. CASE ~charted /\ ~raises /\ waits
      BY <3>1, <3>4
    <3>5. CASE ~charted /\ ~raises /\ ~waits
      BY <3>1, <3>5
    <3> QED
      BY <3>2, <3>3, <3>4, <3>5
  <2> QED
    BY <2>1, <2>2
<1>4. PICK panelOf : /\ panelOf = Lens!NoPage \/ panelOf.served = calls[c].served
                     /\ \/ calls' = [calls EXCEPT ![c] = Lens!Over(panelOf)]
                        \/ /\ panelOf.served = calls[c].served
                           /\ calls' = [calls EXCEPT ![c] =
                                          [at |-> "pictures", since |-> now, panel |-> panelOf]]
  BY <1>3
<1>5. CASE calls' = [calls EXCEPT ![c] = Lens!Over(panelOf)]
  <2>1. now - calls[c].served <= CacheSeconds + 2 * Timeout
    BY <1>2
  <2>2. Timely(Lens!Over(panelOf))
    BY <1>2, <1>4, <2>1 DEF Timely, Lens!Over
  <2> QED
    BY <1>1, <1>5, <2>2, CallGoes DEF LensIInv
<1>6. CASE /\ panelOf.served = calls[c].served
           /\ calls' = [calls EXCEPT ![c] = [at |-> "pictures", since |-> now, panel |-> panelOf]]
  <2> DEFINE mine == [at |-> "pictures", since |-> now, panel |-> panelOf]
  <2>1. Timely(mine)
    BY <1>2, <1>6 DEF Timely
  <2>2. calls' = [calls EXCEPT ![c] = mine]
    BY <1>6
  <2> HIDE DEF mine
  <2> QED
    BY <1>1, <2>1, <2>2, CallGoes DEF LensIInv
<1> QED
  BY <1>4, <1>5, <1>6

LEMMA PicturedKeeps ==
    ASSUME LensIInv, NEW c \in Callers, Lens!Pictured(c)
    PROVE  LensIInv'
<1>1. /\ calls[c].at = "pictures" /\ now' = now
      /\ calls' = [calls EXCEPT ![c] = Lens!Over(calls[c].panel)]
      /\ Lens!Put(Picture, Lens!NoPage, now) \/ cache' = cache
  BY DEF Lens!Pictured, Lens!At, LensIInv
<1>2. /\ now \in Nat /\ CacheSeconds \in Nat /\ Timeout \in Nat
      /\ calls[c].since \in Nat /\ now - calls[c].since <= Timeout
      /\ calls[c].panel.served \in Nat
      /\ calls[c].since - calls[c].panel.served <= CacheSeconds + Timeout
  BY <1>1 DEF Timely, LensIInv
<1>3. now - calls[c].panel.served <= CacheSeconds + 2 * Timeout
  BY <1>2
<1>4. Timely(Lens!Over(calls[c].panel))
  BY <1>2, <1>3 DEF Timely, Lens!Over
<1>5. CacheIsKnown(cache')
  <2>1. now - now <= Timeout
    BY <1>2
  <2> QED
    BY <1>1, <1>2, <2>1, PutIsKnown DEF LensIInv
<1> QED
  BY <1>1, <1>4, <1>5, CallGoes

\* Time passes only while no call is between two awaits and no request has had its time.
LEMMA LensTickKeeps ==
    ASSUME LensIInv, Lens!Tick
    PROVE  LensIInv'
<1>1. /\ now' = now + 1 /\ cache' = cache /\ calls' = calls
      /\ \A c \in Callers : /\ calls[c].at \notin {"got", "over"}
                            /\ calls[c].at \in {"asked", "answered", "pictures"} =>
                                  now - calls[c].since < Timeout
  BY DEF Lens!Tick, Lens!Waiting
<1>2. now \in Nat /\ now' \in Nat /\ Timeout \in Nat
  BY <1>1 DEF LensIInv
<1>3. CacheIsKnown(cache)'
  BY <1>1, <1>2 DEF CacheIsKnown, LensIInv
<1>4. ASSUME NEW c \in Callers PROVE Timely(calls[c])'
  <2>1. Timely(calls[c]) /\ calls'[c] = calls[c]
    BY <1>1 DEF LensIInv
  <2>2. calls[c].at \in {"asked", "answered", "pictures"} =>
            calls[c].since <= now' /\ now' - calls[c].since <= Timeout
    BY <1>1, <1>2, <2>1 DEF Timely
  <2> QED
    BY <1>1, <2>1, <2>2 DEF Timely
<1> QED
  BY <1>1, <1>2, <1>3, <1>4 DEF LensIInv

LEMMA LensStarts == Lens!DataLensAssumption /\ Lens!Init => LensIInv
BY DEF Lens!DataLensAssumption, Lens!Init, Lens!Idle, LensIInv, CacheIsKnown, Timely

LEMMA LensGoes == LensIInv /\ [Lens!Next]_Lens!vars => LensIInv'
<1> SUFFICES ASSUME LensIInv, [Lens!Next]_Lens!vars PROVE LensIInv'
  OBVIOUS
<1>1. CASE UNCHANGED Lens!vars
  BY <1>1 DEF Lens!vars, LensIInv, CacheIsKnown, Timely
<1> QED
  BY <1>1, LensTickKeeps, OpenKeeps, AnswerKeeps, RenderKeeps, EndKeeps, ShowKeeps, PicturedKeeps
     DEF Lens!Next

\* Where a call is, and the address it has in hand.
Placed(mine) ==
    /\ mine.at \in {"idle", "rendering", "asked", "answered", "got", "pictures", "over"}
    /\ mine.at \in {"rendering", "asked", "answered"} => mine.url \in Urls

CacheFits(entries) ==
    /\ IsFiniteSet(DOMAIN entries) /\ Cardinality(DOMAIN entries) <= CacheSize
    /\ DOMAIN entries \subseteq Urls

LensTypes ==
    /\ now \in 0..MaxNow /\ web \in [Lens!Sites -> Pages]
    /\ CacheFits(cache)
    /\ calls = [c \in Callers |-> calls[c]]
    /\ \A c \in Callers : Placed(calls[c])

LEMMA LensCardinality == \A S : Lens!Cardinality(S) = Cardinality(S)
BY Zenon DEF Lens!Cardinality, Cardinality

\* _cache_put(): the cache never has more than its size.
LEMMA PutFits ==
    ASSUME Lens!DataLensAssumption, CacheFits(cache), NEW url \in Urls, NEW got, NEW served,
           Lens!Put(url, got, served)
    PROVE  CacheFits(cache')
<1> DEFINE entry == [at |-> now, page |-> got, served |-> served]
           full == [u \in DOMAIN cache \cup {url} |-> IF u = url THEN entry ELSE cache[u]]
           D == DOMAIN cache \cup {url}
<1>1. IsFiniteSet(D) /\ Cardinality(D) <= CacheSize + 1 /\ D \subseteq Urls /\ DOMAIN full = D
  <2>1. /\ IsFiniteSet(D)
        /\ Cardinality(D) = IF url \in DOMAIN cache THEN Cardinality(DOMAIN cache)
                            ELSE Cardinality(DOMAIN cache) + 1
    BY FS_AddElement DEF CacheFits
  <2>2. Cardinality(DOMAIN cache) \in Nat /\ CacheSize \in Nat
    BY FS_CardinalityType DEF CacheFits, Lens!DataLensAssumption
  <2> QED
    BY <2>1, <2>2 DEF CacheFits
<1>2. \/ Lens!Cardinality(DOMAIN full) <= CacheSize /\ cache' = full
      \/ \E gone \in SUBSET DOMAIN full :
            Lens!Cardinality(gone) = CacheDrop /\ cache' = [u \in DOMAIN full \ gone |-> full[u]]
  BY Zenon DEF Lens!Put
<1> HIDE DEF full
<1>3. CASE Lens!Cardinality(DOMAIN full) <= CacheSize /\ cache' = full
  <2>1. DOMAIN cache' = D
    BY <1>1, <1>3
  <2>2. Cardinality(DOMAIN cache') <= CacheSize
    BY <1>3, LensCardinality
  <2> QED
    BY <1>1, <2>1, <2>2 DEF CacheFits
<1>4. ASSUME NEW gone \in SUBSET DOMAIN full, Lens!Cardinality(gone) = CacheDrop,
             cache' = [u \in DOMAIN full \ gone |-> full[u]]
      PROVE  CacheFits(cache')
  <2>1. DOMAIN cache' = D \ gone
    BY <1>1, <1>4
  <2>2. Cardinality(gone) = CacheDrop
    BY <1>4, LensCardinality, Zenon
  <2>3. D \cap gone = gone
    BY <1>1
  <2>4. IsFiniteSet(D \ gone) /\ Cardinality(D \ gone) = Cardinality(D) - Cardinality(gone)
    BY <1>1, <2>3, FS_Difference
  <2>5. Cardinality(D) \in Nat /\ CacheDrop \in Nat /\ CacheDrop >= 1 /\ CacheSize \in Nat
    BY <1>1, FS_CardinalityType DEF Lens!DataLensAssumption
  <2>6. Cardinality(D \ gone) <= CacheSize
    BY <1>1, <2>2, <2>4, <2>5
  <2> HIDE DEF D
  <2> QED
    BY <1>1, <2>1, <2>4, <2>6 DEF CacheFits
<1> QED
  BY <1>2, <1>3, <1>4

LEMMA CallPlaced ==
    ASSUME LensTypes, NEW c \in Callers, NEW mine, Placed(mine),
           calls' = [calls EXCEPT ![c] = mine], UNCHANGED <<now, web>>, CacheFits(cache')
    PROVE  LensTypes'
<1>1. /\ calls' = [d \in Callers |-> calls'[d]] /\ calls'[c] = mine
      /\ \A d \in Callers \ {c} : calls'[d] = calls[d]
  BY DEF LensTypes
<1>2. \A d \in Callers : Placed(calls'[d])
  BY <1>1 DEF LensTypes
<1>3. CacheFits(cache)' /\ \A d \in Callers : Placed(calls[d])'
  BY <1>2 DEF CacheFits, Placed
<1>4. now' \in 0..MaxNow /\ web' \in [Lens!Sites -> Pages]
  BY DEF LensTypes
<1> QED
  BY <1>1, <1>3, <1>4 DEF LensTypes, Lens!Sites

LEMMA GetPlaced ==
    ASSUME LensTypes, NEW c \in Callers, NEW url \in Urls, NEW view,
           Lens!Get(c, [url |-> url, view |-> view]), UNCHANGED <<now, web, cache>>
    PROVE  LensTypes'
<1> DEFINE got == [at |-> "got", url |-> Final[url], view |-> view, scripted |-> FALSE,
                   page |-> cache[url].page, served |-> cache[url].served]
           asked == [at |-> "asked", url |-> url, view |-> view, since |-> now]
<1>1. calls' = [calls EXCEPT ![c] = got] \/ calls' = [calls EXCEPT ![c] = asked]
  BY DEF Lens!Get
<1>2. Placed(got) /\ Placed(asked) /\ CacheFits(cache')
  BY DEF Placed, LensTypes
<1> HIDE DEF got, asked
<1> QED
  BY <1>1, <1>2, CallPlaced

LEMMA LensTypesKept ==
    Lens!DataLensAssumption /\ LensTypes /\ [Lens!Next]_Lens!vars => LensTypes'
<1> SUFFICES ASSUME Lens!DataLensAssumption, LensTypes, [Lens!Next]_Lens!vars PROVE LensTypes'
  OBVIOUS
<1>1. CASE UNCHANGED Lens!vars
  BY <1>1 DEF Lens!vars, LensTypes, CacheFits, Placed, Lens!Sites
<1>2. CASE Lens!Tick
  <2>1. now' \in 0..MaxNow
    BY <1>2 DEF Lens!Tick, LensTypes, Lens!DataLensAssumption
  <2> QED
    BY <1>2, <2>1 DEF Lens!Tick, LensTypes, CacheFits, Placed, Lens!Sites
<1>3. ASSUME NEW c \in Callers, NEW u \in Urls, NEW view,
             Lens!Open(c, u, view) \/ Lens!OpenChart(c, u)
      PROVE  LensTypes'
  <2>1. UNCHANGED <<now, web, cache>>
    BY <1>3 DEF Lens!Open, Lens!OpenChart
  <2>2. CASE Lens!Get(c, [url |-> u, view |-> view]) \/ Lens!Get(c, [url |-> u, view |-> "chart"])
    BY <2>1, <2>2, GetPlaced
  <2>3. CASE calls' = [calls EXCEPT ![c] = [at |-> "rendering", url |-> u]]
    <3> DEFINE mine == [at |-> "rendering", url |-> u]
    <3>1. Placed(mine) /\ calls' = [calls EXCEPT ![c] = mine] /\ CacheFits(cache')
      BY <2>1, <2>3 DEF Placed, LensTypes
    <3> HIDE DEF mine
    <3> QED
      BY <2>1, <3>1, CallPlaced
  <2> QED
    BY <1>3, <2>2, <2>3 DEF Lens!Open, Lens!OpenChart
<1>4. ASSUME NEW c \in Callers, Lens!Serve(c)
      PROVE  LensTypes'
  <2> DEFINE mine == [at |-> "answered", url |-> calls[c].url, view |-> calls[c].view,
                      since |-> calls[c].since, page |-> web[Final[calls[c].url]], served |-> now]
  <2>1. calls' = [calls EXCEPT ![c] = mine] /\ calls[c].at = "asked" /\ UNCHANGED <<now, web, cache>>
    BY <1>4 DEF Lens!Serve, Lens!At, LensTypes
  <2>2. Placed(mine) /\ CacheFits(cache')
    BY <2>1 DEF Placed, LensTypes
  <2> HIDE DEF mine
  <2> QED
    BY <2>1, <2>2, CallPlaced
<1>5. ASSUME NEW c \in Callers, Lens!Arrive(c)
      PROVE  LensTypes'
  <2> DEFINE mine == [at |-> "got", url |-> Final[calls[c].url], view |-> calls[c].view,
                      scripted |-> FALSE, page |-> calls[c].page, served |-> calls[c].served]
  <2>1. /\ calls' = [calls EXCEPT ![c] = mine] /\ calls[c].at = "answered" /\ UNCHANGED <<now, web>>
        /\ Lens!Put(calls[c].url, calls[c].page, calls[c].served)
    BY <1>5 DEF Lens!Arrive, Lens!At, LensTypes
  <2>2. calls[c].url \in Urls /\ Placed(mine) /\ CacheFits(cache)
    BY <2>1 DEF Placed, LensTypes
  <2> HIDE DEF mine
  <2> QED
    BY <2>1, <2>2, CallPlaced, PutFits
<1>6. ASSUME NEW c \in Callers, Lens!Rendered(c) \/ Lens!RenderFails(c)
      PROVE  LensTypes'
  <2>1. UNCHANGED <<now, web, cache>> /\ calls[c].at = "rendering" /\ calls[c].url \in Urls
    BY <1>6 DEF Lens!Rendered, Lens!RenderFails, Lens!At, LensTypes, Placed
  <2>2. CASE Lens!RenderFails(c)
    BY <2>1, <2>2, GetPlaced DEF Lens!RenderFails
  <2>3. CASE Lens!Rendered(c)
    <3>1. PICK got : calls' = [calls EXCEPT ![c] =
              [at |-> "got", url |-> calls[c].url, view |-> "auto", scripted |-> TRUE, served |-> now,
               page |-> got]]
      BY <2>3 DEF Lens!Rendered, LensTypes
    <3> DEFINE mine == [at |-> "got", url |-> calls[c].url, view |-> "auto", scripted |-> TRUE,
                        served |-> now, page |-> got]
    <3>2. Placed(mine) /\ calls' = [calls EXCEPT ![c] = mine] /\ CacheFits(cache')
      BY <2>1, <3>1 DEF Placed, LensTypes
    <3> HIDE DEF mine
    <3> QED
      BY <2>1, <3>2, CallPlaced
  <2> QED
    BY <1>6, <2>2, <2>3
<1>7. ASSUME NEW c \in Callers, Lens!FetchFails(c) \/ Lens!Done(c)
      PROVE  LensTypes'
  <2>1. Placed(Lens!Over(Lens!NoPage)) /\ Placed(Lens!Idle) /\ CacheFits(cache') /\ UNCHANGED <<now, web, cache>>
    BY <1>7 DEF Placed, Lens!Over, Lens!NoPage, Lens!Idle, Lens!FetchFails, Lens!Done, LensTypes
  <2> QED
    BY <1>7, <2>1, CallPlaced DEF Lens!FetchFails, Lens!Done
<1>8. ASSUME NEW c \in Callers, Lens!Show(c)
      PROVE  LensTypes'
  <2>1. UNCHANGED <<now, web, cache>> /\ CacheFits(cache')
    BY <1>8 DEF Lens!Show, LensTypes
  <2>2. Lens!Over(Lens!NoPage).at = "over" /\ \A p : Lens!Over(p).at = "over"
    BY DEF Lens!Over
  <2>3. \A p : [at |-> "pictures", since |-> now, panel |-> p].at = "pictures"
    OBVIOUS
  <2> DEFINE charted == calls[c].view = "chart"
             raises == Lens!Raises(calls[c].page, calls[c].view)
             waits == Lens!WantsPictures(calls[c]) /\ ~Lens!Hit(Picture)
             asChart == Lens!Over(IF Lens!ChartRows(calls[c].page, 0) = 0 THEN Lens!NoPage
                                 ELSE Lens!ChartPanel(calls[c]))
             nothing == Lens!Over(Lens!NoPage)
             waiting == [at |-> "pictures", since |-> now, panel |-> Lens!Panel(calls[c])]
             asPage == Lens!Over(Lens!Panel(calls[c]))
  <2>5. asChart.at = "over" /\ nothing.at = "over" /\ waiting.at = "pictures" /\ asPage.at = "over"
    BY <2>2, <2>3
  <2> DEFINE mine == IF charted THEN asChart ELSE IF raises THEN nothing
                     ELSE IF waits THEN waiting ELSE asPage
  <2>4. calls' = [calls EXCEPT ![c] = mine]
    BY <1>8 DEF Lens!Show
  <2> HIDE DEF asChart, nothing, waiting, asPage, charted, raises, waits
  <2>6. mine.at \in {"over", "pictures"}
    BY <2>5
  <2> HIDE DEF mine
  <2>7. Placed(mine)
    BY <2>6 DEF Placed
  <2> QED
    BY <2>1, <2>4, <2>7, CallPlaced
<1>9. ASSUME NEW c \in Callers, Lens!Pictured(c)
      PROVE  LensTypes'
  <2>1. /\ UNCHANGED <<now, web>> /\ calls' = [calls EXCEPT ![c] = Lens!Over(calls[c].panel)]
        /\ Lens!Put(Picture, Lens!NoPage, now) \/ cache' = cache
    BY <1>9 DEF Lens!Pictured, LensTypes
  <2>2. Placed(Lens!Over(calls[c].panel)) /\ CacheFits(cache) /\ Picture \in Urls
    BY DEF Placed, Lens!Over, LensTypes, Lens!DataLensAssumption
  <2>3. CacheFits(cache')
    BY <2>1, <2>2, PutFits
  <2> QED
    BY <2>1, <2>2, <2>3, CallPlaced
<1> QED
  BY <1>1, <1>2, <1>3, <1>4, <1>5, <1>6, <1>7, <1>8, <1>9 DEF Lens!Next

\* Both hold always, however calls overlap on the cache.
THEOREM LensInvariance == AllSpec => [](part = "lens" => LensIInv /\ LensTypes)
<1>1. AllInit => (part = "lens" => LensIInv /\ LensTypes)
  <2>1. Lens!DataLensAssumption /\ Lens!Init => LensTypes
    <3>1. Lens!Init => DOMAIN cache = {}
      BY DEF Lens!Init
    <3> QED
      BY <3>1, FS_EmptySet DEF Lens!DataLensAssumption, Lens!Init, Lens!Idle, LensTypes, CacheFits, Placed
  <2> QED
    BY <2>1, PartsAssumption, LensStarts DEF PartsAssumption, AllInit
<1>2. /\ (part = "lens" => LensIInv /\ LensTypes) /\ [AllNext]_AllVars
      => (part = "lens" => LensIInv /\ LensTypes)'
  <2> SUFFICES ASSUME part = "lens" => LensIInv /\ LensTypes, [AllNext]_AllVars, part' = "lens"
               PROVE  (LensIInv /\ LensTypes)'
    OBVIOUS
  <2>1. part = "lens" /\ [Lens!Next]_Lens!vars
    BY DEF AllNext, AllVars, InRun, LensPartVars, LensVars, NotebookVars, NamesVars, DiagramVars, DrawVars, Lens!vars
  <2> QED
    BY <2>1, PartsAssumption, LensGoes, LensTypesKept DEF PartsAssumption
<1> QED
  BY <1>1, <1>2, PTL DEF AllSpec

\* _get(): nothing on the screen was served longer ago than the cache may keep it and
\* two requests may take.
THEOREM PagesAreRecent == AllSpec => []ShownIsRecent
<1>1. LensIInv => Lens!ShownIsRecent
  BY DEF LensIInv, Timely, Lens!ShownIsRecent, Lens!Shows, Lens!At
<1>2. LensIInv /\ LensTypes => Lens!TypeOK
  BY LensCardinality DEF LensIInv, LensTypes, CacheIsKnown, CacheFits, Placed, Lens!TypeOK
<1>3. (part = "lens" => LensIInv /\ LensTypes) => ShownIsRecent
  BY <1>1, <1>2 DEF ShownIsRecent
<1> QED
  BY <1>3, LensInvariance, PTL

-----------------------------------------------------------------------------
(* NotebookNames: for any folders and names, whichever are parts of which *)

\* The number in a copy's name tells it from a notebook of the person's own.
NamesIInv ==
    /\ runs \in Nat
    /\ \A f \in files : f = [folder |-> f.folder, stem |-> f.stem]
    /\ \A f \in copies : f.stem.copy # 0

LEMMA NamesKeep == NamesIInv /\ [Names!Next]_Names!vars => NamesIInv'
<1> SUFFICES ASSUME NamesIInv, [Names!Next]_Names!vars PROVE NamesIInv'
  OBVIOUS
<1>1. CASE UNCHANGED <<files, copies, runs>>
  BY <1>1 DEF NamesIInv
<1>2. CASE Names!Confirm
  <2>1. PICK notebook :
            /\ \/ LET copy == Names!File("executed", Names!CopyStem(notebook))
                  IN files' = files \cup {copy} /\ copies' = copies \cup {copy}
               \/ UNCHANGED <<files, copies>>
            /\ runs' = runs + 1
    BY <1>2 DEF Names!Confirm
  <2> DEFINE copy == Names!File("executed", Names!CopyStem(notebook))
  <2>2. copy.stem.copy = runs + 1 /\ copy = [folder |-> copy.folder, stem |-> copy.stem]
    BY DEF Names!File, Names!CopyStem
  <2>3. files' \subseteq files \cup {copy} /\ copies' \subseteq copies \cup {copy}
    BY <2>1
  <2> HIDE DEF copy
  <2> QED
    BY <2>1, <2>2, <2>3 DEF NamesIInv
<1>3. CASE Names!Edit
  <2>1. PICK f \in Names!OwnFiles :
            files' \in {files \cup {f}, files \ {f}} /\ copies' = copies \ {f} /\ runs' = runs
    BY <1>3 DEF Names!Edit
  <2>2. f = [folder |-> f.folder, stem |-> f.stem]
    BY DEF Names!OwnFiles, Names!File
  <2> QED
    BY <2>1, <2>2 DEF NamesIInv
<1> QED
  BY <1>1, <1>2, <1>3 DEF Names!Next, Names!vars, Names!LookUp

LEMMA NamesCardinality == \A S : Names!Cardinality(S) = Cardinality(S)
BY Zenon DEF Names!Cardinality, Cardinality

\* Copies are notebooks on the server, one per run.
NamesTypes ==
    /\ \A f \in files : f.stem.title \in Titles /\ f.stem.copy \in 0..MaxRuns
    /\ runs \in 0..MaxRuns /\ copies \subseteq files

\* What a name finds is there.
LEMMA ResolvedIsThere == ASSUME NEW name, Names!Resolved(name) # Names!None PROVE Names!Resolved(name) \in files
<1> DEFINE matches == IF Names!ByPath(name) # {} THEN Names!ByPath(name)
                      ELSE IF Names!ByStem(name) # {} THEN Names!ByStem(name) ELSE Names!ByPart(name)
<1>1. matches \subseteq files
  BY DEF Names!ByPath, Names!ByStem, Names!ByPart, Names!Listed
<1>2. Names!Cardinality(matches) = 1 /\ Names!Resolved(name) = CHOOSE f \in matches : TRUE
  BY DEF Names!Resolved
<1>3. matches # {}
  <2>1. Names!Cardinality({}) = 0
    BY NamesCardinality, FS_EmptySet, Zenon
  <2> QED
    BY <1>2, <2>1
<1> HIDE DEF matches
<1> QED
  BY <1>1, <1>2, <1>3

LEMMA NamesTypesKept ==
    Names!NotebookNamesAssumption /\ NamesTypes /\ [Names!Next]_Names!vars => NamesTypes'
<1> SUFFICES ASSUME Names!NotebookNamesAssumption, NamesTypes, [Names!Next]_Names!vars PROVE NamesTypes'
  OBVIOUS
<1>1. CASE UNCHANGED <<files, copies, runs>>
  BY <1>1 DEF NamesTypes
<1>2. CASE Names!Confirm
  <2> DEFINE notebook == Names!Resolved(Names!File(Names!Root, found.stem))
             copy == Names!File("executed", Names!CopyStem(notebook))
  <2>1. /\ runs < MaxRuns /\ runs' = runs + 1 /\ notebook # Names!None
        /\ \/ files' = files \cup {copy} /\ copies' = copies \cup {copy}
           \/ UNCHANGED <<files, copies>>
    BY <1>2 DEF Names!Confirm
  <2>2. notebook.stem.title \in Titles
    BY <2>1, ResolvedIsThere DEF NamesTypes
  <2> HIDE DEF notebook
  <2>3. copy.stem.title \in Titles /\ copy.stem.copy = runs + 1
    BY <2>2 DEF Names!File, Names!CopyStem
  <2> HIDE DEF copy
  <2>4. MaxRuns \in Nat /\ runs \in 0..MaxRuns /\ runs + 1 \in 0..MaxRuns
    BY <2>1 DEF Names!NotebookNamesAssumption, NamesTypes
  <2>5. \A f \in files' : f.stem.title \in Titles /\ f.stem.copy \in 0..MaxRuns
    BY <2>1, <2>3, <2>4 DEF NamesTypes
  <2>6. copies' \subseteq files'
    BY <2>1 DEF NamesTypes
  <2> QED
    BY <2>1, <2>4, <2>5, <2>6 DEF NamesTypes
<1>3. CASE Names!Edit
  <2>1. PICK f \in Names!OwnFiles :
            files' \in {files \cup {f}, files \ {f}} /\ copies' = copies \ {f} /\ runs' = runs
    BY <1>3 DEF Names!Edit
  <2>2. f.stem.title \in Titles /\ f.stem.copy = 0
    BY DEF Names!OwnFiles, Names!File, Names!Own
  <2>3. MaxRuns \in Nat /\ 0 \in 0..MaxRuns
    BY DEF Names!NotebookNamesAssumption
  <2> QED
    BY <2>1, <2>2, <2>3 DEF NamesTypes
<1> QED
  BY <1>1, <1>2, <1>3 DEF Names!Next, Names!vars, Names!LookUp

LEMMA NamesHold == NamesIInv => Names!CopiesStayApart
<1> SUFFICES ASSUME NamesIInv, NEW name \in Names!Names
             PROVE  LET own == {f \in files \ copies : f.stem = name.stem}
                    IN /\ name \in own => Names!Resolved(name) = name
                       /\ Names!Cardinality(own) = 1 /\ name.folder = Names!Root =>
                             Names!Resolved(name) \in own
  BY DEF Names!CopiesStayApart
<1> DEFINE own == {f \in files \ copies : f.stem = name.stem}
           byPath == Names!ByPath(name)
           byStem == Names!ByStem(name)
<1>1. name.stem.copy = 0 /\ name = [folder |-> name.folder, stem |-> name.stem]
  BY DEF Names!Names, Names!File, Names!Own
<1>2. own = {f \in files : f.stem = name.stem}
  BY <1>1 DEF NamesIInv
<1>3. byPath = {f \in files : f.stem = name.stem /\ f.folder = name.folder}
  BY DEF Names!ByPath, Names!Listed
<1>4. byPath \subseteq own /\ \A f \in byPath : f = name
  BY <1>1, <1>2, <1>3 DEF NamesIInv
<1>5. name.folder = Names!Root => byStem = own
  BY <1>2 DEF Names!ByStem, Names!Listed
<1>6. name \in own => byPath # {}
  BY <1>3
<1> HIDE DEF own, byPath, byStem
<1>7. ASSUME byPath # {}
      PROVE  Names!Resolved(name) = name /\ name \in own
  <2>1. byPath = {name}
    BY <1>4, <1>7
  <2>2. Names!Cardinality(byPath) = 1
    BY <2>1, FS_Singleton, NamesCardinality
  <2>3. Names!Resolved(name) = CHOOSE f \in byPath : TRUE
    BY <1>7, <2>2 DEF Names!Resolved, byPath
  <2> QED
    BY <1>4, <2>1, <2>3
<1>8. ASSUME byPath = {}, name.folder = Names!Root, Names!Cardinality(own) = 1
      PROVE  Names!Resolved(name) \in own
  <2>1. own # {}
    BY <1>8, FS_EmptySet, NamesCardinality
  <2>2. Names!Resolved(name) = CHOOSE f \in own : TRUE
    BY <1>5, <1>8, <2>1 DEF Names!Resolved, byPath, byStem
  <2> QED
    BY <2>1, <2>2
<1>9. /\ name \in own => Names!Resolved(name) = name
      /\ Names!Cardinality(own) = 1 /\ name.folder = Names!Root => Names!Resolved(name) \in own
  BY <1>6, <1>7, <1>8
<1> QED
  BY <1>9 DEF own

\* Both hold always, whatever is run and edited.
THEOREM NamesInvariance == AllSpec => [](part = "names" => NamesIInv /\ NamesTypes)
<1>1. AllInit => (part = "names" => NamesIInv /\ NamesTypes)
  <2>1. Names!NotebookNamesAssumption /\ Names!Init => NamesIInv /\ NamesTypes
    BY DEF Names!NotebookNamesAssumption, Names!Init, Names!OwnFiles, Names!File, Names!Own,
           NamesIInv, NamesTypes
  <2> QED
    BY <2>1, PartsAssumption DEF PartsAssumption, AllInit
<1>2. /\ (part = "names" => NamesIInv /\ NamesTypes) /\ [AllNext]_AllVars
      => (part = "names" => NamesIInv /\ NamesTypes)'
  <2> SUFFICES ASSUME part = "names" => NamesIInv /\ NamesTypes, [AllNext]_AllVars, part' = "names"
               PROVE  (NamesIInv /\ NamesTypes)'
    OBVIOUS
  <2>1. part = "names" /\ [Names!Next]_Names!vars
    BY DEF AllNext, AllVars, InRun, LensPartVars, LensVars, NotebookVars, NamesVars, DiagramVars, DrawVars, Names!vars
  <2> QED
    BY <2>1, PartsAssumption, NamesKeep, NamesTypesKept DEF PartsAssumption
<1> QED
  BY <1>1, <1>2, PTL DEF AllSpec

\* resolve_notebook_remote(): a path, or the whole name of one notebook, finds it whatever
\* copies lie beside it.
THEOREM NamesFindTheirOwn == AllSpec => []CopiesStayApart
<1>1. (part = "names" => NamesIInv /\ NamesTypes) => CopiesStayApart
  BY NamesHold DEF NamesTypes, Names!TypeOK, CopiesStayApart
<1> QED
  BY <1>1, NamesInvariance, PTL

-----------------------------------------------------------------------------
(* DiagramTool: for any documents, titles, calls at a time and changes of the checkout *)

\* A call that has drawn: its file is what it wrote, or says that another call took the
\* name in the same second.
Drawn(ask) == ask.at = "checking" \/ (ask.at = "over" /\ ask.said = "rendered")
Sound(folder, ask) ==
    /\ ask = [at |-> ask.at, said |-> "rendered", doc |-> ask.doc, title |-> ask.title,
              path |-> ask.path, saved |-> ask.saved, check |-> ask.check]
    /\ ask.path = <<ask.title, ask.saved>> /\ ask.path \in DOMAIN folder
    /\ ask.at = "checking" => ask.check = "skipped"
    /\ \/ folder[ask.path].doc = ask.doc /\ (ask.check = "passed" => ask.doc \in Good)
       \/ folder[ask.path].twice /\ folder[ask.path].second = ask.saved

DrawIInv ==
    /\ asks = [c \in Callers |-> asks[c]]
    /\ \A p \in DOMAIN disk : disk[p].second = p[2]
    /\ \A c \in Callers : Drawn(asks[c]) => Sound(disk, asks[c])

\* A call goes on that has not drawn, and the file system stays as it is.
LEMMA OtherCallsKeep ==
    ASSUME DrawIInv, NEW c \in Callers, disk' = disk,
           asks' = [x \in Callers |-> asks'[x]],
           \A x \in Callers \ {c} : asks'[x] = asks[x],
           Drawn(asks'[c]) => asks'[c] = asks[c]
    PROVE  DrawIInv'
<1>1. ASSUME NEW x \in Callers, Drawn(asks'[x]) PROVE Sound(disk', asks'[x])
  BY <1>1 DEF DrawIInv
<1>2. \A p \in DOMAIN disk' : disk'[p].second = p[2]
  BY DEF DrawIInv
<1> QED
  BY <1>1, <1>2 DEF DrawIInv, Drawn

LEMMA RenderingKeeps ==
    ASSUME DrawIInv, NEW c \in Callers, NEW doc \in Documents, NEW title \in DiagramTitles,
           Draw!Render(c, doc, title)
    PROVE  DrawIInv'
<1> DEFINE path == <<title, second>>
           written == [doc |-> doc, second |-> second,
                    twice |-> path \in DOMAIN disk /\ disk[path].second = second]
           place == IF Draw!Local THEN "checking" ELSE "over"
           ask == [at |-> place, said |-> "rendered", doc |-> doc, title |-> title, path |-> path,
                   saved |-> second, check |-> "skipped"]
<1>1. /\ disk' = [p \in DOMAIN disk \cup {path} |-> IF p # path THEN disk[p]
                    ELSE [doc |-> doc, second |-> second,
                          twice |-> p \in DOMAIN disk /\ disk[p].second = second]]
      /\ asks' = [asks EXCEPT ![c] = ask]
  BY DEF Draw!Render, Draw!PathFor
<1>2. path[1] = title /\ path[2] = second
  OBVIOUS
<1>3. /\ written.doc = doc /\ written.second = second
      /\ path \in DOMAIN disk => written.twice
  <2>1. written.twice = (path \in DOMAIN disk /\ disk[path].second = second)
    OBVIOUS
  <2> QED
    BY <1>2, <2>1 DEF DrawIInv
<1>4. DOMAIN disk' = DOMAIN disk \cup {path} /\ disk'[path] = written
  BY <1>1
<1>5. \A p \in DOMAIN disk : p # path => disk'[p] = disk[p]
  BY <1>1
<1>6. /\ ask.at = place /\ ask.doc = doc /\ ask.title = title /\ ask.path = path /\ ask.saved = second
      /\ ask.check = "skipped"
      /\ ask = [at |-> ask.at, said |-> "rendered", doc |-> ask.doc, title |-> ask.title,
                path |-> ask.path, saved |-> ask.saved, check |-> ask.check]
  OBVIOUS
<1> HIDE DEF ask, written, place
<1>7. asks' = [x \in Callers |-> asks'[x]] /\ asks'[c] = ask /\ \A x \in Callers \ {c} : asks'[x] = asks[x]
  BY <1>1 DEF DrawIInv
<1>8. \A p \in DOMAIN disk' : disk'[p].second = p[2]
  BY <1>2, <1>3, <1>4, <1>5 DEF DrawIInv
<1>9. Sound(disk', asks'[c])
  <2>1. Sound(disk', ask)
    BY <1>3, <1>4, <1>6 DEF Sound
  <2> QED
    BY <1>7, <2>1 DEF Sound
<1>10. ASSUME NEW x \in Callers \ {c}, Drawn(asks[x]) PROVE Sound(disk', asks[x])
  <2> DEFINE a == asks[x]
  <2>1. Sound(disk, a)
    BY <1>10 DEF DrawIInv
  <2>2. CASE a.path # path
    BY <1>4, <1>5, <2>1, <2>2, <1>7 DEF Sound
  <2>3. CASE a.path = path
    <3>1. a.saved = second /\ path \in DOMAIN disk
      BY <2>1, <2>3 DEF Sound
    <3> QED
      BY <1>3, <1>4, <1>7, <2>1, <2>3, <3>1 DEF Sound
  <2> QED
    BY <2>2, <2>3
<1>11. ASSUME NEW x \in Callers \ {c}, Drawn(asks'[x]) PROVE Sound(disk', asks'[x])
  BY <1>7, <1>10, <1>11 DEF Sound
<1> QED
  BY <1>7, <1>8, <1>9, <1>11 DEF DrawIInv, Drawn

\* The check reads the file as it is by then.
LEMMA CheckKeeps ==
    ASSUME DrawIInv, NEW c \in Callers, Draw!Check(c)
    PROVE  DrawIInv'
<1> DEFINE a == asks[c]
<1>1. a.at = "checking" /\ Sound(disk, a) /\ disk' = disk
  BY DEF Draw!Check, Draw!At, Draw!Sources, DrawIInv, Drawn
<1>2. PICK check \in {"failed", IF disk[a.path].doc \in Good THEN "passed" ELSE "failed"} :
          asks' = [asks EXCEPT ![c].at = "over", ![c].check = check]
  BY DEF Draw!Check
<1>3. check = "passed" => disk[a.path].doc \in Good
  BY <1>2
<1>4. asks'[c] = [at |-> "over", said |-> "rendered", doc |-> a.doc, title |-> a.title,
                  path |-> a.path, saved |-> a.saved, check |-> check]
  <2> DEFINE doc == a.doc
             title == a.title
             path == a.path
             saved == a.saved
             old == a.check
             at == a.at
  <2>1. a = [at |-> at, said |-> "rendered", doc |-> doc, title |-> title, path |-> path,
             saved |-> saved, check |-> old]
    BY <1>1 DEF Sound
  <2>2. asks'[c] = [a EXCEPT !.at = "over", !.check = check]
    BY <1>2 DEF DrawIInv
  <2> HIDE DEF a, doc, title, path, saved, old, at
  <2>3. asks'[c] = [at |-> "over", said |-> "rendered", doc |-> doc, title |-> title, path |-> path,
                    saved |-> saved, check |-> check]
    BY ONLY <2>1, <2>2
  <2> QED
    BY <2>3 DEF doc, title, path, saved
<1>5. asks' = [x \in Callers |-> asks'[x]] /\ \A x \in Callers \ {c} : asks'[x] = asks[x]
  BY <1>2 DEF DrawIInv
<1>6. Sound(disk', asks'[c])
  <2> DEFINE b == asks'[c]
  <2>1. b.doc = a.doc /\ b.title = a.title /\ b.path = a.path /\ b.saved = a.saved /\ b.check = check /\ b.at = "over"
    BY <1>4
  <2>2. b = [at |-> b.at, said |-> "rendered", doc |-> b.doc, title |-> b.title,
             path |-> b.path, saved |-> b.saved, check |-> b.check]
    BY <1>4
  <2> QED
    BY <1>1, <1>3, <2>1, <2>2 DEF Sound
<1>7. ASSUME NEW x \in Callers \ {c}, Drawn(asks'[x]) PROVE Sound(disk', asks'[x])
  BY <1>1, <1>5, <1>7 DEF DrawIInv, Sound
<1>8. \A p \in DOMAIN disk' : disk'[p].second = p[2]
  BY <1>1 DEF DrawIInv
<1> QED
  BY <1>5, <1>6, <1>7, <1>8 DEF DrawIInv, Drawn

\* Calls that read, and the end of a call.
LEMMA ReadersKeep ==
    ASSUME DrawIInv, NEW c \in Callers,
           \/ Draw!Fetch(c) \/ Draw!Guide(c) \/ Draw!Guided(c) \/ Draw!TypeFound(c) \/ Draw!RulesRead(c)
           \/ Draw!ExampleRead(c) \/ Draw!TemplateRead(c) \/ Draw!RenderFault(c) \/ Draw!Done(c)
           \/ \E asked \in Asked : Draw!Reference(c, asked)
    PROVE  DrawIInv'
<1>1. disk' = disk
  BY DEF Draw!Fetch, Draw!Guide, Draw!Guided, Draw!TypeFound, Draw!RulesRead, Draw!ExampleRead,
         Draw!TemplateRead, Draw!RenderFault, Draw!Done, Draw!Reference, Draw!Sources
<1>2. /\ asks' = [x \in Callers |-> asks'[x]]
      /\ \A x \in Callers \ {c} : asks'[x] = asks[x]
  BY DEF Draw!Fetch, Draw!Guide, Draw!Guided, Draw!TypeFound, Draw!RulesRead, Draw!ExampleRead,
         Draw!TemplateRead, Draw!RenderFault, Draw!Done, Draw!Reference, Draw!Answer, Draw!Want,
         Draw!Referred, DrawIInv
<1>3. CASE Draw!Fetch(c)
  <2>1. asks' = asks \/ asks'[c] = [at |-> "over", said |-> "unavailable"]
    BY <1>3 DEF Draw!Fetch, DrawIInv
  <2> QED
    BY <1>1, <1>2, <2>1, OtherCallsKeep DEF Drawn
<1>4. CASE Draw!Guide(c)
  <2>1. asks'[c].at = "guide"
    BY <1>4 DEF Draw!Guide, DrawIInv
  <2> QED
    BY <1>1, <1>2, <2>1, OtherCallsKeep DEF Drawn
<1>5. CASE Draw!Guided(c)
  <2>1. asks'[c].at = "over" /\ asks'[c].said \in {"guide", "unavailable"}
    BY <1>5 DEF Draw!Guided, Draw!Answer, DrawIInv
  <2> QED
    BY <1>1, <1>2, <2>1, OtherCallsKeep DEF Drawn
<1>6. CASE Draw!TypeFound(c)
  <2>1. \/ asks'[c].at = "rules"
        \/ asks'[c].at = "over" /\ asks'[c].said \in {"unknown", "unavailable"}
    BY <1>6 DEF Draw!TypeFound, Draw!Want, DrawIInv
  <2> QED
    BY <1>1, <1>2, <2>1, OtherCallsKeep DEF Drawn
<1>7. CASE Draw!RulesRead(c) \/ Draw!ExampleRead(c) \/ Draw!TemplateRead(c)
  <2>1. \/ asks'[c].at \in {"example", "template"}
        \/ asks'[c].at = "over" /\ asks'[c].said = "reference"
    BY <1>7 DEF Draw!RulesRead, Draw!ExampleRead, Draw!TemplateRead, Draw!Want, Draw!Referred, DrawIInv
  <2> QED
    BY <1>1, <1>2, <2>1, OtherCallsKeep DEF Drawn
<1>8. CASE Draw!RenderFault(c)
  <2>1. asks'[c].at = "over" /\ asks'[c].said = "fault"
    BY <1>8 DEF Draw!RenderFault, Draw!Answer, DrawIInv
  <2> QED
    BY <1>1, <1>2, <2>1, OtherCallsKeep DEF Drawn
<1>9. CASE Draw!Done(c) \/ \E asked \in Asked : Draw!Reference(c, asked)
  <2>1. asks'[c].at \in {"idle", "table"}
    BY <1>9 DEF Draw!Done, Draw!Idle, Draw!Reference, DrawIInv
  <2> QED
    BY <1>1, <1>2, <2>1, OtherCallsKeep DEF Drawn
<1> QED
  BY <1>3, <1>4, <1>5, <1>6, <1>7, <1>8, <1>9

LEMMA DrawKeeps == DrawIInv /\ [Draw!Next]_Draw!vars => DrawIInv'
<1> SUFFICES ASSUME DrawIInv, [Draw!Next]_Draw!vars PROVE DrawIInv'
  OBVIOUS
<1>1. CASE UNCHANGED <<disk, asks>>
  BY <1>1 DEF DrawIInv, Drawn, Sound
<1>2. CASE Draw!Clone \/ Draw!Upstream \/ Draw!Tick \/ UNCHANGED Draw!vars
  BY <1>1, <1>2 DEF Draw!Clone, Draw!Upstream, Draw!Tick, Draw!vars
<1> QED
  BY <1>2, RenderingKeeps, CheckKeeps, ReadersKeep DEF Draw!Next

\* A call that reads wants files of the skill, for a type of its table.
Wants(ask) ==
    /\ ask.at \in {"guide", "table", "rules", "example", "template"} => ask.wants \subseteq Draw!Files
    /\ ask.at \in {"rules", "example"} => ask.type \in Types

DrawTypes ==
    /\ second \in 0..MaxSecond /\ DOMAIN fetched \subseteq Draw!Files
    /\ \A p \in DOMAIN disk : disk[p].doc \in Documents
    /\ asks = [c \in Callers |-> asks[c]]
    /\ \A c \in Callers : Wants(asks[c])

LEMMA AskGoes ==
    ASSUME DrawTypes, NEW c \in Callers, NEW ask, Wants(ask), asks' = [asks EXCEPT ![c] = ask],
           second' = second, DOMAIN fetched' \subseteq Draw!Files,
           \A p \in DOMAIN disk' : disk'[p].doc \in Documents
    PROVE  DrawTypes'
<1>1. /\ asks' = [d \in Callers |-> asks'[d]] /\ asks'[c] = ask
      /\ \A d \in Callers \ {c} : asks'[d] = asks[d]
  BY DEF DrawTypes
<1>2. \A d \in Callers : Wants(asks[d])'
  BY <1>1 DEF Wants, DrawTypes
<1>3. second' \in 0..MaxSecond
  BY DEF DrawTypes
<1> QED
  BY <1>1, <1>2, <1>3 DEF DrawTypes

LEMMA DrawTypesKept ==
    Draw!DiagramToolAssumption /\ DrawTypes /\ [Draw!Next]_Draw!vars => DrawTypes'
<1> SUFFICES ASSUME Draw!DiagramToolAssumption, DrawTypes, [Draw!Next]_Draw!vars PROVE DrawTypes'
  OBVIOUS
<1>1. CASE UNCHANGED <<second, fetched, disk, asks>>
  BY <1>1 DEF DrawTypes, Wants
<1>2. CASE Draw!Tick
  <2>1. second' \in 0..MaxSecond
    BY <1>2 DEF Draw!Tick, DrawTypes, Draw!DiagramToolAssumption
  <2> QED
    BY <1>2, <2>1 DEF Draw!Tick, DrawTypes, Wants
<1>3. ASSUME NEW c \in Callers, Draw!Fetch(c)
      PROVE  DrawTypes'
  <2>1. PICK f \in asks[c].wants :
            \/ /\ fetched' = [g \in DOMAIN fetched \cup {f} |-> IF g = f THEN f \in github ELSE fetched[g]]
               /\ asks' = asks
            \/ asks' = [asks EXCEPT ![c] = [at |-> "over", said |-> "unavailable"]] /\ fetched' = fetched
    BY <1>3 DEF Draw!Fetch
  <2>2. f \in Draw!Files /\ UNCHANGED <<second, disk>>
    BY <1>3 DEF Draw!Fetch, DrawTypes, Wants
  <2>3. CASE asks' = asks
    <3>1. DOMAIN fetched' \subseteq Draw!Files
      BY <2>1, <2>2, <2>3 DEF DrawTypes
    <3> QED
      BY <2>2, <2>3, <3>1 DEF DrawTypes, Wants
  <2>4. CASE asks' = [asks EXCEPT ![c] = [at |-> "over", said |-> "unavailable"]] /\ fetched' = fetched
    <3> DEFINE ask == [at |-> "over", said |-> "unavailable"]
    <3>1. Wants(ask)
      BY DEF Wants
    <3>2. asks' = [asks EXCEPT ![c] = ask] /\ UNCHANGED <<second, fetched, disk>>
      BY <2>2, <2>4
    <3> HIDE DEF ask
    <3> QED
      BY <3>1, <3>2, AskGoes DEF DrawTypes
  <2> QED
    BY <2>1, <2>3, <2>4
<1>4. ASSUME NEW c \in Callers,
             \/ Draw!Guide(c) \/ Draw!Guided(c) \/ Draw!TypeFound(c) \/ Draw!RulesRead(c) \/ Draw!ExampleRead(c)
             \/ Draw!TemplateRead(c) \/ Draw!RenderFault(c) \/ Draw!Check(c) \/ Draw!Done(c)
             \/ \E asked \in Asked : Draw!Reference(c, asked)
      PROVE  DrawTypes'
  <2>1. UNCHANGED <<second, fetched, disk>>
    BY <1>4 DEF Draw!Guide, Draw!Guided, Draw!TypeFound, Draw!RulesRead, Draw!ExampleRead, Draw!TemplateRead,
                Draw!RenderFault, Draw!Check, Draw!Done, Draw!Reference, Draw!Sources
  <2>2. asks' = [d \in Callers |-> asks'[d]] /\ \A d \in Callers \ {c} : asks'[d] = asks[d]
    BY <1>4 DEF Draw!Guide, Draw!Guided, Draw!TypeFound, Draw!RulesRead, Draw!ExampleRead, Draw!TemplateRead,
                Draw!RenderFault, Draw!Check, Draw!Done, Draw!Reference, Draw!Answer, Draw!Want, Draw!Referred,
                DrawTypes
  <2>3. Wants(asks'[c])
    <3>1. CASE Draw!Guide(c)
      BY <3>1 DEF Draw!Guide, Draw!Files, Wants, DrawTypes
    <3>2. CASE \E asked \in Asked : Draw!Reference(c, asked)
      BY <3>2 DEF Draw!Reference, Draw!Files, Wants, DrawTypes
    <3>3. CASE Draw!TypeFound(c)
      <4>1. Draw!Resolved(asks[c].asked) \subseteq Types
        BY DEF Draw!Resolved, Draw!Listed
      <4>2. CASE \E type \in Draw!Resolved(asks[c].asked) : Draw!Want(c, "rules", type, {Draw!Rules(type)})
        <5>1. PICK type \in Types : Draw!Want(c, "rules", type, {Draw!Rules(type)})
          BY <4>1, <4>2
        <5>2. asks'[c].at = "rules" /\ asks'[c].type = type /\ asks'[c].wants = {Draw!Rules(type)}
          BY <5>1 DEF Draw!Want, DrawTypes
        <5> QED
          BY <5>2 DEF Wants, Draw!Files
      <4>3. CASE asks' = [asks EXCEPT ![c] =
                    [at |-> "over", said |-> IF Draw!Read(Draw!Skill) THEN "unknown" ELSE "unavailable",
                     asked |-> @.asked]]
        <5>1. asks'[c].at = "over"
          BY <4>3 DEF DrawTypes
        <5> QED
          BY <5>1 DEF Wants
      <4> QED
        BY <3>3, <4>2, <4>3 DEF Draw!TypeFound
    <3>4. CASE Draw!RulesRead(c)
      <4>1. asks[c].type \in Types
        BY <3>4 DEF Draw!RulesRead, Draw!Has, Draw!At, DrawTypes, Wants
      <4>2. \/ /\ asks'[c].at = "example" /\ asks'[c].type = asks[c].type
               /\ asks'[c].wants = {Draw!Example(asks[c].type)}
            \/ asks'[c].at = "over"
        BY <3>4 DEF Draw!RulesRead, Draw!Want, Draw!Referred, DrawTypes
      <4> QED
        BY <4>1, <4>2 DEF Wants, Draw!Files
    <3>5. CASE Draw!ExampleRead(c)
      <4>1. \/ asks'[c].at = "template" /\ asks'[c].wants = {Draw!Template}
            \/ asks'[c].at = "over"
        BY <3>5 DEF Draw!ExampleRead, Draw!Want, Draw!Referred, DrawTypes
      <4> QED
        BY <4>1 DEF Wants, Draw!Files
    <3>6. CASE Draw!Guided(c) \/ Draw!TemplateRead(c) \/ Draw!RenderFault(c) \/ Draw!Done(c)
      <4>1. asks'[c].at \in {"idle", "over"}
        BY <3>6 DEF Draw!Guided, Draw!TemplateRead, Draw!RenderFault, Draw!Done, Draw!Answer,
                    Draw!Referred, Draw!Idle, DrawTypes
      <4> QED
        BY <4>1 DEF Wants
    <3>7. CASE Draw!Check(c)
      <4>1. PICK check : asks' = [asks EXCEPT ![c].at = "over", ![c].check = check]
        BY <3>7 DEF Draw!Check
      <4>2. asks'[c] = [[asks[c] EXCEPT !.at = "over"] EXCEPT !.check = check]
        BY <4>1 DEF DrawTypes
      <4>3. asks'[c].at = "over" \/ asks'[c].at \notin {"guide", "table", "rules", "example", "template"}
        BY <4>2
      <4> QED
        BY <4>3 DEF Wants
    <3> QED
      BY <1>4, <3>1, <3>2, <3>3, <3>4, <3>5, <3>6, <3>7
  <2>4. \A d \in Callers : Wants(asks[d])'
    BY <2>2, <2>3 DEF Wants, DrawTypes
  <2> QED
    BY <2>1, <2>2, <2>4 DEF DrawTypes
<1>5. ASSUME NEW c \in Callers, NEW doc \in Documents, NEW title, Draw!Render(c, doc, title)
      PROVE  DrawTypes'
  <2> DEFINE ask == [at |-> IF Draw!Local THEN "checking" ELSE "over", said |-> "rendered", doc |-> doc,
                     title |-> title, path |-> Draw!PathFor(title), saved |-> second, check |-> "skipped"]
  <2>1. Wants(ask)
    BY DEF Wants
  <2>2. asks' = [asks EXCEPT ![c] = ask] /\ UNCHANGED <<second, fetched>>
    BY <1>5 DEF Draw!Render
  <2>3. \A p \in DOMAIN disk' : disk'[p].doc \in Documents
    <3>1. \A p \in DOMAIN disk' : (p \in DOMAIN disk /\ disk'[p] = disk[p]) \/ disk'[p].doc = doc
      BY <1>5 DEF Draw!Render
    <3> QED
      BY <3>1 DEF DrawTypes
  <2> HIDE DEF ask
  <2> QED
    BY <2>1, <2>2, <2>3, AskGoes DEF DrawTypes
<1>6. CASE Draw!Clone \/ Draw!Upstream \/ UNCHANGED Draw!vars
  BY <1>1, <1>6 DEF Draw!Clone, Draw!Upstream, Draw!vars
<1> QED
  BY <1>2, <1>3, <1>4, <1>5, <1>6 DEF Draw!Next

\* Both hold always.
THEOREM DrawInvariance == AllSpec => [](part = "draw" => DrawIInv /\ DrawTypes)
<1>1. AllInit => (part = "draw" => DrawIInv /\ DrawTypes)
  <2>1. Draw!DiagramToolAssumption /\ Draw!Init => DrawIInv /\ DrawTypes
    BY DEF Draw!DiagramToolAssumption, Draw!Init, Draw!Idle, DrawIInv, Drawn, DrawTypes, Wants
  <2> QED
    BY <2>1, PartsAssumption DEF PartsAssumption, AllInit
<1>2. /\ (part = "draw" => DrawIInv /\ DrawTypes) /\ [AllNext]_AllVars
      => (part = "draw" => DrawIInv /\ DrawTypes)'
  <2> SUFFICES ASSUME part = "draw" => DrawIInv /\ DrawTypes, [AllNext]_AllVars, part' = "draw"
               PROVE  (DrawIInv /\ DrawTypes)'
    OBVIOUS
  <2>1. part = "draw" /\ [Draw!Next]_Draw!vars
    BY DEF AllNext, AllVars, InRun, LensPartVars, LensVars, NotebookVars, NamesVars, DiagramVars, DrawVars, Draw!vars
  <2> QED
    BY <2>1, PartsAssumption, DrawKeeps, DrawTypesKept DEF PartsAssumption
<1> QED
  BY <1>1, <1>2, PTL DEF AllSpec

\* render_diagram(): a saved file is what the model wrote, and what passed is good, but for
\* another render under the same name in the same second.
THEOREM DrawingsStay == AllSpec => []SavedStays
<1>1. DrawIInv => Draw!SavedStays
  BY DEF DrawIInv, Drawn, Sound, Draw!SavedStays, Draw!At
<1>2. (part = "draw" => DrawIInv /\ DrawTypes) => SavedStays
  BY <1>1 DEF DrawTypes, Draw!TypeOK, SavedStays
<1> QED
  BY <1>2, DrawInvariance, PTL

-----------------------------------------------------------------------------
(* DiagramViewer: for any fingers *)

Scales == {1, 2, 4, 8}
Inside(view) == view \in [s : Scales, x : Int] /\ view.x \in 0..32 - (32 \div view.s)

\* Fingers stand apart on the screen, a pinch is of two of them, and one that is alone
\* is the one that drags.
ViewIInv ==
    /\ IsFiniteSet(DOMAIN pts) /\ pts \in [DOMAIN pts -> 0..2]
    /\ \A f, g \in DOMAIN pts : f # g => pts[f] # pts[g]
    /\ Inside(v)
    /\ pinch = View!NoPinch \/ pinch \in [d : 1..2, s : Scales, quarters : 0..4]
    /\ Cardinality(DOMAIN pts) = 1 => \A f \in DOMAIN pts : last = pts[f]

\* The module's cardinality is that of the library.
LEMMA ViewCardinality == \A S : View!Cardinality(S) = Cardinality(S)
BY Zenon DEF View!Cardinality, Cardinality

\* A view whose left end is clipped lies inside the diagram.
LEMMA ClippedInside ==
    ASSUME NEW s \in Scales, NEW x \in Int
    PROVE  Inside(View!Applied(s, x))
<1>1. View!Seen(s) = 32 \div s /\ 32 \div s \in 0..32
  BY DEF View!Seen, View!Width, Scales
<1> DEFINE room == 32 - (32 \div s)
           left == View!Clip(x, 0, room)
<1>2. room \in 0..32
  BY <1>1
<1>3. left \in 0..room
  <2> HIDE DEF room
  <2> QED
    BY <1>2 DEF View!Clip
<1>4. View!Applied(s, x) = [s |-> s, x |-> left]
  BY <1>1 DEF View!Applied, View!Width
<1> HIDE DEF left
<1> QED
  BY <1>2, <1>3, <1>4 DEF Inside

\* Zooming to half or twice a scale stays among the scales.
LEMMA ZoomedInside ==
    ASSUME Inside(v), NEW scale \in {0, 1, 2, 4, 8, 16}, NEW quarters \in Int
    PROVE  Inside(View!Zoomed(scale, quarters))
<1> DEFINE s == View!Clip(scale, 1, View!MaxScale)
           x == v.x + (quarters * (View!Seen(v.s) - View!Seen(s))) \div 4
<1>1. s \in Scales
  BY DEF View!Clip, View!MaxScale, Scales
<1>2. v.x \in Int /\ v.s \in Scales
  BY DEF Inside
<1>3. View!Seen(v.s) \in Int /\ View!Seen(s) \in Int
  <2> HIDE DEF s
  <2> QED
    BY <1>1, <1>2 DEF View!Seen, View!Width, Scales
<1>4. x \in Int
  <2> DEFINE d == View!Seen(v.s) - View!Seen(s)
  <2>1. d \in Int
    BY <1>3
  <2> HIDE DEF d
  <2>2. quarters * d \in Int
    BY <2>1
  <2> QED
    BY <1>2, <2>2 DEF d
<1>5. View!Zoomed(scale, quarters) = View!Applied(s, x)
  BY DEF View!Zoomed
<1> HIDE DEF s, x
<1> QED
  BY <1>1, <1>4, <1>5, ClippedInside

\* Two places of the screen, how far they are apart and where their middle is.
LEMMA PlacesApart ==
    ASSUME NEW S \in SUBSET (0..2), NEW a \in S, NEW b \in S, a # b
    PROVE  View!Max(S) - View!Min(S) \in 1..2 /\ View!Max(S) + View!Min(S) \in 0..4
<1>1. \E x \in S : \A y \in S : x >= y
  <2>1. CASE 2 \in S
    BY <2>1
  <2>2. CASE 2 \notin S /\ 1 \in S
    BY <2>2
  <2>3. CASE 2 \notin S /\ 1 \notin S
    BY <2>3
  <2> QED
    BY <2>1, <2>2, <2>3
<1>2. \E x \in S : \A y \in S : x =< y
  <2>1. CASE 0 \in S
    BY <2>1
  <2>2. CASE 0 \notin S /\ 1 \in S
    BY <2>2
  <2>3. CASE 0 \notin S /\ 1 \notin S
    BY <2>3
  <2> QED
    BY <2>1, <2>2, <2>3
<1>3. View!Max(S) \in S /\ \A y \in S : View!Max(S) >= y
  BY <1>1, Zenon DEF View!Max
<1>4. View!Min(S) \in S /\ \A y \in S : View!Min(S) =< y
  BY <1>2, Zenon DEF View!Min
<1>5. PICK hi \in 0..2, lo \in 0..2 : hi = View!Max(S) /\ lo = View!Min(S)
  BY <1>3, <1>4
<1>6. hi >= a /\ hi >= b /\ lo =< a /\ lo =< b /\ a \in 0..2 /\ b \in 0..2
  BY <1>3, <1>4, <1>5
<1>7. hi - lo \in 1..2 /\ hi + lo \in 0..4
  BY <1>5, <1>6
<1> QED
  BY <1>5, <1>7

\* Two fingers that are apart.
LEMMA FingersApart ==
    ASSUME NEW points, points \in [DOMAIN points -> 0..2],
           \A f, g \in DOMAIN points : f # g => points[f] # points[g],
           IsFiniteSet(DOMAIN points), Cardinality(DOMAIN points) = 2
    PROVE  /\ View!Apart(points) \in 1..2
           /\ View!Max(View!Positions(points)) + View!Min(View!Positions(points)) \in 0..4
<1> DEFINE D == DOMAIN points
           S == View!Positions(points)
<1>1. D # {} /\ \A f \in D : D # {f}
  <2>1. Cardinality({}) = 0 /\ \A f \in D : Cardinality({f}) = 1
    BY FS_EmptySet, FS_Singleton
  <2> QED
    BY <2>1
<1>2. PICK f \in D : TRUE
  BY <1>1
<1>3. PICK g \in D : g # f
  BY <1>1, <1>2
<1>4. S \in SUBSET (0..2) /\ points[f] \in S /\ points[g] \in S /\ points[f] # points[g]
  BY <1>2, <1>3 DEF View!Positions
<1> HIDE DEF S
<1>5. View!Max(S) - View!Min(S) \in 1..2 /\ View!Max(S) + View!Min(S) \in 0..4
  BY <1>4, PlacesApart
<1> QED
  BY <1>5 DEF View!Apart, S

\* A finger is put down.
LEMMA PressKeeps ==
    ASSUME ViewIInv, NEW f, NEW at \in 0..2, View!Press(f, at)
    PROVE  ViewIInv'
<1> DEFINE D == DOMAIN pts
<1>1. /\ IsFiniteSet(D) /\ pts \in [D -> 0..2]
      /\ \A g, h \in D : g # h => pts[g] # pts[h]
      /\ Inside(v)
      /\ pinch = View!NoPinch \/ pinch \in [d : 1..2, s : Scales, quarters : 0..4]
  BY DEF ViewIInv
<1>2. /\ f \notin D /\ \A g \in D : pts[g] # at
      /\ pts' = [g \in D \cup {f} |-> IF g = f THEN at ELSE pts[g]]
      /\ last' = IF D = {} THEN at ELSE last
      /\ pinch' = IF Cardinality(D) = 1
                  THEN [d |-> View!Apart(pts'), s |-> v.s,
                        quarters |-> View!Max(View!Positions(pts')) + View!Min(View!Positions(pts'))]
                  ELSE pinch
      /\ v' = v
  BY ViewCardinality DEF View!Press, View!Down, View!Free
<1>3. DOMAIN pts' = D \cup {f}
  BY <1>2
<1>4. /\ \A g \in D : pts'[g] = pts[g]
      /\ pts'[f] = at
  BY <1>2
<1>5. pts' \in [DOMAIN pts' -> 0..2]
  BY <1>1, <1>2, <1>3, <1>4
<1>6. \A g, h \in DOMAIN pts' : g # h => pts'[g] # pts'[h]
  BY <1>1, <1>2, <1>3, <1>4
<1>7. /\ IsFiniteSet(DOMAIN pts') /\ Cardinality(DOMAIN pts') = Cardinality(D) + 1
      /\ Cardinality(D) \in Nat
  BY <1>1, <1>2, <1>3, FS_AddElement, FS_CardinalityType
<1>8. Inside(v)'
  BY <1>1, <1>2 DEF Inside
<1>9. pinch' = View!NoPinch \/ pinch' \in [d : 1..2, s : Scales, quarters : 0..4]
  <2>1. CASE Cardinality(D) = 1
    <3>1. Cardinality(DOMAIN pts') = 2
      BY <1>7, <2>1
    <3>2. /\ View!Apart(pts') \in 1..2
          /\ View!Max(View!Positions(pts')) + View!Min(View!Positions(pts')) \in 0..4
      <4>1. PICK q : q = pts'
        OBVIOUS
      <4> QED
        BY <1>5, <1>6, <1>7, <3>1, <4>1, FingersApart
    <3> QED
      BY <1>1, <1>2, <2>1, <3>2 DEF Inside
  <2>2. CASE Cardinality(D) # 1
    BY <1>1, <1>2, <2>2
  <2> QED
    BY <2>1, <2>2
<1>10. Cardinality(DOMAIN pts') = 1 => \A g \in DOMAIN pts' : last' = pts'[g]
  <2> SUFFICES ASSUME Cardinality(DOMAIN pts') = 1 PROVE \A g \in DOMAIN pts' : last' = pts'[g]
    OBVIOUS
  <2>1. D = {}
    BY <1>1, <1>7, FS_EmptySet
  <2> QED
    BY <1>2, <1>3, <1>4, <2>1
<1>11. View!NoPinch' = View!NoPinch
  BY DEF View!NoPinch
<1> QED
  BY <1>5, <1>6, <1>7, <1>8, <1>9, <1>10, <1>11 DEF ViewIInv

\* A finger moves: alone it drags, of two it zooms, of three it does nothing.
LEMMA MoveKeeps ==
    ASSUME ViewIInv, NEW f, NEW at \in 0..2, View!Move(f, at)
    PROVE  ViewIInv'
<1> DEFINE D == DOMAIN pts
<1>1. /\ IsFiniteSet(D) /\ pts \in [D -> 0..2]
      /\ \A g, h \in D : g # h => pts[g] # pts[h]
      /\ Inside(v)
      /\ pinch = View!NoPinch \/ pinch \in [d : 1..2, s : Scales, quarters : 0..4]
      /\ Cardinality(D) = 1 => \A g \in D : last = pts[g]
  BY DEF ViewIInv
<1>2. /\ f \in D /\ \A g \in D \ {f} : pts[g] # at
      /\ pts' = [pts EXCEPT ![f] = at] /\ pinch' = pinch
  BY DEF View!Move, View!Down
<1>3. /\ DOMAIN pts' = D /\ pts'[f] = at
      /\ \A g \in D \ {f} : pts'[g] = pts[g]
  BY <1>1, <1>2
<1>4. pts' \in [DOMAIN pts' -> 0..2]
  BY <1>1, <1>2, <1>3
<1>5. \A g, h \in DOMAIN pts' : g # h => pts'[g] # pts'[h]
  BY <1>1, <1>2, <1>3
<1>6. Inside(v)' /\ (Cardinality(D) = 1 => last' = at)
  <2>1. CASE Cardinality(D) = 2 /\ pinch # View!NoPinch
    <3>1. v' = View!Zoomed((pinch.s * View!Apart(pts')) \div pinch.d, pinch.quarters)
      BY <2>1, ViewCardinality DEF View!Move, View!Down
    <3>2. View!Apart(pts') \in 1..2
      <4>1. PICK q : q = pts'
        OBVIOUS
      <4> QED
        BY <1>1, <1>3, <1>4, <1>5, <2>1, <4>1, FingersApart
    <3>3. pinch.s \in Scales /\ pinch.d \in 1..2 /\ pinch.quarters \in Int
      BY <1>1, <2>1
    <3> DEFINE scale == (pinch.s * View!Apart(pts')) \div pinch.d
    <3>4. scale \in {0, 1, 2, 4, 8, 16}
      <4>1. PICK a \in {1, 2}, s \in {1, 2, 4, 8}, d \in {1, 2} : a = View!Apart(pts') /\ s = pinch.s /\ d = pinch.d
        BY <3>2, <3>3 DEF Scales
      <4>2. s * a \in {1, 2, 4, 8, 16}
        BY <4>1
      <4>3. (s * a) \div d \in {0, 1, 2, 4, 8, 16}
        BY <4>1, <4>2
      <4> QED
        BY <4>1, <4>3
    <3>5. PICK k \in {0, 1, 2, 4, 8, 16}, q \in Int : k = scale /\ q = pinch.quarters
      BY <3>3, <3>4
    <3>6. Inside(View!Zoomed(k, q))
      BY <1>1, <3>5, ZoomedInside
    <3> HIDE DEF scale
    <3>7. v' = View!Zoomed(k, q)
      BY <3>1, <3>5 DEF scale
    <3> QED
      BY <2>1, <3>6, <3>7 DEF Inside
  <2>2. CASE Cardinality(D) = 1 /\ last >= 0
    <3>1. v' = View!Applied(v.s, v.x - ((at - last) * View!Seen(v.s)) \div 2) /\ last' = at
      BY <2>2, ViewCardinality DEF View!Move, View!Down
    <3>2. last \in Int /\ v.s \in Scales /\ v.x \in Int
      BY <1>1, <1>2, <2>2 DEF Inside
    <3>3. View!Seen(v.s) \in Int
      BY <3>2 DEF View!Seen, View!Width, Scales
    <3> DEFINE x == v.x - ((at - last) * View!Seen(v.s)) \div 2
    <3>4. x \in Int
      <4>1. (at - last) * View!Seen(v.s) \in Int
        BY <3>2, <3>3
      <4> QED
        BY <3>2, <4>1
    <3>5. PICK y \in Int, s \in Scales : y = x /\ s = v.s
      BY <3>2, <3>4
    <3>6. Inside(View!Applied(s, y))
      BY ClippedInside
    <3> HIDE DEF x
    <3>7. v' = View!Applied(s, y)
      BY <3>1, <3>5 DEF x
    <3> QED
      BY <3>1, <3>6, <3>7 DEF Inside
  <2>3. CASE ~(Cardinality(D) = 2 /\ pinch # View!NoPinch) /\ ~(Cardinality(D) = 1 /\ last >= 0)
    <3>1. v' = v /\ last' = last
      BY <2>3, ViewCardinality DEF View!Move, View!Down
    <3>2. Cardinality(D) # 1
      BY <1>1, <1>2, <2>3
    <3> QED
      BY <1>1, <3>1, <3>2 DEF Inside
  <2> QED
    BY <2>1, <2>2, <2>3
<1>7. Cardinality(DOMAIN pts') = 1 => \A g \in DOMAIN pts' : last' = pts'[g]
  <2> SUFFICES ASSUME Cardinality(D) = 1, NEW g \in D PROVE last' = pts'[g]
    BY <1>3
  <2>1. g = f
    BY <1>1, <1>2, FS_Singleton
  <2> QED
    BY <1>3, <1>6, <2>1
<1>8. View!NoPinch' = View!NoPinch
  BY DEF View!NoPinch
<1> QED
  BY <1>1, <1>2, <1>3, <1>4, <1>5, <1>6, <1>7, <1>8 DEF ViewIInv

\* A finger is lifted: the one that is left goes on from where it is.
LEMMA LiftKeeps ==
    ASSUME ViewIInv, NEW f, View!Lift(f)
    PROVE  ViewIInv'
<1> DEFINE D == DOMAIN pts
<1>1. /\ IsFiniteSet(D) /\ pts \in [D -> 0..2]
      /\ \A g, h \in D : g # h => pts[g] # pts[h]
      /\ Inside(v)
      /\ pinch = View!NoPinch \/ pinch \in [d : 1..2, s : Scales, quarters : 0..4]
  BY DEF ViewIInv
<1>2. /\ f \in D /\ pts' = [g \in D \ {f} |-> pts[g]]
      /\ pinch' \in {View!NoPinch, pinch} /\ v' = v
  BY DEF View!Lift, View!Down
<1>3. DOMAIN pts' = D \ {f} /\ \A g \in D \ {f} : pts'[g] = pts[g]
  BY <1>2
<1>4. pts' \in [DOMAIN pts' -> 0..2]
  BY <1>1, <1>2, <1>3
<1>5. \A g, h \in DOMAIN pts' : g # h => pts'[g] # pts'[h]
  BY <1>1, <1>3
<1>6. IsFiniteSet(DOMAIN pts')
  BY <1>1, <1>3, FS_RemoveElement
<1>7. Cardinality(DOMAIN pts') = 1 => \A g \in DOMAIN pts' : last' = pts'[g]
  <2> SUFFICES ASSUME Cardinality(DOMAIN pts') = 1, NEW g \in DOMAIN pts' PROVE last' = pts'[g]
    OBVIOUS
  <2>1. DOMAIN pts' # {}
    OBVIOUS
  <2>2. ~(Cardinality(DOMAIN pts') > 1)
    OBVIOUS
  <2>3. PICK left \in DOMAIN pts' : last' = pts[left]
    BY <2>1, <2>2, ViewCardinality DEF View!Lift, View!GoesOnFrom
  <2>4. left = g
    BY <1>6, FS_Singleton
  <2> QED
    BY <1>3, <2>3, <2>4
<1>8. View!NoPinch' = View!NoPinch /\ Inside(v)'
  BY <1>1, <1>2 DEF View!NoPinch, Inside
<1> QED
  BY <1>1, <1>2, <1>4, <1>5, <1>6, <1>7, <1>8 DEF ViewIInv

\* Half, twice and the whole of a scale.
LEMMA NextScales ==
    ASSUME Inside(v)
    PROVE  /\ {v.s \div 2, v.s * 2, 1, 2} \subseteq {0, 1, 2, 4, 8, 16}
<1>1. PICK s \in {1, 2, 4, 8} : s = v.s
  BY DEF Inside, Scales
<1>2. {s \div 2, s * 2, 1, 2} \subseteq {0, 1, 2, 4, 8, 16}
  OBVIOUS
<1> QED
  BY <1>1, <1>2

\* The buttons, the wheel and a double click.
LEMMA ZoomKeeps ==
    ASSUME ViewIInv, NEW scale \in {0, 1, 2, 4, 8, 16}, NEW quarters \in Int, View!Zoom(scale, quarters)
    PROVE  ViewIInv'
<1>1. v' = View!Zoomed(scale, quarters) /\ UNCHANGED <<pts, last, pinch>>
  BY DEF View!Zoom
<1>2. Inside(View!Zoomed(scale, quarters))
  BY ZoomedInside DEF ViewIInv
<1>3. Inside(v)'
  BY <1>1, <1>2 DEF Inside
<1> QED
  BY <1>1, <1>3 DEF ViewIInv, View!NoPinch

\* Whatever is done to a diagram leaves it.
LEMMA ViewGoes == ViewIInv /\ [View!Next]_View!vars => ViewIInv'
<1> SUFFICES ASSUME ViewIInv, [View!Next]_View!vars PROVE ViewIInv'
  OBVIOUS
<1>1. {v.s \div 2, v.s * 2, 1, 2} \subseteq {0, 1, 2, 4, 8, 16}
  BY NextScales DEF ViewIInv
<1>2. ASSUME NEW scale \in {v.s \div 2, v.s * 2, 1}, View!Button(scale)
      PROVE  ViewIInv'
  BY <1>1, <1>2, ZoomKeeps DEF View!Button
<1>3. ASSUME NEW scale \in {v.s \div 2, v.s * 2, 1}, NEW at \in 0..2, NEW ctrl, View!Wheel(scale, at, ctrl)
      PROVE  ViewIInv'
  <2>1. View!Zoom(scale, 2 * at) /\ 2 * at \in Int /\ scale \in {0, 1, 2, 4, 8, 16}
    BY <1>1, <1>3 DEF View!Wheel
  <2> QED
    BY <2>1, ZoomKeeps
<1>4. ASSUME NEW at \in 0..2, View!DoubleClick(at)
      PROVE  ViewIInv'
  <2>1. View!Zoom(1, 2) \/ View!Zoom(2, 2 * at)
    BY <1>4 DEF View!DoubleClick
  <2>2. 2 * at \in Int
    OBVIOUS
  <2> QED
    BY <2>1, <2>2, ZoomKeeps
<1>5. CASE View!Leave \/ UNCHANGED View!vars
  <2>1. UNCHANGED <<v, pts, last, pinch>>
    BY <1>5 DEF View!Leave, View!vars
  <2> QED
    BY <2>1 DEF ViewIInv, Inside, View!NoPinch
<1> QED
  BY <1>2, <1>3, <1>4, <1>5, PressKeeps, MoveKeeps, LiftKeeps DEF View!Next, View!Screen

\* ViewIInv holds always.
THEOREM ViewInvariance == AllSpec => [](part = "view" => ViewIInv)
<1>1. AllInit => (part = "view" => ViewIInv)
  <2> SUFFICES ASSUME View!Init PROVE ViewIInv
    BY DEF AllInit
  <2>1. v = [s |-> 1, x |-> 0] /\ pts = [f \in {} |-> 0] /\ pinch = View!NoPinch
    BY DEF View!Init
  <2>2. DOMAIN pts = {}
    BY <2>1
  <2>3. pts \in [{} -> 0..2]
    BY <2>1
  <2>4. Inside(v)
    BY <2>1 DEF Inside, Scales
  <2> QED
    BY <2>1, <2>2, <2>3, <2>4, FS_EmptySet DEF ViewIInv
<1>2. (part = "view" => ViewIInv) /\ [AllNext]_AllVars => (part = "view" => ViewIInv)'
  <2> SUFFICES ASSUME part = "view" => ViewIInv, [AllNext]_AllVars, part' = "view"
               PROVE  ViewIInv'
    OBVIOUS
  <2>1. part = "view" /\ [View!Next]_View!vars
    BY DEF AllNext, AllVars, InRun, DiagramVars, ViewVars, View!vars
  <2> QED
    BY <2>1, ViewGoes
<1> QED
  BY <1>1, <1>2, PTL DEF AllSpec

\* zoomTo(), apply(), end(): what is seen lies inside the diagram, and the finger that is
\* left drags from where it is.
THEOREM ViewsStayInside == AllSpec => []ViewStaysInside
<1>1. ViewIInv => View!ViewStaysInside
  <2> SUFFICES ASSUME ViewIInv PROVE View!ViewStaysInside
    OBVIOUS
  <2>1. v.s \in Scales /\ v.x \in 0..32 - (32 \div v.s)
    BY DEF ViewIInv, Inside
  <2> QED
    BY <2>1, ViewCardinality DEF ViewIInv, Scales, View!ViewStaysInside, View!Seen, View!Width, View!Down
<1> QED
  BY <1>1, ViewInvariance, PTL DEF ViewStaysInside

-----------------------------------------------------------------------------
(* LensResults: for any results, limits, hosts and words *)

\* The module's cardinality and selection are those of the library.
LEMMA FilterCardinality ==
    /\ \A S : Filter!Cardinality(S) = Cardinality(S)
    /\ \A s, T : Filter!Selected(s, T) = Selected(s, T)
<1>1. \A S : Filter!Cardinality(S) = Cardinality(S)
  BY Zenon DEF Filter!Cardinality, Cardinality
<1>2. \A s, T : Filter!Selected(s, T) = Selected(s, T)
  BY Zenon DEF Filter!Selected, Selected
<1> QED
  BY <1>1, <1>2

\* The document: its chips count its items, and a carousel has none and shows pictures.
Document ==
    /\ DOMAIN panel.items = 1..Len(panel.items) /\ Len(panel.items) \in Nat
    /\ \A c \in panel.chips :
          /\ c.type \in {"host", "bucket"} /\ c.value # Filter!None
          /\ c.n = Cardinality({i \in DOMAIN panel.items : panel.items[i][c.type] = c.value})
    /\ panel.turns # "none" =>
          /\ panel.chips = {} /\ panel.items # <<>>
          /\ \A i \in DOMAIN panel.items : panel.items[i].thumb
          /\ Len(panel.items) > 1 => panel.turns = "arrows"

\* A text and a facet of each kind.
IsFilter(f) == f = [q |-> f.q, host |-> f.host, bucket |-> f.bucket] /\ f.q \in Words \cup {Filter!None}

\* The screen: what does not match is hidden, the rest is counted, and the chips of the
\* filter are lit.
Screened ==
    /\ IsFilter(filter)
    /\ page.hidden = {i \in DOMAIN panel.items : ~Filter!Matches(panel.items[i], filter)}
    /\ page.count = Len(panel.items) - Cardinality(page.hidden)
    /\ page.lit = {c \in panel.chips : filter[c.type] = c.value}

\* The stage: one item, which is one of the document's.
Staged ==
    \/ stage = {}
    \/ /\ panel.turns # "none"
       /\ \E i \in 0..Len(panel.items) - 1 :
             stage = {[item |-> panel.items[i + 1], number |-> i + 1, lit |-> {i + 1}, at |-> i]}

\* The inductive invariant of a results panel.
FilterIInv == Document /\ Screened /\ Staged

\* A first part of a list is a list of what is in it.
LEMMA FirstIsAList ==
    ASSUME NEW A, NEW s \in Seq(A), NEW n \in Nat
    PROVE  Filter!First(s, n) \in Seq(A)
<1> DEFINE m == IF Len(s) < n THEN Len(s) ELSE n
<1>1. Len(s) \in Nat /\ m \in Nat /\ m <= Len(s)
  OBVIOUS
<1>2. \A i \in 1..m : s[i] \in A
  BY <1>1
<1> HIDE DEF m
<1>3. SubSeq(s, 1, m) \in Seq(A)
  BY <1>1, <1>2
<1> QED
  BY <1>3 DEF Filter!First, m

\* The document that is made of any results.
LEMMA DocumentIsMade ==
    ASSUME PartsAssumption, Filter!Init
    PROVE  Document
<1>1. PICK answer \in HitLists, category \in {"general", "images", "videos"} :
         LET hits == [i \in DOMAIN answer |-> Filter!AsItem(answer[i])]
         IN panel = [items |-> Filter!Items(hits, category), chips |-> Filter!Bar(hits, category),
                     turns |-> Filter!Turns(hits, category)]
  BY DEF Filter!Init
<1> DEFINE hits == [i \in DOMAIN answer |-> Filter!AsItem(answer[i])]
           shown == Filter!First(hits, Filter!LimitFor(category))
           A == {hits[i] : i \in DOMAIN hits}
<1>2. panel.items = Filter!Items(hits, category) /\ panel.chips = Filter!Bar(hits, category)
      /\ panel.turns = Filter!Turns(hits, category)
  BY <1>1
<1>3. hits \in Seq(A)
  <2>1. PICK S : answer \in Seq(S)
    BY DEF PartsAssumption, Filter!LensResultsAssumption
  <2>2. DOMAIN answer = 1..Len(answer) /\ Len(answer) \in Nat
    BY <2>1
  <2>3. PICK n \in Nat : DOMAIN answer = 1..n
    BY <2>2
  <2>4. DOMAIN hits = 1..n
    BY <2>3
  <2>5. \A i \in 1..n : hits[i] \in A
    BY <2>4
  <2>6. hits = [i \in 1..n |-> hits[i]]
    BY <2>4, Zenon
  <2> HIDE DEF hits, A
  <2> QED
    BY <2>5, <2>6
<1>4. Filter!LimitFor(category) \in Nat
  BY DEF PartsAssumption, Filter!LensResultsAssumption, Filter!LimitFor
<1> HIDE DEF hits, A
<1>5. shown \in Seq(A)
  BY <1>3, <1>4, FirstIsAList
<1> DEFINE pictures == Filter!Pictures(shown)
           T == {h \in {shown[i] : i \in DOMAIN shown} : h.thumb}
<1>6. pictures = Selected(shown, T)
  BY FilterCardinality DEF Filter!Pictures
<1>7. /\ pictures \in Seq(A)
      /\ \A k \in 1..Len(pictures) : pictures[k] \in T
  <2> HIDE DEF T, shown, pictures
  <2> QED
    BY <1>5, <1>6, SelectedSelects, SelectedRange
<1>8. \A k \in 1..Len(pictures) : pictures[k].thumb
  <2> HIDE DEF pictures, shown
  <2> QED
    BY <1>7
<1> HIDE DEF T
<1>9. panel.items = IF category = "images" /\ pictures # <<>> THEN pictures ELSE shown
  BY <1>2, Zenon DEF Filter!Items
<1>10. panel.turns = IF category # "images" \/ pictures = <<>> THEN "none"
                     ELSE IF Len(panel.items) > 1 THEN "arrows" ELSE "still"
  BY <1>2, Zenon DEF Filter!Turns
<1>11. category = "images" => panel.chips = {}
  BY <1>2 DEF Filter!Bar
<1>12. panel.chips \subseteq Filter!Facets(shown)
  BY <1>2 DEF Filter!Bar, Filter!Counted
<1>13. ASSUME NEW c \in Filter!Facets(shown)
       PROVE  /\ c.type \in {"host", "bucket"} /\ c.value # Filter!None
              /\ c.n = Cardinality({i \in DOMAIN shown : shown[i][c.type] = c.value})
  <2>1. PICK type, value :
           /\ type \in {"host", "bucket"} /\ value \in Filter!Values(shown, type)
           /\ c = [type |-> type, value |-> value, n |-> Filter!CountOf(shown, type, value)]
    <3> HIDE DEF shown
    <3> QED
      BY <1>13 DEF Filter!Facets
  <2>2. type \in {"host", "bucket"} /\ c.type = type /\ c.value = value /\ c.n = Filter!CountOf(shown, type, value)
    BY <2>1
  <2>3. value # Filter!None
    BY <2>1 DEF Filter!Values
  <2> HIDE DEF shown
  <2> QED
    BY <2>2, <2>3, FilterCardinality DEF Filter!CountOf
<1> HIDE DEF shown, pictures
<1>14. DOMAIN panel.items = 1..Len(panel.items) /\ Len(panel.items) \in Nat
  <2>1. panel.items \in Seq(A)
    BY <1>5, <1>7, <1>9
  <2> QED
    BY <2>1
<1>15. panel.turns # "none" =>
          /\ panel.chips = {} /\ panel.items # <<>>
          /\ \A i \in DOMAIN panel.items : panel.items[i].thumb
          /\ Len(panel.items) > 1 => panel.turns = "arrows"
  <2> SUFFICES ASSUME panel.turns # "none"
               PROVE  /\ panel.chips = {} /\ panel.items # <<>>
                      /\ \A i \in DOMAIN panel.items : panel.items[i].thumb
                      /\ Len(panel.items) > 1 => panel.turns = "arrows"
    OBVIOUS
  <2>1. category = "images" /\ pictures # <<>>
    BY <1>10
  <2>2. panel.items = pictures
    BY <1>9, <2>1
  <2>3. \A i \in DOMAIN panel.items : panel.items[i].thumb
    BY <1>8, <1>14, <2>2
  <2> QED
    BY <1>10, <1>11, <2>1, <2>2, <2>3
<1>16. ASSUME NEW c \in panel.chips
       PROVE  /\ c.type \in {"host", "bucket"} /\ c.value # Filter!None
              /\ c.n = Cardinality({i \in DOMAIN panel.items : panel.items[i][c.type] = c.value})
  <2>1. panel.items = shown
    BY <1>9, <1>11, <1>16
  <2> QED
    BY <1>12, <1>13, <1>16, <2>1
<1> QED
  BY <1>14, <1>15, <1>16 DEF Document

\* A list that is not empty.
LEMMA ListIsLong ==
    ASSUME Document, panel.items # <<>>
    PROVE  Len(panel.items) \in Nat \ {0}
<1>1. DOMAIN panel.items = 1..Len(panel.items) /\ Len(panel.items) \in Nat
  BY DEF Document
<1> QED
  BY <1>1

\* The panel starts in its invariant: nothing is hidden, the first item is on the stage.
LEMMA FilterStarts == PartsAssumption /\ Filter!Init => FilterIInv
<1> SUFFICES ASSUME PartsAssumption, Filter!Init PROVE FilterIInv
  OBVIOUS
<1>1. Document
  BY DocumentIsMade
<1>2. /\ filter = [q |-> Filter!None, host |-> Filter!None, bucket |-> Filter!None]
      /\ page = [hidden |-> {}, count |-> Len(panel.items), lit |-> {}]
      /\ stage = IF panel.turns = "none" THEN {} ELSE {Filter!OnStage(panel.items, 0)}
  BY DEF Filter!Init, Filter!NoFilter
<1>3. \A i \in DOMAIN panel.items : Filter!Matches(panel.items[i], filter)
  BY <1>2 DEF Filter!Matches
<1>4. \A c \in panel.chips : c.type \in {"host", "bucket"} /\ c.value # Filter!None
  BY <1>1 DEF Document
<1>5. {c \in panel.chips : filter[c.type] = c.value} = {}
  <2>1. ASSUME NEW c \in panel.chips PROVE filter[c.type] # c.value
    <3>1. CASE c.type = "host"
      BY <1>2, <1>4, <3>1
    <3>2. CASE c.type = "bucket"
      BY <1>2, <1>4, <3>2
    <3> QED
      BY <1>4, <3>1, <3>2
  <2> QED
    BY <2>1
<1>6. Len(panel.items) - Cardinality({}) = Len(panel.items)
  <2>1. Cardinality({}) = 0 /\ Len(panel.items) \in Nat
    BY <1>1, FS_EmptySet DEF Document
  <2> QED
    BY <2>1
<1>7. Screened
  BY <1>2, <1>3, <1>5, <1>6 DEF Screened, IsFilter
<1>8. Staged
  <2>1. CASE panel.turns # "none"
    <3>1. 0 \in 0..Len(panel.items) - 1
      BY <1>1, <2>1, ListIsLong DEF Document
    <3> QED
      BY <1>2, <2>1, <3>1 DEF Staged, Filter!OnStage
  <2> QED
    BY <1>2, <2>1 DEF Staged
<1> QED
  BY <1>1, <1>7, <1>8 DEF FilterIInv

\* The document stays; a filter is applied to all of it.
LEMMA ApplyKeeps ==
    ASSUME FilterIInv, NEW f, NEW lit, Filter!Apply(f, lit),
           IsFilter(f),
           lit = {c \in panel.chips : f[c.type] = c.value}
    PROVE  FilterIInv'
<1> DEFINE hidden == {i \in DOMAIN panel.items : ~Filter!Matches(panel.items[i], f)}
<1>1. /\ filter' = f
      /\ page' = [hidden |-> hidden, count |-> Len(panel.items) - Filter!Cardinality(hidden),
                  lit |-> lit]
      /\ panel' = panel /\ stage' = stage
  BY DEF Filter!Apply
<1>2. Document'
  BY <1>1 DEF FilterIInv, Document
<1>3. Staged'
  BY <1>1 DEF FilterIInv, Staged
<1>4. page'.hidden = {i \in DOMAIN panel'.items : ~Filter!Matches(panel'.items[i], filter')}
  BY <1>1 DEF Filter!Matches
<1>5. page'.count = Len(panel'.items) - Cardinality(page'.hidden)
  BY <1>1, FilterCardinality
<1>6. page'.lit = {c \in panel'.chips : filter'[c.type] = c.value}
  BY <1>1
<1>7. IsFilter(filter)'
  BY <1>1 DEF IsFilter
<1>8. Screened'
  BY <1>4, <1>5, <1>6, <1>7 DEF Screened, Filter!Matches
<1> QED
  BY <1>2, <1>3, <1>8 DEF FilterIInv

\* Pressing a chip, typing and clearing apply a filter, with its chips lit.
LEMMA PressLights ==
    ASSUME FilterIInv, NEW chip \in panel.chips, Filter!Press(chip)
    PROVE  FilterIInv'
<1> DEFINE value == Filter!Toggled(chip.type, chip.value)
           f == [filter EXCEPT ![chip.type] = value]
           lit == {c \in page.lit : c.type # chip.type}
                  \cup {c \in panel.chips : c.type = chip.type /\ c.value = value}
<1>1. Filter!Apply(f, lit)
  BY DEF Filter!Press
<1>2. /\ filter = [q |-> filter.q, host |-> filter.host, bucket |-> filter.bucket] /\ filter.q \in Words \cup {Filter!None}
      /\ page.lit = {c \in panel.chips : filter[c.type] = c.value}
      /\ \A c \in panel.chips : c.type \in {"host", "bucket"}
  BY DEF FilterIInv, Screened, Document, IsFilter
<1> HIDE DEF value
<1>3. /\ IsFilter(f)
      /\ \A t \in {"host", "bucket"} : f[t] = IF t = chip.type THEN value ELSE filter[t]
  <2>1. CASE chip.type = "host"
    <3>1. f = [q |-> filter.q, host |-> value, bucket |-> filter.bucket]
      <4>1. f = [filter EXCEPT !.host = value]
        BY <2>1
      <4>2. PICK q, h, b : filter = [q |-> q, host |-> h, bucket |-> b]
        BY <1>2
      <4> HIDE DEF f
      <4> QED
        BY <4>1, <4>2
    <3> QED
      BY <1>2, <2>1, <3>1 DEF IsFilter
  <2>2. CASE chip.type = "bucket"
    <3>1. f = [q |-> filter.q, host |-> filter.host, bucket |-> value]
      <4>1. f = [filter EXCEPT !.bucket = value]
        BY <2>2
      <4>2. PICK q, h, b : filter = [q |-> q, host |-> h, bucket |-> b]
        BY <1>2
      <4> HIDE DEF f
      <4> QED
        BY <4>1, <4>2
    <3> QED
      BY <1>2, <2>2, <3>1 DEF IsFilter
  <2> QED
    BY <1>2, <2>1, <2>2
<1> HIDE DEF f
<1>4. lit = {c \in panel.chips : f[c.type] = c.value}
  <2>1. ASSUME NEW c \in panel.chips PROVE c \in lit <=> f[c.type] = c.value
    BY <1>2, <1>3
  <2> QED
    BY <1>2, <2>1
<1> HIDE DEF lit
<1> QED
  BY <1>1, <1>3, <1>4, ApplyKeeps

\* What is typed leaves the chips alone.
LEMMA TypeLights ==
    ASSUME FilterIInv, NEW q \in Words, Filter!Type(q)
    PROVE  FilterIInv'
<1> DEFINE f == [filter EXCEPT !.q = q]
<1>1. Filter!Apply(f, page.lit)
  BY DEF Filter!Type
<1>2. /\ filter = [q |-> filter.q, host |-> filter.host, bucket |-> filter.bucket] /\ filter.q \in Words \cup {Filter!None}
      /\ page.lit = {c \in panel.chips : filter[c.type] = c.value}
      /\ \A c \in panel.chips : c.type \in {"host", "bucket"}
  BY DEF FilterIInv, Screened, Document, IsFilter
<1>3. f = [q |-> q, host |-> filter.host, bucket |-> filter.bucket]
  BY <1>2
<1>4. /\ IsFilter(f)
      /\ \A t \in {"host", "bucket"} : f[t] = filter[t]
  BY <1>3 DEF IsFilter
<1> HIDE DEF f
<1>5. page.lit = {c \in panel.chips : f[c.type] = c.value}
  BY <1>2, <1>4
<1> QED
  BY <1>1, <1>4, <1>5, ApplyKeeps

\* Clearing turns every chip off.
LEMMA ClearLights ==
    ASSUME FilterIInv, Filter!Clear
    PROVE  FilterIInv'
<1> DEFINE f == [q |-> Filter!None, host |-> Filter!None, bucket |-> Filter!None]
<1>1. Filter!Apply(f, {})
  BY DEF Filter!Clear, Filter!NoFilter
<1>2. \A c \in panel.chips : c.type \in {"host", "bucket"} /\ c.value # Filter!None
  BY DEF FilterIInv, Document
<1>3. {} = {c \in panel.chips : f[c.type] = c.value}
  <2>1. ASSUME NEW c \in panel.chips PROVE f[c.type] # c.value
    <3>1. CASE c.type = "host"
      BY <1>2, <3>1
    <3>2. CASE c.type = "bucket"
      BY <1>2, <3>2
    <3> QED
      BY <1>2, <3>1, <3>2
  <2> HIDE DEF f
  <2> QED
    BY <2>1
<1>4. IsFilter(f)
  BY DEF IsFilter
<1> HIDE DEF f
<1> QED
  BY <1>1, <1>3, <1>4, ApplyKeeps

\* Whichever item is asked for, past the ends too, one of the document's is shown.
LEMMA StageKeeps ==
    ASSUME NEW n \in Int, FilterIInv, stage # {}, Filter!ShowAt(n)
    PROVE  FilterIInv'
<1>1. stage' = {Filter!OnStage(panel.items, n % Len(panel.items))} /\ UNCHANGED <<panel, filter, page>>
  BY DEF Filter!ShowAt
<1>2. panel.turns # "none" /\ Len(panel.items) \in Nat \ {0}
  BY ListIsLong DEF FilterIInv, Staged, Document
<1>3. PICK i \in Int : i = n % Len(panel.items) /\ i \in 0..Len(panel.items) - 1
  <2>1. PICK k \in Nat \ {0} : k = Len(panel.items)
    BY <1>2
  <2>2. PICK m \in 0..k - 1 : m = n % k
    OBVIOUS
  <2>3. m \in Int /\ m \in 0..Len(panel.items) - 1
    <3>1. m \in Int
      OBVIOUS
    <3>2. m \in 0..Len(panel.items) - 1
      BY <2>1
    <3> QED
      BY <3>1, <3>2
  <2>4. m = n % Len(panel.items)
    BY <2>1, <2>2
  <2> QED
    BY <2>3, <2>4
<1>4. stage' = {[item |-> panel.items[i + 1], number |-> i + 1, lit |-> {i + 1}, at |-> i]}
  BY <1>1, <1>3 DEF Filter!OnStage
<1>5. Staged'
  BY <1>1, <1>2, <1>3, <1>4 DEF Staged
<1>6. Document' /\ Screened'
  BY <1>1 DEF FilterIInv, Document, Screened, Filter!Matches
<1> QED
  BY <1>5, <1>6 DEF FilterIInv

\* Whatever is pressed in a panel leaves it.
LEMMA FilterGoes == FilterIInv /\ [Filter!Next]_Filter!vars => FilterIInv'
<1> SUFFICES ASSUME FilterIInv, [Filter!Next]_Filter!vars PROVE FilterIInv'
  OBVIOUS
<1>1. ASSUME NEW by \in {-1, 1}, Filter!Turn(by)
      PROVE  FilterIInv'
  <2>1. PICK s \in stage : Filter!ShowAt(s.at + by + Len(panel.items))
    BY <1>1 DEF Filter!Turn
  <2>2. Len(panel.items) \in Nat
    BY DEF FilterIInv, Document
  <2>3. s.at \in Int
    BY <2>1, <2>2 DEF FilterIInv, Staged
  <2>4. s.at + by + Len(panel.items) \in Int
    BY <2>2, <2>3
  <2> QED
    BY <2>1, <2>4, StageKeeps
<1>2. ASSUME NEW k \in 0..Len(panel.items) - 1, Filter!Thumb(k)
      PROVE  FilterIInv'
  <2>1. stage # {} /\ Filter!ShowAt(k)
    BY <1>2 DEF Filter!Thumb
  <2>2. k \in Int
    BY DEF FilterIInv, Document
  <2> QED
    BY <2>1, <2>2, StageKeeps
<1>3. CASE UNCHANGED Filter!vars
  BY <1>3 DEF Filter!vars, FilterIInv, Document, Screened, Staged, Filter!Matches
<1> QED
  BY <1>1, <1>2, <1>3, PressLights, TypeLights, ClearLights DEF Filter!Next, Filter!Arrow

\* FilterIInv holds always.
THEOREM FilterInvariance == AllSpec => [](part = "filter" => FilterIInv)
<1>1. AllInit => (part = "filter" => FilterIInv)
  BY PartsAssumption, FilterStarts DEF AllInit
<1>2. (part = "filter" => FilterIInv) /\ [AllNext]_AllVars => (part = "filter" => FilterIInv)'
  <2> SUFFICES ASSUME part = "filter" => FilterIInv, [AllNext]_AllVars, part' = "filter"
               PROVE  FilterIInv'
    OBVIOUS
  <2>1. part = "filter" /\ [Filter!Next]_Filter!vars
    BY DEF AllNext, AllVars, InRun, LensPartVars, FilterVars, Filter!vars
  <2> QED
    BY <2>1, FilterGoes
<1> QED
  BY <1>1, <1>2, PTL DEF AllSpec

\* Pressed alone, a chip leaves as many as it says.
LEMMA ChipsCount ==
    ASSUME FilterIInv, NEW chip \in page.lit,
           filter = [[q |-> Filter!None, host |-> Filter!None, bucket |-> Filter!None] EXCEPT ![chip.type] = chip.value]
    PROVE  page.count = chip.n
<1> DEFINE D == DOMAIN panel.items
           M == {i \in D : panel.items[i][chip.type] = chip.value}
<1>1. /\ D = 1..Len(panel.items) /\ Len(panel.items) \in Nat
      /\ chip.type \in {"host", "bucket"} /\ chip.value # Filter!None /\ chip.n = Cardinality(M)
      /\ page.hidden = {i \in D : ~Filter!Matches(panel.items[i], filter)}
      /\ page.count = Len(panel.items) - Cardinality(page.hidden)
  BY DEF FilterIInv, Document, Screened
<1>2. ASSUME NEW i \in D
      PROVE  Filter!Matches(panel.items[i], filter) <=> panel.items[i][chip.type] = chip.value
  <2>1. CASE chip.type = "host"
    <3>1. filter.q = Filter!None /\ filter.host = chip.value /\ filter.bucket = Filter!None
      BY <2>1
    <3> QED
      BY <1>1, <2>1, <3>1 DEF Filter!Matches
  <2>2. CASE chip.type = "bucket"
    <3>1. filter.q = Filter!None /\ filter.host = Filter!None /\ filter.bucket = chip.value
      BY <2>2
    <3> QED
      BY <1>1, <2>2, <3>1 DEF Filter!Matches
  <2> QED
    BY <1>1, <2>1, <2>2
<1>3. page.hidden = D \ M
  BY <1>1, <1>2
<1>4. IsFiniteSet(D) /\ Cardinality(D) = Len(panel.items)
  <2>1. PICK n \in Nat : n = Len(panel.items)
    BY <1>1
  <2>2. IsFiniteSet(1..n) /\ Cardinality(1..n) = n
    BY FS_Interval
  <2> QED
    BY <1>1, <2>1, <2>2
<1> HIDE DEF D
<1>5. D \cap M = M /\ IsFiniteSet(M) /\ Cardinality(M) \in Nat
  BY <1>4, FS_Subset, FS_CardinalityType
<1>6. Cardinality(D \ M) = Cardinality(D) - Cardinality(D \cap M)
  BY <1>4, FS_Difference
<1> HIDE DEF M
<1>7. PICK n \in Nat, k \in Nat : n = Len(panel.items) /\ k = Cardinality(M)
  BY <1>1, <1>5
<1>8. Cardinality(page.hidden) = n - k
  BY <1>3, <1>4, <1>5, <1>6, <1>7
<1>9. page.count = n - (n - k) /\ chip.n = k
  BY <1>1, <1>7, <1>8
<1>10. n - (n - k) = k
  OBVIOUS
<1> QED
  BY <1>9, <1>10

\* _facets(), applyFilters(), show(): the counts on the chips are what they leave, and a
\* carousel shows its pictures.
THEOREM FacetsCount == AllSpec => []FacetsTellTruly
<1>1. FilterIInv => Filter!FacetsTellTruly
  <2> SUFFICES ASSUME FilterIInv PROVE Filter!FacetsTellTruly
    OBVIOUS
  <2>1. \A chip \in page.lit :
           filter = [Filter!NoFilter EXCEPT ![chip.type] = chip.value] => page.count = chip.n
    BY ChipsCount DEF Filter!NoFilter
  <2>2. page.lit = {c \in panel.chips : filter[c.type] = c.value}
    BY DEF FilterIInv, Screened
  <2>3. ASSUME NEW s \in stage
        PROVE  /\ s.item = panel.items[s.number] /\ s.lit = {s.number} /\ s.item.thumb
               /\ panel.chips = {} /\ (Len(panel.items) > 1 => panel.turns = "arrows")
    <3>1. PICK i \in 0..Len(panel.items) - 1 :
             s = [item |-> panel.items[i + 1], number |-> i + 1, lit |-> {i + 1}, at |-> i]
      BY <2>3 DEF FilterIInv, Staged
    <3>2. panel.turns # "none" /\ i + 1 \in DOMAIN panel.items
      BY <2>3 DEF FilterIInv, Staged, Document
    <3> QED
      BY <3>1, <3>2 DEF FilterIInv, Document
  <2> QED
    BY <2>1, <2>2, <2>3 DEF Filter!FacetsTellTruly
<1>2. FilterIInv => Filter!TypeOK
  <2> SUFFICES ASSUME FilterIInv PROVE Filter!TypeOK
    OBVIOUS
  <2>1. filter.q \in Words \cup {Filter!None} /\ page.hidden \subseteq DOMAIN panel.items /\ page.lit \subseteq panel.chips
    BY DEF FilterIInv, Screened, IsFilter
  <2>2. Cardinality(stage) <= 1
    <3>1. Cardinality({}) = 0 /\ \A x : Cardinality({x}) = 1
      BY FS_EmptySet, FS_Singleton
    <3>2. stage = {} \/ \E x : stage = {x}
      BY DEF FilterIInv, Staged
    <3>3. CASE stage = {}
      BY <3>1, <3>3
    <3>4. CASE \E x : stage = {x}
      <4>1. PICK x : stage = {x}
        BY <3>4
      <4>2. Cardinality(stage) = 1
        BY <3>1, <4>1
      <4> QED
        BY <4>2
    <3> QED
      BY <3>2, <3>3, <3>4
  <2> QED
    BY <2>1, <2>2, FilterCardinality DEF Filter!TypeOK
<1>3. (part = "filter" => FilterIInv) => FacetsTellTruly
  BY <1>1, <1>2 DEF FacetsTellTruly
<1> QED
  BY <1>3, FilterInvariance, PTL

-----------------------------------------------------------------------------
(* TinyMarkdown: for any text *)

MarkKinds == Mark!LineKinds \cup {"p"}
MarkParts == [tag : {"open", "close", "element"}, of : MarkKinds, lines : Seq(Nat)]

\* The converter's Joined() is the library's.
LEMMA MarkJoined == \A ss : Mark!Joined(ss) = Joined(ss)
BY Zenon DEF Mark!Joined, Joined

LEMMA PartAppends ==
    ASSUME NEW h \in Seq(MarkParts), NEW p \in MarkParts, NEW m \in Nat, m = Len(h)
    PROVE  /\ Append(h, p) \in Seq(MarkParts) /\ Len(Append(h, p)) = m + 1 /\ Append(h, p)[m + 1] = p
           /\ \A k \in 1..m : Append(h, p)[k] = h[k]
<1>1. Append(h, p) \in Seq(MarkParts) /\ Len(Append(h, p)) = m + 1
  OBVIOUS
<1>2. Append(h, p)[m + 1] = p
  BY AppendProperties
<1>3. \A k \in 1..m : Append(h, p)[k] = h[k]
  BY AppendProperties
<1> QED
  BY <1>1, <1>2, <1>3

\* The lines of each part.
LinesOf(h) == [k \in DOMAIN h |-> h[k].lines]

LEMMA LinesOfParts == \A h \in Seq(MarkParts) : LinesOf(h) \in Seq(Seq(Nat))
<1> SUFFICES ASSUME NEW h \in Seq(MarkParts) PROVE LinesOf(h) \in Seq(Seq(Nat))
  OBVIOUS
<1>1. PICK m \in Nat : m = Len(h) /\ DOMAIN h = 1..m
  OBVIOUS
<1>2. \A k \in 1..m : h[k].lines \in Seq(Nat)
  <2>1. \A k \in 1..m : h[k] \in MarkParts
    BY <1>1
  <2> QED
    BY <2>1 DEF MarkParts
<1>3. LinesOf(h) \in [1..m -> Seq(Nat)]
  BY <1>1, <1>2 DEF LinesOf
<1> QED
  BY <1>3, SeqDef

\* One more part adds its lines.
LEMMA WritingAppends ==
    ASSUME NEW h \in Seq(MarkParts), NEW p \in MarkParts
    PROVE  /\ Mark!WrittenIn(h) \in Seq(Nat)
           /\ Mark!WrittenIn(Append(h, p)) = Mark!WrittenIn(h) \o p.lines
<1>1. PICK m \in Nat : m = Len(h) /\ DOMAIN h = 1..m
  OBVIOUS
<1>2. PICK a \in Seq(MarkParts) : /\ a = Append(h, p) /\ Len(a) = m + 1 /\ a[m + 1] = p
                                  /\ \A k \in 1..m : a[k] = h[k]
  BY <1>1, PartAppends
<1>3. PICK x \in Seq(Seq(Nat)), y \in Seq(Seq(Nat)) : x = LinesOf(h) /\ y = LinesOf(a)
  BY <1>2, LinesOfParts
<1>4. /\ Len(x) = m /\ \A k \in 1..m : x[k] = h[k].lines
      /\ Len(y) = m + 1 /\ \A k \in 1..m + 1 : y[k] = a[k].lines
  BY <1>1, <1>2, <1>3 DEF LinesOf
<1>5. PICK l \in Seq(Nat) : l = p.lines
  BY DEF MarkParts
<1>6. y = Append(x, l)
  <2>1. Append(x, l) \in Seq(Seq(Nat)) /\ Len(Append(x, l)) = m + 1
    BY <1>4, AppendProperties
  <2>2. Append(x, l)[m + 1] = l /\ \A k \in 1..m : Append(x, l)[k] = x[k]
    BY <1>4, AppendProperties
  <2>3. \A k \in 1..m + 1 : k # m + 1 => k \in 1..m
    OBVIOUS
  <2>4. \A k \in 1..m + 1 : y[k] = Append(x, l)[k]
    BY <1>2, <1>4, <1>5, <2>2, <2>3
  <2> QED
    BY <1>4, <2>1, <2>4, SeqEqual
<1>7. Mark!WrittenIn(h) = Joined(x) /\ Mark!WrittenIn(a) = Joined(y)
  BY <1>3, MarkJoined, Zenon DEF Mark!WrittenIn, LinesOf
<1>8. Joined(x) \in Seq(Nat) /\ Joined(Append(x, l)) = Joined(x) \o l
  BY JoinedAppends
<1> QED
  BY <1>2, <1>5, <1>6, <1>7, <1>8

LEMMA WritingIsLines == \A h \in Seq(MarkParts) : Mark!WrittenIn(h) \in Seq(Nat)
<1>1. \E p : p \in MarkParts
  <2>1. [tag |-> "open", of |-> "p", lines |-> <<>>] \in MarkParts
    BY DEF MarkParts, MarkKinds
  <2> QED
    BY <2>1
<1> QED
  BY <1>1, WritingAppends

LEMMA NothingWritten == Mark!WrittenIn(<<>>) = <<>>
<1>1. [k \in DOMAIN <<>> |-> <<>>[k].lines] = <<>>
  OBVIOUS
<1> QED
  BY <1>1, MarkJoined, NothingJoined, Zenon DEF Mark!WrittenIn

\* What a part leaves open.
LeavesOpen(p, open) == IF p.tag = "element" THEN open ELSE IF p.tag = "open" THEN {p.of} ELSE {}

LEMMA OpenAppends ==
    ASSUME NEW h \in Seq(MarkParts), NEW p \in MarkParts
    PROVE  /\ \A k \in 1..Len(h) + 1 : Mark!OpenIn(Append(h, p), k) = Mark!OpenIn(h, k)
           /\ Mark!OpenIn(Append(h, p), Len(h) + 2) = LeavesOpen(p, Mark!OpenIn(h, Len(h) + 1))
<1>1. PICK m \in Nat : m = Len(h)
  OBVIOUS
<1>2. PICK a \in Seq(MarkParts) : /\ a = Append(h, p) /\ a[m + 1] = p
                                  /\ \A k \in 1..m : a[k] = h[k]
  BY <1>1, PartAppends
<1> DEFINE Opened(s, k) == {i \in 1..k - 1 : s[i].tag = "open" /\ \A j \in i + 1..k - 1 : s[j].tag = "element"}
<1>3. \A s, k : Mark!OpenIn(s, k) = {s[i].of : i \in Opened(s, k)}
  BY DEF Mark!OpenIn
<1>4. ASSUME NEW k \in 1..m + 1
      PROVE  Mark!OpenIn(a, k) = Mark!OpenIn(h, k)
  <2>1. \A i \in 1..k - 1 : i \in 1..m
    OBVIOUS
  <2>4. \A i \in 1..k - 1 : a[i] = h[i]
    BY <1>2, <2>1
  <2>2. \A i \in 1..k - 1 : \A j \in i + 1..k - 1 : j \in 1..k - 1
    OBVIOUS
  <2>3. Opened(a, k) = Opened(h, k) /\ Opened(a, k) \subseteq 1..k - 1
    BY <2>2, <2>4
  <2> HIDE DEF Opened
  <2> QED
    BY <1>3, <2>3, <2>4
<1>5. \A i \in 1..m : m + 1 \in i + 1..m + 1 /\ \A j \in i + 1..m + 1 : j # m + 1 => j \in i + 1..m
  OBVIOUS
<1>6. m + 2 - 1 = m + 1 /\ m + 1 - 1 = m
  OBVIOUS
<1>7. CASE p.tag = "element"
  <2>1. \A i \in 1..m : (\A j \in i + 1..m + 1 : a[j].tag = "element") <=> (\A j \in i + 1..m : h[j].tag = "element")
    <3> TAKE i \in 1..m
    <3>1. \A j \in i + 1..m : j \in 1..m /\ j \in i + 1..m + 1
      OBVIOUS
    <3> QED
      BY <1>2, <1>5, <1>7, <3>1
  <2>2. \A i \in 1..m + 1 : i # m + 1 => i \in 1..m
    OBVIOUS
  <2>3. a[m + 1].tag # "open"
    BY <1>2, <1>7
  <2>4. \A i \in 1..m : i \in 1..m + 1 /\ a[i] = h[i]
    <3>1. \A i \in 1..m : i \in 1..m + 1
      OBVIOUS
    <3> QED
      BY <1>2, <3>1
  <2>5. Opened(a, m + 2) = Opened(h, m + 1)
    <3>1. \A i : i \in Opened(a, m + 2) <=> i \in 1..m + 1 /\ a[i].tag = "open"
                                           /\ \A j \in i + 1..m + 1 : a[j].tag = "element"
      BY <1>6
    <3>2. \A i : i \in Opened(h, m + 1) <=> i \in 1..m /\ h[i].tag = "open"
                                           /\ \A j \in i + 1..m : h[j].tag = "element"
      BY <1>6
    <3> HIDE DEF Opened
    <3>3. ASSUME NEW i PROVE i \in Opened(a, m + 2) <=> i \in Opened(h, m + 1)
      <4>1. CASE i \in 1..m
        <5>1. i \in 1..m + 1 /\ a[i] = h[i]
          BY <2>4, <4>1
        <5>2. (\A j \in i + 1..m + 1 : a[j].tag = "element") <=> (\A j \in i + 1..m : h[j].tag = "element")
          BY <2>1, <4>1
        <5>3. i \in Opened(a, m + 2) <=> a[i].tag = "open" /\ \A j \in i + 1..m + 1 : a[j].tag = "element"
          BY <3>1, <5>1
        <5>4. i \in Opened(h, m + 1) <=> h[i].tag = "open" /\ \A j \in i + 1..m : h[j].tag = "element"
          BY <3>2, <4>1
        <5> QED
          BY <5>1, <5>2, <5>3, <5>4
      <4>2. CASE i \notin 1..m
        BY <2>2, <2>3, <3>1, <3>2, <4>2, Zenon
      <4> QED
        BY <4>1, <4>2
    <3>4. Opened(a, m + 2) \subseteq 1..m + 1 /\ Opened(h, m + 1) \subseteq 1..m + 1
      BY <2>4, <3>1, <3>2
    <3> QED
      BY <3>3, <3>4
  <2>6. Opened(h, m + 1) \subseteq 1..m
    BY <1>6
  <2> HIDE DEF Opened
  <2>7. Mark!OpenIn(a, m + 2) = Mark!OpenIn(h, m + 1)
    BY <1>3, <2>4, <2>5, <2>6
  <2> QED
    BY <1>1, <1>2, <1>4, <1>7, <2>7 DEF LeavesOpen
<1>8. CASE p.tag # "element"
  <2>1. \A i \in 1..m : ~(\A j \in i + 1..m + 1 : a[j].tag = "element")
    BY <1>2, <1>5, <1>8
  <2>2. Opened(a, m + 2) = IF p.tag = "open" THEN {m + 1} ELSE {}
    <3>1. \A i \in 1..m + 1 : i # m + 1 => i \in 1..m
      OBVIOUS
    <3>2. \A i : i \in Opened(a, m + 2) <=> i \in 1..m + 1 /\ a[i].tag = "open"
                                           /\ \A j \in i + 1..m + 1 : a[j].tag = "element"
      BY <1>6
    <3> HIDE DEF Opened
    <3>3. ASSUME NEW i PROVE i \in Opened(a, m + 2) <=> i = m + 1 /\ p.tag = "open"
      <4>1. CASE i \in 1..m
        <5>1. i # m + 1
          BY <4>1
        <5> QED
          BY <2>1, <3>2, <4>1, <5>1
      <4>2. CASE i = m + 1
        <5>1. i \in 1..m + 1 /\ \A j \in i + 1..m + 1 : FALSE
          BY <4>2
        <5> QED
          BY <1>2, <3>2, <4>2, <5>1
      <4>3. CASE i \notin 1..m + 1
        <5>1. i # m + 1
          BY <4>3
        <5> QED
          BY <3>2, <4>3, <5>1
      <4> QED
        BY <3>1, <4>1, <4>2, <4>3
    <3> QED
      BY <3>3
  <2> HIDE DEF Opened
  <2>3. Mark!OpenIn(a, m + 2) = IF p.tag = "open" THEN {p.of} ELSE {}
    BY <1>2, <1>3, <2>2
  <2> QED
    BY <1>1, <1>2, <1>4, <1>8, <2>3 DEF LeavesOpen
<1> QED
  BY <1>7, <1>8

\* HTML whose parts are in their places, what it leaves open, and what it says.
Whole(h, open, written) ==
    /\ h \in Seq(MarkParts) /\ Mark!WrittenIn(h) = written
    /\ \A k \in 1..Len(h) : Mark!Fits(h[k], Mark!OpenIn(h, k))
    /\ Mark!OpenIn(h, Len(h) + 1) = open

LEMMA PartFits ==
    ASSUME NEW h, NEW open, NEW written, Whole(h, open, written),
           NEW p \in MarkParts, Mark!Fits(p, open)
    PROVE  Whole(Append(h, p), LeavesOpen(p, open), written \o p.lines)
<1>1. PICK m \in Nat : m = Len(h)
  BY DEF Whole
<1>2. PICK a \in Seq(MarkParts) : /\ a = Append(h, p) /\ Len(a) = m + 1 /\ a[m + 1] = p
                                  /\ \A k \in 1..m : a[k] = h[k]
  BY <1>1, PartAppends DEF Whole
<1>3. h \in Seq(MarkParts) /\ Mark!OpenIn(h, m + 1) = open
  BY <1>1 DEF Whole
<1>4. \A k \in 1..m + 1 : Mark!OpenIn(a, k) = Mark!OpenIn(h, k)
  BY <1>1, <1>2, <1>3, OpenAppends
<1>5. Mark!OpenIn(a, Len(a) + 1) = LeavesOpen(p, open)
  <2>1. Len(a) + 1 = Len(h) + 2
    BY <1>1, <1>2
  <2> QED
    BY <1>1, <1>2, <1>3, <2>1, OpenAppends
<1>6. \A k \in 1..Len(a) : Mark!Fits(a[k], Mark!OpenIn(a, k))
  <2> SUFFICES ASSUME NEW k \in 1..m + 1 PROVE Mark!Fits(a[k], Mark!OpenIn(a, k))
    BY <1>2
  <2>1. CASE k = m + 1
    BY <1>2, <1>3, <1>4, <2>1
  <2>2. CASE k # m + 1
    <3>1. k \in 1..m
      BY <2>2
    <3>2. Mark!Fits(h[k], Mark!OpenIn(h, k))
      BY <1>1, <3>1 DEF Whole
    <3> QED
      BY <1>2, <1>4, <3>1, <3>2
  <2> QED
    BY <2>1, <2>2
<1>7. Mark!WrittenIn(a) = written \o p.lines
  BY <1>2, <1>3, WritingAppends DEF Whole
<1> QED
  BY <1>2, <1>5, <1>6, <1>7, Zenon DEF Whole

\* The list that is open, as a set.
OpenList(list) == IF list = Mark!None THEN {} ELSE {list}

\* Lists can be put together in either order.
Regroups(f, g, h) == (f \o g) \o h = f \o (g \o h)

LEMMA Regrouping == \A S : \A f, g, h \in Seq(S) : Regroups(f, g, h)
BY ConcatAssociative, Zenon DEF Regroups

LEMMA OneMore ==
    ASSUME NEW S, NEW s \in Seq(S), NEW e \in S
    PROVE  s \o <<e>> = Append(s, e)
<1> DEFINE t == <<e>>
<1>1. t \in Seq(S) /\ Len(t) = 1 /\ t[1] = e
  OBVIOUS
<1> HIDE DEF t
<1>2. PICK m \in Nat : m = Len(s)
  BY LenProperties
<1>3. s \o t \in Seq(S) /\ Len(s \o t) = m + 1
      /\ \A i \in 1..m + 1 : (s \o t)[i] = IF i <= m THEN s[i] ELSE t[i - m]
  <2>1. s \o t \in Seq(S) /\ Len(s \o t) = Len(s) + Len(t)
        /\ \A i \in 1..Len(s) + Len(t) : (s \o t)[i] = IF i <= Len(s) THEN s[i] ELSE t[i - Len(s)]
    BY <1>1, ConcatProperties, Zenon
  <2> QED
    BY <1>1, <1>2, <2>1, Zenon
<1>4. Append(s, e) \in Seq(S) /\ Len(Append(s, e)) = m + 1
      /\ Append(s, e)[m + 1] = e /\ \A i \in 1..m : Append(s, e)[i] = s[i]
  BY <1>2, AppendProperties
<1>5. ASSUME NEW i \in 1..m + 1 PROVE (s \o t)[i] = Append(s, e)[i]
  <2>1. CASE i = m + 1
    <3>1. ~(i <= m) /\ i - m = 1
      BY <2>1
    <3> QED
      BY <1>1, <1>3, <1>4, <2>1, <3>1
  <2>2. CASE i # m + 1
    <3>1. i \in 1..m /\ i <= m
      BY <2>2
    <3> QED
      BY <1>3, <1>4, <3>1
  <2> QED
    BY <2>1, <2>2
<1>6. s \o t = Append(s, e)
  BY <1>3, <1>4, <1>5, SeqEqual
<1> QED
  BY <1>6 DEF t

\* The paragraph is written where no list is open.
LEMMA ParaFits ==
    ASSUME NEW h, NEW w \in Seq(Nat), NEW ps \in Seq(Nat), NEW f, NEW list \in Mark!Lists \cup {Mark!None},
           Whole(h, OpenList(list), w), ps # <<>> => list = Mark!None,
           f = IF ps = <<>> THEN <<>> ELSE <<Mark!Element("p", ps)>>
    PROVE  Whole(h \o f, OpenList(list), w \o ps)
<1>1. h \in Seq(MarkParts)
  BY DEF Whole
<1>2. CASE ps = <<>>
  <2>1. h \o f = h /\ w \o ps = w
    BY <1>1, <1>2, ConcatEmptySeq
  <2> QED
    BY <2>1
<1>3. CASE ps # <<>>
  <2> DEFINE p == Mark!Element("p", ps)
  <2>1. p \in MarkParts /\ p.tag = "element" /\ p.of = "p" /\ p.lines = ps
    BY DEF Mark!Element, MarkParts, MarkKinds
  <2>2. h \o f = Append(h, p)
    <3>1. f = <<p>>
      BY <1>3
    <3> HIDE DEF p
    <3> QED
      BY <1>1, <2>1, <3>1, OneMore
  <2> HIDE DEF p
  <2>3. OpenList(list) = {}
    BY <1>3 DEF OpenList
  <2>4. Mark!Fits(p, OpenList(list))
    BY <2>1, <2>3 DEF Mark!Fits, Mark!Lists
  <2>5. LeavesOpen(p, OpenList(list)) = OpenList(list)
    BY <2>1 DEF LeavesOpen
  <2> QED
    BY <2>1, <2>2, <2>4, <2>5, PartFits
<1> QED
  BY <1>2, <1>3

\* The list that is open is closed.
LEMMA CloseFits ==
    ASSUME NEW h, NEW w \in Seq(Nat), NEW c, NEW list \in Mark!Lists \cup {Mark!None},
           Whole(h, OpenList(list), w),
           c = IF list = Mark!None THEN <<>> ELSE <<Mark!Closes(list)>>
    PROVE  Whole(h \o c, {}, w)
<1>1. h \in Seq(MarkParts)
  BY DEF Whole
<1>2. CASE list = Mark!None
  <2>1. h \o c = h /\ OpenList(list) = {}
    BY <1>1, <1>2, ConcatEmptySeq DEF OpenList
  <2> QED
    BY <2>1
<1>3. CASE list # Mark!None
  <2> DEFINE p == Mark!Closes(list)
  <2>1. p \in MarkParts /\ p.tag = "close" /\ p.of = list /\ p.lines = <<>>
    BY <1>3 DEF Mark!Closes, MarkParts, MarkKinds, Mark!LineKinds, Mark!Lists
  <2>2. h \o c = Append(h, p)
    <3>1. c = <<p>>
      BY <1>3
    <3> HIDE DEF p
    <3> QED
      BY <1>1, <2>1, <3>1, OneMore
  <2> HIDE DEF p
  <2>3. Mark!Fits(p, OpenList(list))
    BY <1>3, <2>1 DEF Mark!Fits, OpenList
  <2>4. LeavesOpen(p, OpenList(list)) = {} /\ w \o p.lines = w
    BY <2>1, ConcatEmptySeq DEF LeavesOpen
  <2> QED
    BY <2>1, <2>2, <2>3, <2>4, PartFits
<1> QED
  BY <1>2, <1>3

\* An element that stands where it may adds its lines.
LEMMA ElementFits ==
    ASSUME NEW h, NEW w \in Seq(Nat), NEW kind \in Mark!LineKinds, NEW n \in Nat, NEW open,
           Whole(h, open, w), open = IF kind \in Mark!Lists THEN {kind} ELSE {}
    PROVE  Whole(Append(h, Mark!Element(kind, <<n>>)), open, w \o <<n>>)
<1> DEFINE p == Mark!Element(kind, <<n>>)
<1>1. p \in MarkParts /\ p.tag = "element" /\ p.of = kind /\ p.lines = <<n>>
  BY DEF Mark!Element, MarkParts, MarkKinds
<1> HIDE DEF p
<1>2. Mark!Fits(p, open) /\ LeavesOpen(p, open) = open
  BY <1>1 DEF Mark!Fits, LeavesOpen
<1>3. Whole(Append(h, p), open, w \o <<n>>)
  BY <1>1, <1>2, PartFits
<1> QED
  BY <1>3 DEF p

\* The list of an item is open before it.
LEMMA EnterFits ==
    ASSUME NEW h, NEW w \in Seq(Nat), NEW e, NEW list \in Mark!Lists \cup {Mark!None}, NEW new \in Mark!Lists,
           Whole(h, OpenList(list), w),
           e = IF list = new THEN <<>>
               ELSE Append(IF list = Mark!None THEN <<>> ELSE <<Mark!Closes(list)>>, Mark!Opens(new))
    PROVE  Whole(h \o e, {new}, w)
<1>1. h \in Seq(MarkParts)
  BY DEF Whole
<1>2. CASE list = new
  <2>1. h \o e = h
    BY <1>1, <1>2, ConcatEmptySeq
  <2>2. OpenList(list) = {new}
    BY <1>2 DEF OpenList, Mark!Lists, Mark!None
  <2> QED
    BY <2>1, <2>2
<1>3. CASE list # new
  <2> DEFINE p == Mark!Opens(new)
             c == IF list = Mark!None THEN <<>> ELSE <<Mark!Closes(list)>>
  <2>1. p \in MarkParts /\ p.tag = "open" /\ p.of = new /\ p.lines = <<>>
    BY DEF Mark!Opens, MarkParts, MarkKinds, Mark!LineKinds, Mark!Lists
  <2>2. c \in Seq(MarkParts)
    <3>1. CASE list = Mark!None
      BY <3>1
    <3>2. CASE list # Mark!None
      <4>1. Mark!Closes(list) \in MarkParts
        BY <3>2 DEF Mark!Closes, MarkParts, MarkKinds, Mark!LineKinds, Mark!Lists
      <4> QED
        BY <3>2, <4>1
    <3> QED
      BY <3>1, <3>2
  <2>3. e = Append(c, p) /\ Whole(h \o c, {}, w)
    BY <1>3, CloseFits
  <2> HIDE DEF p, c
  <2>4. h \o e = Append(h \o c, p)
    <3> DEFINE q == <<p>>
    <3>1. q \in Seq(MarkParts)
      BY <2>1
    <3>2. e = c \o q
      BY <2>1, <2>2, <2>3, OneMore
    <3>3. h \o c \in Seq(MarkParts)
      BY <1>1, <2>2
    <3>4. (h \o c) \o q = Append(h \o c, p)
      BY <2>1, <3>3, OneMore
    <3> HIDE DEF q
    <3>5. h \o (c \o q) = (h \o c) \o q
      <4>1. Regroups(h, c, q)
        BY <1>1, <2>2, <3>1, Regrouping
      <4> QED
        BY <4>1 DEF Regroups
    <3> QED
      BY <3>2, <3>4, <3>5
  <2>5. Mark!Fits(p, {}) /\ LeavesOpen(p, {}) = {new} /\ w \o p.lines = w
    BY <2>1, ConcatEmptySeq DEF Mark!Fits, LeavesOpen
  <2> QED
    BY <2>1, <2>3, <2>4, <2>5, PartFits
<1> QED
  BY <1>2, <1>3

\* Lines t of text s, in order: all that are not blank, of its first n.
Tells(t, s, n) ==
    /\ t \in Seq(Nat)
    /\ \A j, k \in 1..Len(t) : j < k => t[j] < t[k]
    /\ \A k \in 1..Len(t) : t[k] \in 1..n /\ t[k] \in 1..Len(s) /\ s[t[k]] # "blank"
    /\ \A i \in 1..Len(s) : i <= n /\ s[i] # "blank" => \E k \in 1..Len(t) : t[k] = i

LEMMA BlankTells ==
    ASSUME NEW t, NEW s, NEW n \in Nat, Tells(t, s, n), Len(s) \in Nat,
           n + 1 \in 1..Len(s) => s[n + 1] = "blank"
    PROVE  Tells(t, s, n + 1)
<1>1. PICK m \in Nat : m = Len(s)
  OBVIOUS
<1>2. \A i \in 1..n : i \in 1..n + 1
  OBVIOUS
<1>3. \A i \in 1..m : i <= n + 1 /\ s[i] # "blank" => i <= n
  <2> SUFFICES ASSUME NEW i \in 1..m, i <= n + 1, s[i] # "blank" PROVE i <= n
    OBVIOUS
  <2>1. i # n + 1
    BY <1>1
  <2> QED
    BY <2>1
<1> QED
  BY <1>1, <1>2, <1>3 DEF Tells

LEMMA LineTells ==
    ASSUME NEW t, NEW s, NEW n \in Nat, Tells(t, s, n), Len(s) \in Nat,
           n + 1 \in 1..Len(s), s[n + 1] # "blank"
    PROVE  Tells(Append(t, n + 1), s, n + 1)
<1>1. PICK m \in Nat : m = Len(s)
  OBVIOUS
<1>2. t \in Seq(Nat)
  BY DEF Tells
<1>3. PICK l \in Nat : l = Len(t)
  BY <1>2
<1>4. PICK a \in Seq(Nat) : a = Append(t, n + 1)
  <2>1. PICK a : a = Append(t, n + 1)
    OBVIOUS
  <2>2. a \in Seq(Nat)
    BY <1>2, <2>1, AppendProperties
  <2> QED
    BY <2>1, <2>2
<1>5. Len(a) = l + 1 /\ a[l + 1] = n + 1
  BY <1>2, <1>3, <1>4, AppendProperties
<1>6. \A k \in 1..l : a[k] = t[k]
  BY <1>2, <1>3, <1>4, AppendProperties
<1>7. \A k \in 1..l : t[k] \in 1..n /\ t[k] \in 1..m /\ s[t[k]] # "blank"
  BY <1>1, <1>3 DEF Tells
<1>8. \A k \in 1..l + 1 : k # l + 1 => k \in 1..l
  OBVIOUS
<1>9. ASSUME NEW k \in 1..l + 1
      PROVE  a[k] \in 1..n + 1 /\ a[k] \in 1..m /\ s[a[k]] # "blank"
  <2>1. CASE k = l + 1
    BY <1>1, <1>5, <2>1
  <2>2. CASE k # l + 1
    <3>1. k \in 1..l /\ a[k] = t[k]
      BY <1>6, <1>8, <2>2
    <3>2. PICK x \in 1..n : x = t[k]
      BY <1>7, <3>1
    <3> QED
      BY <1>7, <3>1, <3>2
  <2> QED
    BY <2>1, <2>2
<1>10. ASSUME NEW j \in 1..l + 1, NEW k \in 1..l + 1, j < k
       PROVE  a[j] < a[k]
  <2>1. j \in 1..l /\ a[j] = t[j]
    <3>1. j \in 1..l
      BY <1>10
    <3> QED
      BY <1>6, <3>1
  <2>2. CASE k = l + 1
    <3>1. PICK x \in 1..n : x = t[j]
      BY <1>7, <2>1
    <3> QED
      BY <1>5, <2>1, <2>2, <3>1
  <2>3. CASE k # l + 1
    <3>1. k \in 1..l /\ a[k] = t[k]
      BY <1>6, <1>8, <2>3
    <3>2. t[j] < t[k]
      BY <1>3, <1>10, <2>1, <3>1 DEF Tells
    <3> QED
      BY <2>1, <3>1, <3>2
  <2> QED
    BY <2>2, <2>3
<1>11. ASSUME NEW i \in 1..m, i <= n + 1, s[i] # "blank"
       PROVE  \E k \in 1..l + 1 : a[k] = i
  <2>1. CASE i = n + 1
    <3>1. l + 1 \in 1..l + 1
      OBVIOUS
    <3> QED
      BY <1>5, <2>1, <3>1
  <2>2. CASE i # n + 1
    <3>1. i <= n
      BY <1>11, <2>2
    <3>2. PICK k \in 1..l : t[k] = i
      BY <1>1, <1>3, <1>11, <3>1 DEF Tells
    <3>3. k \in 1..l + 1
      OBVIOUS
    <3> QED
      BY <1>6, <3>2, <3>3
  <2> QED
    BY <2>1, <2>2
<1>12. Tells(a, s, n + 1)
  BY <1>1, <1>4, <1>5, <1>9, <1>10, <1>11 DEF Tells
<1> QED
  BY <1>4, <1>12

\* What is written and what is kept say what was read.
MarkIInv ==
    /\ src \in Seq(Mark!LineKinds) /\ over \in 0..Len(src) + 1
    /\ inList \in Mark!Lists \cup {Mark!None} /\ para \in Seq(Nat)
    /\ para # <<>> => inList = Mark!None
    /\ over > Len(src) => inList = Mark!None /\ para = <<>>
    /\ Whole(html, OpenList(inList), Mark!WrittenIn(html))
    /\ Tells(Mark!WrittenIn(html) \o para, src, over)

LEMMA MarkStarts == Mark!Init => MarkIInv
<1> SUFFICES ASSUME Mark!Init PROVE MarkIInv
  OBVIOUS
<1>1. src \in Seq(Mark!LineKinds) /\ html = <<>> /\ inList = Mark!None /\ para = <<>> /\ over = 0
  <2>1. src \in UNION {[1..n -> Mark!LineKinds] : n \in 0..MaxLines}
    BY DEF Mark!Init
  <2>2. PICK n \in 0..MaxLines : src \in [1..n -> Mark!LineKinds]
    BY <2>1
  <2>3. n \in Nat
    OBVIOUS
  <2>4. src \in Seq(Mark!LineKinds)
    BY <2>2, <2>3, SeqDef
  <2> QED
    BY <2>4 DEF Mark!Init
<1>2. PICK s : s = src
  OBVIOUS
<1>3. Len(s) \in Nat
  BY <1>1, <1>2
<1>4. <<>> \in Seq(MarkParts) /\ Len(<<>>) = 0
  OBVIOUS
<1>5. Whole(<<>>, {}, <<>>)
  <2>1. Mark!OpenIn(<<>>, 1) = {}
    BY DEF Mark!OpenIn
  <2> QED
    BY <1>4, <2>1, NothingWritten DEF Whole
<1>6. Tells(<<>>, s, 0)
  BY <1>3 DEF Tells
<1>7. <<>> \o <<>> = <<>>
  OBVIOUS
<1>8. over \in 0..Len(s) + 1 /\ ~(over > Len(s))
  BY <1>1, <1>3
<1> QED
  BY <1>1, <1>2, <1>3, <1>5, <1>6, <1>7, <1>8, NothingWritten DEF MarkIInv, OpenList

\* The paragraph and the list are written, in this order.
LEMMA BothFit ==
    ASSUME MarkIInv
    PROVE  /\ Mark!WrittenIn(html) \o para \in Seq(Nat)
           /\ Whole(html \o Mark!FlushPara, OpenList(inList), Mark!WrittenIn(html) \o para)
           /\ Whole(html \o Mark!FlushPara \o Mark!CloseList, {}, Mark!WrittenIn(html) \o para)
<1>1. PICK w : w = Mark!WrittenIn(html)
  OBVIOUS
<1>2. /\ inList \in Mark!Lists \cup {Mark!None} /\ para \in Seq(Nat)
      /\ para # <<>> => inList = Mark!None
      /\ Whole(html, OpenList(inList), w)
  BY <1>1 DEF MarkIInv
<1>3. w \in Seq(Nat)
  <2>1. html \in Seq(MarkParts)
    BY <1>2 DEF Whole
  <2> QED
    BY <1>1, <2>1, WritingIsLines
<1>4. PICK f : f = Mark!FlushPara
  OBVIOUS
<1>5. Whole(html \o f, OpenList(inList), w \o para)
  <2>1. f = IF para = <<>> THEN <<>> ELSE <<Mark!Element("p", para)>>
    BY <1>4 DEF Mark!FlushPara
  <2> QED
    BY <1>2, <1>3, <2>1, ParaFits
<1>6. PICK h : h = html \o f
  OBVIOUS
<1>7. PICK u \in Seq(Nat) : u = w \o para
  BY <1>2, <1>3, ConcatProperties
<1>8. PICK c : c = Mark!CloseList
  OBVIOUS
<1>9. Whole(h \o c, {}, u)
  <2>1. c = IF inList = Mark!None THEN <<>> ELSE <<Mark!Closes(inList)>>
    BY <1>8 DEF Mark!CloseList
  <2>2. Whole(h, OpenList(inList), u)
    BY <1>5, <1>6, <1>7
  <2> QED
    BY <1>2, <2>1, <2>2, CloseFits
<1> QED
  BY <1>1, <1>4, <1>5, <1>6, <1>7, <1>8, <1>9

LEMMA MarkBecomes ==
    ASSUME NEW h, NEW l \in Mark!Lists \cup {Mark!None}, NEW ps \in Seq(Nat), NEW n \in Nat, NEW w,
           html' = h, inList' = l, para' = ps, over' = n, src' = src, src \in Seq(Mark!LineKinds),
           n <= Len(src) + 1, ps # <<>> => l = Mark!None, n > Len(src) => l = Mark!None /\ ps = <<>>,
           Whole(h, OpenList(l), w), Tells(w \o ps, src, n)
    PROVE  MarkIInv'
<1>1. PICK s : s = src
  OBVIOUS
<1>2. n \in 0..Len(s) + 1
  <2>1. PICK m \in Nat : m = Len(s)
    BY <1>1
  <2> QED
    BY <1>1, <2>1
<1>3. w = Mark!WrittenIn(h)
  BY DEF Whole
<1> QED
  BY <1>1, <1>2, <1>3 DEF MarkIInv

\* The line that is read is the next one, and there is one.
LEMMA LineIsRead ==
    ASSUME MarkIInv, NEW kinds, Mark!Reads(kinds)
    PROVE  /\ over \in Nat /\ over + 1 \in Nat /\ over + 1 <= Len(src) + 1 /\ ~(over + 1 > Len(src))
           /\ over + 1 \in 1..Len(src) /\ src[over + 1] = Mark!Line /\ Mark!Line \in kinds /\ Mark!Line \in Mark!LineKinds
           /\ over' = over + 1 /\ src' = src /\ src \in Seq(Mark!LineKinds) /\ Len(src) \in Nat
<1>1. src \in Seq(Mark!LineKinds) /\ over \in 0..Len(src) + 1
  BY DEF MarkIInv
<1>2. over < Len(src) /\ Mark!Line \in kinds /\ over' = over + 1 /\ src' = src
  BY DEF Mark!Reads
<1>3. PICK m \in Nat : m = Len(src)
  BY <1>1
<1>4. PICK n \in 0..m + 1 : n = over
  BY <1>1, <1>3
<1>5. n + 1 \in 1..m /\ n + 1 \in Nat /\ n + 1 <= m + 1 /\ ~(n + 1 > m) /\ n \in Nat
  BY <1>2, <1>3, <1>4
<1>6. src[over + 1] = Mark!Line
  BY DEF Mark!Line
<1>7. src[n + 1] \in Mark!LineKinds
  BY <1>1, <1>3, <1>5, ElementOfSeq
<1> QED
  BY <1>1, <1>2, <1>3, <1>4, <1>5, <1>6, <1>7

LEMMA BlankKeeps ==
    ASSUME MarkIInv, Mark!Blank
    PROVE  MarkIInv'
<1>1. Mark!Reads({"blank"}) /\ inList' = Mark!None /\ para' = <<>>
  BY DEF Mark!Blank
<1>2. PICK h : h = html \o Mark!FlushPara \o Mark!CloseList
  OBVIOUS
<1>3. PICK u \in Seq(Nat) : u = Mark!WrittenIn(html) \o para
  BY BothFit
<1>4. html' = h /\ Whole(h, {}, u)
  BY <1>2, <1>3, BothFit DEF Mark!Blank
<1>5. Tells(u, src, over)
  BY <1>3 DEF MarkIInv
<1>6. PICK n \in Nat : n = over + 1
  BY <1>1, LineIsRead
<1>7. Tells(u, src, n)
  <2>1. src[over + 1] = "blank" /\ over \in Nat /\ Len(src) \in Nat
    BY <1>1, LineIsRead
  <2> QED
    BY <1>5, <1>6, <2>1, BlankTells
<1>8. u \o <<>> = u /\ <<>> \in Seq(Nat)
  BY ConcatEmptySeq
<1>9. Whole(h, OpenList(Mark!None), u)
  BY <1>4 DEF OpenList
<1>10. over' = n /\ src' = src /\ src \in Seq(Mark!LineKinds) /\ n <= Len(src) + 1 /\ ~(n > Len(src))
  BY <1>1, <1>6, LineIsRead
<1> QED
  BY <1>1, <1>4, <1>7, <1>8, <1>9, <1>10, MarkBecomes

LEMMA BlockKeeps ==
    ASSUME MarkIInv, Mark!Block
    PROVE  MarkIInv'
<1>1. Mark!Reads({"heading", "quote", "rule"}) /\ inList' = Mark!None /\ para' = <<>>
  BY DEF Mark!Block
<1>2. PICK h : h = html \o Mark!FlushPara \o Mark!CloseList
  OBVIOUS
<1>3. PICK u \in Seq(Nat) : u = Mark!WrittenIn(html) \o para
  BY BothFit
<1>4. PICK n \in Nat : n = over + 1
  BY <1>1, LineIsRead
<1>5. PICK kind \in Mark!LineKinds : kind = Mark!Line /\ kind \in {"heading", "quote", "rule"}
  BY <1>1, LineIsRead
<1>6. Whole(h, {}, u) /\ html' = Append(h, Mark!Element(kind, <<n>>))
  BY <1>2, <1>3, <1>4, <1>5, BothFit DEF Mark!Block
<1>7. Whole(html', {}, u \o <<n>>)
  <2>1. {} = IF kind \in Mark!Lists THEN {kind} ELSE {}
    BY <1>5 DEF Mark!Lists
  <2> QED
    BY <1>6, <2>1, ElementFits
<1>8. Tells(u, src, over)
  BY <1>3 DEF MarkIInv
<1>9. Tells(Append(u, n), src, n)
  <2>1. src[over + 1] # "blank" /\ over \in Nat /\ Len(src) \in Nat /\ over + 1 \in 1..Len(src)
    BY <1>1, LineIsRead
  <2> QED
    BY <1>4, <1>8, <2>1, LineTells
<1>10. PICK w \in Seq(Nat) : w = Append(u, n)
  <2>1. Append(u, n) \in Seq(Nat)
    BY <1>3, <1>4, AppendProperties
  <2> QED
    BY <2>1
<1>11. u \o <<n>> = w /\ w \o <<>> = w /\ <<>> \in Seq(Nat)
  BY <1>10, OneMore, ConcatEmptySeq
<1>12. PICK g : g = html'
  OBVIOUS
<1>13. Whole(g, OpenList(Mark!None), w)
  BY <1>7, <1>11, <1>12 DEF OpenList
<1>14. over' = n /\ src' = src /\ src \in Seq(Mark!LineKinds) /\ n <= Len(src) + 1 /\ ~(n > Len(src))
  BY <1>1, <1>4, LineIsRead
<1> QED
  BY <1>1, <1>9, <1>10, <1>11, <1>12, <1>13, <1>14, MarkBecomes

LEMMA ItemKeeps ==
    ASSUME MarkIInv, Mark!Item
    PROVE  MarkIInv'
<1>1. Mark!Reads(Mark!Lists) /\ inList' = Mark!Line /\ para' = <<>>
  BY DEF Mark!Item
<1>2. PICK h : h = html \o Mark!FlushPara
  OBVIOUS
<1>3. PICK u \in Seq(Nat) : u = Mark!WrittenIn(html) \o para
  BY BothFit
<1>4. PICK n \in Nat : n = over + 1
  BY <1>1, LineIsRead
<1>5. PICK kind \in Mark!LineKinds : kind = Mark!Line /\ kind \in Mark!Lists
  BY <1>1, LineIsRead
<1>6. PICK e : e = Mark!Enters(kind)
  OBVIOUS
<1>7. html' = Append(h \o e, Mark!Element(kind, <<n>>))
  BY <1>2, <1>4, <1>5, <1>6 DEF Mark!Item
<1>8. Whole(h \o e, {kind}, u)
  <2>1. Whole(h, OpenList(inList), u) /\ inList \in Mark!Lists \cup {Mark!None}
    BY <1>2, <1>3, BothFit DEF MarkIInv
  <2>2. e = IF inList = kind THEN <<>>
            ELSE Append(IF inList = Mark!None THEN <<>> ELSE <<Mark!Closes(inList)>>, Mark!Opens(kind))
    BY <1>6 DEF Mark!Enters, Mark!CloseList
  <2> QED
    BY <1>3, <1>5, <2>1, <2>2, EnterFits
<1>9. Whole(html', {kind}, u \o <<n>>)
  <2>1. {kind} = IF kind \in Mark!Lists THEN {kind} ELSE {}
    BY <1>5
  <2> QED
    BY <1>7, <1>8, <2>1, ElementFits
<1>10. Tells(u, src, over)
  BY <1>3 DEF MarkIInv
<1>11. Tells(Append(u, n), src, n)
  <2>1. src[over + 1] # "blank" /\ over \in Nat /\ Len(src) \in Nat /\ over + 1 \in 1..Len(src)
    BY <1>1, LineIsRead DEF Mark!Lists
  <2> QED
    BY <1>4, <1>10, <2>1, LineTells
<1>12. PICK w \in Seq(Nat) : w = Append(u, n)
  <2>1. Append(u, n) \in Seq(Nat)
    BY <1>3, <1>4, AppendProperties
  <2> QED
    BY <2>1
<1>13. u \o <<n>> = w /\ w \o <<>> = w /\ <<>> \in Seq(Nat)
  BY <1>12, OneMore, ConcatEmptySeq
<1>14. PICK g : g = html'
  OBVIOUS
<1>15. Whole(g, OpenList(kind), w) /\ kind \in Mark!Lists \cup {Mark!None}
  BY <1>5, <1>9, <1>13, <1>14 DEF OpenList, Mark!Lists, Mark!None
<1>16. over' = n /\ src' = src /\ src \in Seq(Mark!LineKinds) /\ n <= Len(src) + 1 /\ ~(n > Len(src))
  BY <1>1, <1>4, LineIsRead
<1> QED
  BY <1>1, <1>5, <1>11, <1>12, <1>13, <1>14, <1>15, <1>16, MarkBecomes

LEMMA PlainKeeps ==
    ASSUME MarkIInv, Mark!Plain
    PROVE  MarkIInv'
<1>1. Mark!Reads({"text"}) /\ inList' = Mark!None
  BY DEF Mark!Plain
<1>2. PICK n \in Nat : n = over + 1
  BY <1>1, LineIsRead
<1>3. PICK w \in Seq(Nat) : w = Mark!WrittenIn(html)
  <2>1. html \in Seq(MarkParts)
    BY DEF MarkIInv, Whole
  <2> QED
    BY <2>1, WritingIsLines
<1>4. PICK c : c = Mark!CloseList
  OBVIOUS
<1>5. PICK h : h = html \o c /\ h = html'
  BY <1>4 DEF Mark!Plain
<1>6. Whole(h, {}, w)
  <2>1. c = IF inList = Mark!None THEN <<>> ELSE <<Mark!Closes(inList)>>
    BY <1>4 DEF Mark!CloseList
  <2>2. Whole(html, OpenList(inList), w) /\ inList \in Mark!Lists \cup {Mark!None}
    BY <1>3 DEF MarkIInv
  <2> QED
    BY <1>3, <1>5, <2>1, <2>2, CloseFits
<1>7. para \in Seq(Nat) /\ Tells(w \o para, src, over)
  BY <1>3 DEF MarkIInv
<1>8. PICK ps \in Seq(Nat) : ps = Append(para, n) /\ para' = ps
  <2>1. Append(para, n) \in Seq(Nat)
    BY <1>2, <1>7
  <2> QED
    BY <1>2, <2>1 DEF Mark!Plain
<1>9. w \o ps = Append(w \o para, n)
  <2> DEFINE q == <<n>>
  <2>1. q \in Seq(Nat)
    BY <1>2
  <2>2. ps = para \o q
    BY <1>2, <1>7, <1>8, OneMore
  <2>3. w \o para \in Seq(Nat)
    BY <1>3, <1>7, ConcatProperties
  <2>4. (w \o para) \o q = Append(w \o para, n)
    BY <1>2, <2>3, OneMore
  <2> HIDE DEF q
  <2>5. w \o (para \o q) = (w \o para) \o q
    <3>1. Regroups(w, para, q)
      BY <1>3, <1>7, <2>1, Regrouping
    <3> QED
      BY <3>1 DEF Regroups
  <2> QED
    BY <2>2, <2>4, <2>5
<1>10. Tells(w \o ps, src, n)
  <2>1. src[over + 1] # "blank" /\ over \in Nat /\ Len(src) \in Nat /\ over + 1 \in 1..Len(src)
    BY <1>1, LineIsRead
  <2> QED
    BY <1>2, <1>7, <1>9, <2>1, LineTells
<1>11. over' = n /\ src' = src /\ src \in Seq(Mark!LineKinds) /\ n <= Len(src) + 1 /\ ~(n > Len(src))
  BY <1>1, <1>2, LineIsRead
<1>12. Whole(h, OpenList(Mark!None), w)
  BY <1>6 DEF OpenList
<1> QED
  BY <1>1, <1>5, <1>8, <1>10, <1>11, <1>12, MarkBecomes

LEMMA FinishKeeps ==
    ASSUME MarkIInv, Mark!Finish
    PROVE  MarkIInv'
<1>1. inList' = Mark!None /\ para' = <<>> /\ over = Len(src) /\ over' = over + 1 /\ src' = src
  BY DEF Mark!Finish
<1>2. PICK h : h = html \o Mark!FlushPara \o Mark!CloseList
  OBVIOUS
<1>3. PICK u \in Seq(Nat) : u = Mark!WrittenIn(html) \o para
  BY BothFit
<1>4. html' = h /\ Whole(h, {}, u)
  BY <1>2, <1>3, BothFit DEF Mark!Finish
<1>5. Tells(u, src, over) /\ src \in Seq(Mark!LineKinds)
  BY <1>3 DEF MarkIInv
<1>6. PICK m \in Nat : m = Len(src)
  BY <1>5
<1>7. PICK n \in Nat : n = m + 1
  OBVIOUS
<1>8. over = m /\ over' = n /\ n <= m + 1
  BY <1>1, <1>6, <1>7
<1>9. Tells(u, src, n)
  <2>1. m + 1 \notin 1..Len(src) /\ Len(src) \in Nat
    BY <1>6
  <2> QED
    BY <1>5, <1>7, <1>8, <2>1, BlankTells
<1>10. u \o <<>> = u /\ <<>> \in Seq(Nat)
  BY ConcatEmptySeq
<1>11. Whole(h, OpenList(Mark!None), u)
  BY <1>4 DEF OpenList
<1> QED
  BY <1>1, <1>4, <1>5, <1>6, <1>8, <1>9, <1>10, <1>11, MarkBecomes

\* Every line leaves it.
LEMMA MarkGoes == MarkIInv /\ [Mark!Next]_Mark!vars => MarkIInv'
<1>1. MarkIInv /\ UNCHANGED Mark!vars => MarkIInv'
  BY DEF MarkIInv, Mark!vars
<1> QED
  BY <1>1, BlankKeeps, BlockKeeps, ItemKeeps, PlainKeeps, FinishKeeps DEF Mark!Next

\* MarkIInv holds always.
THEOREM MarkInvariance == AllSpec => [](part = "markdown" => MarkIInv)
<1>1. AllInit => (part = "markdown" => MarkIInv)
  BY PartsAssumption, MarkStarts DEF AllInit
<1>2. (part = "markdown" => MarkIInv) /\ [AllNext]_AllVars => (part = "markdown" => MarkIInv)'
  <2> SUFFICES ASSUME part = "markdown" => MarkIInv, [AllNext]_AllVars, part' = "markdown"
               PROVE  MarkIInv'
    OBVIOUS
  <2>1. part = "markdown" /\ [Mark!Next]_Mark!vars
    BY DEF AllNext, AllVars, InRun, NotebookVars, MarkVars, Mark!vars
  <2> QED
    BY <2>1, MarkGoes
<1> QED
  BY <1>1, <1>2, PTL DEF AllSpec

\* _tiny_markdown_to_html(): whatever follows whatever, tags nest, items are in a list of
\* their kind, and every line with text is written once, in its place.
THEOREM NotesAreWhole == AllSpec => []HtmlIsWhole
<1>1. MarkIInv => Mark!TypeOK /\ Mark!HtmlIsWhole
  <2> SUFFICES ASSUME MarkIInv PROVE Mark!TypeOK /\ Mark!HtmlIsWhole
    OBVIOUS
  <2>1. PICK w \in Seq(Nat) : w = Mark!WrittenIn(html)
    <3>1. html \in Seq(MarkParts)
      BY DEF MarkIInv, Whole
    <3> QED
      BY <3>1, WritingIsLines
  <2>2. PICK m \in Nat : m = Len(src)
    BY DEF MarkIInv
  <2>3. /\ src \in Seq(Mark!LineKinds) /\ over \in 0..m + 1 /\ para \in Seq(Nat)
        /\ inList \in Mark!Lists \cup {Mark!None} /\ Tells(w \o para, src, over)
        /\ Whole(html, OpenList(inList), w)
        /\ over > m => inList = Mark!None /\ para = <<>>
    BY <2>1, <2>2 DEF MarkIInv
  <2>4. \A i \in DOMAIN para : para[i] \in 1..Len(src)
    <3> SUFFICES ASSUME NEW i \in DOMAIN para PROVE para[i] \in 1..m
      BY <2>2
    <3>1. PICK l \in Nat, k \in Nat : l = Len(w) /\ k = Len(para)
      BY <2>1, <2>3
    <3>2. i \in 1..k
      BY <2>3, <3>1
    <3>3. PICK j \in 1..l + k : j = l + i
      BY <3>2
    <3>4. ~(j <= l) /\ j - l = i
      BY <3>2, <3>3
    <3>5. Len(w \o para) = l + k /\ (w \o para)[j] = para[i]
      <4>1. /\ Len(w \o para) = Len(w) + Len(para)
            /\ \A x \in 1..Len(w) + Len(para) : (w \o para)[x] = IF x <= Len(w) THEN w[x] ELSE para[x - Len(w)]
        BY <2>3, ConcatProperties
      <4> QED
        BY <3>1, <3>4, <4>1, Zenon
    <3> QED
      BY <2>2, <2>3, <3>5 DEF Tells
  <2>5. Mark!TypeOK
    BY <2>2, <2>3, <2>4 DEF Mark!TypeOK
  <2>6. \A k \in 1..Len(html) : Mark!Fits(html[k], Mark!OpenIn(html, k))
    BY <2>3 DEF Whole
  <2>7. ASSUME over > Len(src)
        PROVE  /\ Mark!OpenIn(html, Len(html) + 1) = {}
               /\ \A j, k \in 1..Len(w) : j < k => w[j] < w[k]
               /\ {w[k] : k \in 1..Len(w)} = {n \in DOMAIN src : src[n] # "blank"}
    <3>1. inList = Mark!None /\ w \o para = w
      BY <2>2, <2>3, <2>7, ConcatEmptySeq
    <3>2. Mark!OpenIn(html, Len(html) + 1) = {}
      BY <2>3, <3>1 DEF Whole, OpenList
    <3>3. /\ \A j, k \in 1..Len(w) : j < k => w[j] < w[k]
          /\ \A k \in 1..Len(w) : w[k] \in 1..m /\ src[w[k]] # "blank"
          /\ \A i \in 1..m : i <= over /\ src[i] # "blank" => \E k \in 1..Len(w) : w[k] = i
      BY <2>2, <2>3, <3>1 DEF Tells
    <3>4. \A i \in 1..m : i <= over
      BY <2>2, <2>3, <2>7
    <3>5. DOMAIN src = 1..m
      BY <2>2, <2>3
    <3>6. {w[k] : k \in 1..Len(w)} = {n \in DOMAIN src : src[n] # "blank"}
      BY <3>3, <3>4, <3>5
    <3> QED
      BY <3>2, <3>3, <3>6
  <2>8. Mark!HtmlIsWhole
    BY <2>1, <2>6, <2>7, Zenon DEF Mark!HtmlIsWhole
  <2> QED
    BY <2>5, <2>8
<1>2. (part = "markdown" => MarkIInv) => HtmlIsWhole
  BY <1>1 DEF HtmlIsWhole
<1> QED
  BY <1>2, MarkInvariance, PTL

-----------------------------------------------------------------------------
(* NotebookPages: any notebook, in any layout *)

\* The lists of the module are the library's.
LEMMA ShowLists ==
    /\ \A s, T : Show!Selected(s, T) = Selected(s, T)
    /\ \A ss : Show!Joined(ss) = Joined(ss)
<1>1. \A s, T : Show!Selected(s, T) = Selected(s, T)
  BY Zenon DEF Show!Selected, Selected
<1>2. \A ss : Show!Joined(ss) = Joined(ss)
  BY Zenon DEF Show!Joined, Joined
<1> QED
  BY <1>1, <1>2

Rising(s) == \A j, k \in 1..Len(s) : j < k => s[j] < s[k]

\* What is selected of a list that rises, rises.
LEMMA SelectedRises ==
    ASSUME NEW s \in Seq(Nat), Rising(s), NEW T
    PROVE  /\ Selected(s, T) \in Seq(Nat) /\ Rising(Selected(s, T))
           /\ \A x : (\E k \in 1..Len(Selected(s, T)) : Selected(s, T)[k] = x)
                     <=> x \in T /\ \E k \in 1..Len(s) : s[k] = x
<1>1. PICK r \in Seq(Nat) : r = Selected(s, T)
  BY SelectedSelects
<1>2. PICK n \in Nat, l \in Nat : n = Len(s) /\ l = Len(r)
  OBVIOUS
<1>3. PICK g : /\ g \in [1..l -> 1..n]
               /\ \A j, k \in 1..l : j < k => g[j] < g[k]
               /\ \A k \in 1..l : r[k] = s[g[k]] /\ r[k] \in T
               /\ \A i \in 1..n : s[i] \in T => \E k \in 1..l : g[k] = i
  <2>1. \E g : Selects(s, T, Len(s), r, g)
    BY <1>1, SelectedSelects
  <2> QED
    BY <1>2, <2>1 DEF Selects
<1>4. Rising(r)
  <2> SUFFICES ASSUME NEW j \in 1..l, NEW k \in 1..l, j < k PROVE r[j] < r[k]
    BY <1>2 DEF Rising
  <2>1. g[j] \in 1..n /\ g[k] \in 1..n /\ g[j] < g[k]
    BY <1>3
  <2>2. s[g[j]] < s[g[k]]
    BY <1>2, <2>1 DEF Rising
  <2> QED
    BY <1>3, <2>2
<1>5. \A x : (\E k \in 1..l : r[k] = x) <=> x \in T /\ \E k \in 1..n : s[k] = x
  <2> TAKE x
  <2>1. ASSUME NEW k \in 1..l, r[k] = x
        PROVE  x \in T /\ \E i \in 1..n : s[i] = x
    <3>1. g[k] \in 1..n /\ r[k] = s[g[k]] /\ r[k] \in T
      BY <1>3
    <3> QED
      BY <2>1, <3>1
  <2>2. ASSUME x \in T, NEW i \in 1..n, s[i] = x
        PROVE  \E k \in 1..l : r[k] = x
    <3>1. PICK k \in 1..l : g[k] = i
      BY <1>3, <2>2
    <3>2. r[k] = s[i]
      BY <1>3, <3>1
    <3> QED
      BY <2>2, <3>2
  <2> QED
    BY <2>1, <2>2
<1> QED
  BY <1>1, <1>2, <1>4, <1>5

-----------------------------------------------------------------------------
(* Blocks in a row *)

BlockTypes == {"stream", "error", "markdown", "md", "codesrc", "text"} \cup Show!Range(Show!Priority)
BlockSet == [type : BlockTypes, cell : Nat, outs : Seq(Nat)]

\* Where output k of cell i is shown.
PlacesOf(f, i, k) == {j \in 1..Len(f) : f[j].cell = i /\ \E m \in 1..Len(f[j].outs) : f[j].outs[m] = k}

LEMMA ConcatPlaces ==
    ASSUME NEW f \in Seq(BlockSet), NEW e \in Seq(BlockSet), NEW i, NEW k
    PROVE  /\ \A j : PlacesOf(f, i, k) = {j} /\ PlacesOf(e, i, k) = {} => PlacesOf(f \o e, i, k) = {j}
           /\ \A j : PlacesOf(f, i, k) = {} /\ PlacesOf(e, i, k) = {j} => PlacesOf(f \o e, i, k) = {j + Len(f)}
           /\ PlacesOf(f, i, k) = {} /\ PlacesOf(e, i, k) = {} => PlacesOf(f \o e, i, k) = {}
<1>1. PICK n \in Nat, l \in Nat : n = Len(f) /\ l = Len(e)
  OBVIOUS
<1>2. PICK c \in Seq(BlockSet) : c = f \o e
  BY ConcatProperties
<1>3. Len(c) = n + l /\ \A j \in 1..n + l : c[j] = IF j <= n THEN f[j] ELSE e[j - n]
  <2>1. /\ Len(f \o e) = Len(f) + Len(e)
        /\ \A j \in 1..Len(f) + Len(e) : (f \o e)[j] = IF j <= Len(f) THEN f[j] ELSE e[j - Len(f)]
    BY ConcatProperties, Zenon
  <2> QED
    BY <1>1, <1>2, <2>1, Zenon
<1> DEFINE Has(b) == b.cell = i /\ \E m \in 1..Len(b.outs) : b.outs[m] = k
<1>4. /\ PlacesOf(f, i, k) = {j \in 1..n : Has(f[j])} /\ PlacesOf(e, i, k) = {j \in 1..l : Has(e[j])}
      /\ PlacesOf(c, i, k) = {j \in 1..n + l : Has(c[j])}
  BY <1>1, <1>3 DEF PlacesOf
<1> HIDE DEF Has
<1>5. \A j \in 1..n : j \in 1..n + l /\ c[j] = f[j]
  <2>1. \A j \in 1..n : j \in 1..n + l /\ j <= n
    OBVIOUS
  <2> QED
    BY <1>3, <2>1
<1>6. \A j \in 1..l : j + n \in 1..n + l /\ c[j + n] = e[j]
  <2> TAKE j \in 1..l
  <2>1. PICK x \in 1..n + l : x = j + n /\ ~(x <= n) /\ x - n = j
    OBVIOUS
  <2>2. c[x] = e[x - n]
    BY <1>3, <2>1
  <2> QED
    BY <2>1, <2>2
<1>7. \A j \in 1..n + l : j \in 1..n \/ \E x \in 1..l : j = x + n
  <2> TAKE j \in 1..n + l
  <2>1. j > n => j - n \in 1..l /\ j = j - n + n
    OBVIOUS
  <2> QED
    BY <2>1
<1>8. ASSUME NEW j, PlacesOf(f, i, k) = {j}, PlacesOf(e, i, k) = {}
      PROVE  PlacesOf(c, i, k) = {j}
  <2>1. j \in 1..n /\ Has(f[j]) /\ (\A x \in 1..n : Has(f[x]) => x = j) /\ \A x \in 1..l : ~Has(e[x])
    BY <1>4, <1>8
  <2>2. \A x \in 1..n + l : Has(c[x]) <=> x = j
    BY <1>5, <1>6, <1>7, <2>1
  <2> QED
    BY <1>4, <1>5, <2>1, <2>2
<1>9. ASSUME NEW j, PlacesOf(f, i, k) = {}, PlacesOf(e, i, k) = {j}
      PROVE  PlacesOf(c, i, k) = {j + n}
  <2>1. j \in 1..l /\ Has(e[j]) /\ (\A x \in 1..l : Has(e[x]) => x = j) /\ \A x \in 1..n : ~Has(f[x])
    BY <1>4, <1>9
  <2>2. \A x \in 1..n + l : Has(c[x]) <=> x = j + n
    BY <1>5, <1>6, <1>7, <2>1
  <2> QED
    BY <1>4, <1>6, <2>1, <2>2
<1>10. ASSUME PlacesOf(f, i, k) = {}, PlacesOf(e, i, k) = {}
       PROVE  PlacesOf(c, i, k) = {}
  BY <1>4, <1>5, <1>6, <1>7, <1>10
<1> QED
  BY <1>1, <1>2, <1>8, <1>9, <1>10

\* Blocks of cell i that show the outputs in K, each in one of them, and no others.
ShowsOnce(f, i, K) ==
    /\ f \in Seq(BlockSet) /\ \A j \in 1..Len(f) : f[j].cell = i
    /\ \A k \in K : \E j : PlacesOf(f, i, k) = {j}
    /\ \A k : k \notin K => PlacesOf(f, i, k) = {}

LEMMA ConcatShows ==
    ASSUME NEW f, NEW e, NEW i, NEW K, NEW L, ShowsOnce(f, i, K), ShowsOnce(e, i, L), K \cap L = {}
    PROVE  ShowsOnce(f \o e, i, K \cup L)
<1>1. f \in Seq(BlockSet) /\ e \in Seq(BlockSet)
  BY DEF ShowsOnce
<1>2. f \o e \in Seq(BlockSet) /\ \A j \in 1..Len(f \o e) : (f \o e)[j].cell = i
  <2>1. PICK n \in Nat, l \in Nat : n = Len(f) /\ l = Len(e)
    BY <1>1
  <2>2. /\ f \o e \in Seq(BlockSet) /\ Len(f \o e) = Len(f) + Len(e)
        /\ \A j \in 1..Len(f) + Len(e) : (f \o e)[j] = IF j <= Len(f) THEN f[j] ELSE e[j - Len(f)]
    BY <1>1, ConcatProperties, Zenon
  <2>3. /\ Len(f \o e) = n + l
        /\ \A j \in 1..n + l : (f \o e)[j] = IF j <= n THEN f[j] ELSE e[j - n]
    BY <2>1, <2>2, Zenon
  <2>4. (\A j \in 1..n : f[j].cell = i) /\ \A j \in 1..l : e[j].cell = i
    BY <2>1 DEF ShowsOnce
  <2>5. ASSUME NEW j \in 1..n + l PROVE (f \o e)[j].cell = i
    <3>1. CASE j <= n
      <4>1. j \in 1..n
        BY <3>1
      <4> QED
        BY <2>3, <2>4, <3>1, <4>1
    <3>2. CASE ~(j <= n)
      <4>1. j - n \in 1..l
        BY <3>2
      <4> QED
        BY <2>3, <2>4, <3>2, <4>1
    <3> QED
      BY <3>1, <3>2
  <2> QED
    BY <2>2, <2>3, <2>5
<1>3. \A k \in K \cup L : \E j : PlacesOf(f \o e, i, k) = {j}
  <2> TAKE k \in K \cup L
  <2>1. CASE k \in K
    <3>1. k \notin L
      BY <2>1
    <3>2. PICK j : PlacesOf(f, i, k) = {j}
      BY <2>1 DEF ShowsOnce
    <3>3. PlacesOf(e, i, k) = {}
      BY <3>1 DEF ShowsOnce
    <3>4. PlacesOf(f \o e, i, k) = {j}
      BY <1>1, <3>2, <3>3, ConcatPlaces
    <3> QED
      BY <3>4
  <2>2. CASE k \in L
    <3>1. k \notin K
      BY <2>2
    <3>2. PICK j : PlacesOf(e, i, k) = {j}
      BY <2>2 DEF ShowsOnce
    <3>3. PlacesOf(f, i, k) = {}
      BY <3>1 DEF ShowsOnce
    <3>4. PlacesOf(f \o e, i, k) = {j + Len(f)}
      BY <1>1, <3>2, <3>3, ConcatPlaces
    <3> QED
      BY <3>4
  <2> QED
    BY <2>1, <2>2
<1>4. \A k : k \notin K \cup L => PlacesOf(f \o e, i, k) = {}
  BY <1>1, ConcatPlaces DEF ShowsOnce
<1> QED
  BY <1>2, <1>3, <1>4 DEF ShowsOnce

\* No block shows nothing, and one block shows its outputs.
LEMMA NothingShows == \A i : ShowsOnce(<<>>, i, {})
BY DEF ShowsOnce, PlacesOf

LEMMA OneBlockShows ==
    ASSUME NEW b \in BlockSet
    PROVE  ShowsOnce(<<b>>, b.cell, {b.outs[m] : m \in 1..Len(b.outs)})
<1> DEFINE f == <<b>>
<1>1. f \in Seq(BlockSet) /\ Len(f) = 1 /\ f[1] = b
  OBVIOUS
<1> HIDE DEF f
<1>2. \A j \in 1..Len(f) : j = 1
  BY <1>1
<1>3. \A k : PlacesOf(f, b.cell, k) = IF k \in {b.outs[m] : m \in 1..Len(b.outs)} THEN {1} ELSE {}
  <2> TAKE k
  <2>1. \A j : j \in PlacesOf(f, b.cell, k) <=> j = 1 /\ \E m \in 1..Len(b.outs) : b.outs[m] = k
    <3>1. 1 \in 1..Len(f)
      BY <1>1
    <3> QED
      BY <1>1, <1>2, <3>1 DEF PlacesOf
  <2> QED
    BY <2>1
<1>4. ShowsOnce(f, b.cell, {b.outs[m] : m \in 1..Len(b.outs)})
  <2>1. \A k \in {b.outs[m] : m \in 1..Len(b.outs)} : \E j : PlacesOf(f, b.cell, k) = {j}
    BY <1>3
  <2>2. \A k : k \notin {b.outs[m] : m \in 1..Len(b.outs)} => PlacesOf(f, b.cell, k) = {}
    BY <1>3
  <2>3. \A j \in 1..Len(f) : f[j].cell = b.cell
    BY <1>1, <1>2
  <2> QED
    BY <1>1, <2>1, <2>2, <2>3, Zenon DEF ShowsOnce
<1> QED
  BY <1>4 DEF f

\* A block for each of a list of outputs that rises.
LEMMA BlockEachShows ==
    ASSUME NEW f \in Seq(BlockSet), NEW s \in Seq(Nat), NEW i, Rising(s), Len(f) = Len(s),
           \A j \in 1..Len(s) : f[j].cell = i /\ f[j].outs = <<s[j]>>
    PROVE  ShowsOnce(f, i, {s[j] : j \in 1..Len(s)})
<1>1. PICK n \in Nat : n = Len(s) /\ n = Len(f)
  OBVIOUS
<1>2. ASSUME NEW k
      PROVE  PlacesOf(f, i, k) = {j \in 1..n : s[j] = k}
  <2>1. ASSUME NEW j \in 1..n PROVE (\E m \in 1..Len(f[j].outs) : f[j].outs[m] = k) <=> s[j] = k
    <3> DEFINE o == <<s[j]>>
    <3>1. Len(o) = 1 /\ o[1] = s[j]
      OBVIOUS
    <3>2. f[j].outs = o
      BY <1>1
    <3> HIDE DEF o
    <3>3. \A m \in 1..Len(o) : m = 1
      BY <3>1
    <3>4. 1 \in 1..Len(o)
      BY <3>1
    <3> QED
      BY <3>1, <3>2, <3>3, <3>4
  <2> QED
    BY <1>1, <2>1 DEF PlacesOf
<1>3. \A j, m \in 1..n : s[j] = s[m] => j = m
  <2> SUFFICES ASSUME NEW j \in 1..n, NEW m \in 1..n, s[j] = s[m], j # m PROVE FALSE
    OBVIOUS
  <2>1. s[j] \in Nat /\ s[m] \in Nat
    BY <1>1
  <2>2. j < m \/ m < j
    OBVIOUS
  <2> QED
    BY <1>1, <2>1, <2>2 DEF Rising
<1>4. \A k \in {s[j] : j \in 1..n} : \E j : PlacesOf(f, i, k) = {j}
  <2> TAKE k \in {s[j] : j \in 1..n}
  <2>1. PICK j \in 1..n : s[j] = k
    OBVIOUS
  <2>2. {x \in 1..n : s[x] = k} = {j}
    BY <1>3, <2>1
  <2> QED
    BY <1>2, <2>2
<1>5. \A k : k \notin {s[j] : j \in 1..n} => PlacesOf(f, i, k) = {}
  BY <1>2
<1> QED
  BY <1>1, <1>4, <1>5 DEF ShowsOnce

-----------------------------------------------------------------------------
(* The outputs of a cell *)

CellSet == [type : STRING, lines : Seq(STRING), outputs : Show!Outputs]

LEMMA NoSections == \A b \in BlockSet : b.type # "section"
<1>1. \A n \in 1..10 : n = 1 \/ n = 2 \/ n = 3 \/ n = 4 \/ n = 5 \/ n = 6 \/ n = 7 \/ n = 8 \/ n = 9 \/ n = 10
  OBVIOUS
<1>2. PICK p : p = Show!Priority
  OBVIOUS
<1>3. /\ p[1] = "svg" /\ p[2] = "png" /\ p[3] = "jpeg" /\ p[4] = "gif" /\ p[5] = "mp4"
      /\ p[6] = "webm" /\ p[7] = "ogg" /\ p[8] = "html" /\ p[9] = "plotly" /\ p[10] = "plain"
      /\ DOMAIN p = 1..10
  BY <1>2 DEF Show!Priority
<1>4. \A n \in DOMAIN p : p[n] # "section"
  BY <1>1, <1>3
<1>5. "section" \notin Show!Range(p)
  BY <1>4 DEF Show!Range
<1> QED
  BY <1>2, <1>5 DEF BlockSet, BlockTypes

\* A form is found whenever there is one that can be shown, and is no section.
LEMMA FormsAreFound ==
    ASSUME NEW mimes
    PROVE  /\ Show!BestMime(mimes) # {} <=> mimes \cap Show!Range(Show!Priority) # {}
           /\ Show!BestMime(mimes) \subseteq BlockTypes
<1>1. PICK p : p = Show!Priority
  OBVIOUS
<1>2. DOMAIN p = 1..10 /\ \A n \in 1..10 : p[n] \in BlockTypes
  BY <1>1 DEF Show!Priority, BlockTypes, Show!Range
<1> DEFINE known == {n \in 1..10 : p[n] \in mimes}
<1>3. Show!BestMime(mimes) = {p[n] : n \in {n \in known : \A m \in known : n <= m}}
  BY <1>1, <1>2 DEF Show!BestMime
<1>4. known # {} => \E n \in known : \A m \in known : n <= m
  <2>1. known \in SUBSET Nat
    OBVIOUS
  <2> HIDE DEF known
  <2> QED
    BY <2>1, NaturalsHaveALeast
<1>5. known # {} <=> mimes \cap Show!Range(Show!Priority) # {}
  BY <1>1, <1>2 DEF Show!Range
<1>6. known \subseteq 1..10
  OBVIOUS
<1> HIDE DEF known
<1>7. Show!BestMime(mimes) # {} <=> known # {}
  BY <1>3, <1>4
<1>8. Show!BestMime(mimes) \subseteq BlockTypes
  BY <1>2, <1>3, <1>6
<1> QED
  BY <1>5, <1>7, <1>8

\* The places of a list, in order.
LEMMA IndicesRise ==
    ASSUME NEW S, NEW s \in Seq(S)
    PROVE  /\ Show!Indices(s) \in Seq(Nat) /\ Rising(Show!Indices(s))
           /\ \A x : (\E k \in 1..Len(Show!Indices(s)) : Show!Indices(s)[k] = x) <=> x \in 1..Len(s)
<1>1. PICK n \in Nat : n = Len(s) /\ DOMAIN s = 1..n
  OBVIOUS
<1>2. PICK x : x = Show!Indices(s)
  OBVIOUS
<1>3. x = [k \in 1..n |-> k]
  BY <1>1, <1>2 DEF Show!Indices
<1>4. x \in Seq(Nat) /\ Len(x) = n /\ \A k \in 1..n : x[k] = k
  BY <1>3
<1>5. Rising(x)
  BY <1>4 DEF Rising
<1> QED
  BY <1>1, <1>2, <1>4, <1>5

\* What is chosen of the outputs of a cell.
LEMMA ChosenRise ==
    ASSUME NEW cell \in CellSet, NEW kind
    PROVE  /\ Show!Of(cell, kind) \in Seq(Nat) /\ Rising(Show!Of(cell, kind))
           /\ \A x : (\E k \in 1..Len(Show!Of(cell, kind)) : Show!Of(cell, kind)[k] = x)
                     <=> x \in 1..Len(cell.outputs) /\ cell.outputs[x].type = kind
<1>1. PICK os \in Show!Outputs : os = cell.outputs
  BY DEF CellSet
<1>2. PICK n \in Nat : n = Len(os) /\ DOMAIN os = 1..n
  BY DEF Show!Outputs
<1>3. PICK s : s = Show!Indices(os)
  OBVIOUS
<1>4. /\ s \in Seq(Nat) /\ Rising(s)
      /\ \A x : (\E k \in 1..Len(s) : s[k] = x) <=> x \in 1..n
  BY <1>1, <1>2, <1>3, IndicesRise DEF Show!Outputs
<1>5. PICK T : T = {k \in 1..n : os[k].type = kind}
  OBVIOUS
<1>6. PICK r : r = Selected(s, T) /\ r = Show!Of(cell, kind)
  BY <1>1, <1>2, <1>3, <1>5, ShowLists DEF Show!Of
<1>7. /\ r \in Seq(Nat) /\ Rising(r)
      /\ \A x : (\E k \in 1..Len(r) : r[k] = x) <=> x \in T /\ \E k \in 1..Len(s) : s[k] = x
  <2>1. /\ Selected(s, T) \in Seq(Nat) /\ Rising(Selected(s, T))
        /\ \A x : (\E k \in 1..Len(Selected(s, T)) : Selected(s, T)[k] = x) <=> x \in T /\ \E k \in 1..Len(s) : s[k] = x
    BY <1>4, SelectedRises, Zenon
  <2> QED
    BY <1>6, <2>1, Zenon
<1>8. \A x : (\E k \in 1..Len(r) : r[k] = x) <=> x \in 1..n /\ os[x].type = kind
  BY <1>4, <1>5, <1>7, Zenon
<1> QED
  BY <1>1, <1>2, <1>6, <1>7, <1>8, Zenon

LEMMA ShownRise ==
    ASSUME NEW cell \in CellSet
    PROVE  /\ Show!Shown(cell) \in Seq(Nat) /\ Rising(Show!Shown(cell))
           /\ \A x : (\E k \in 1..Len(Show!Shown(cell)) : Show!Shown(cell)[k] = x)
                     <=> /\ x \in 1..Len(cell.outputs) /\ cell.outputs[x].type = "display"
                         /\ Show!BestMime(cell.outputs[x].mimes) # {}
<1>1. PICK os \in Show!Outputs : os = cell.outputs
  BY DEF CellSet
<1>2. PICK n \in Nat : n = Len(os) /\ DOMAIN os = 1..n
  BY DEF Show!Outputs
<1>3. PICK s : s = Show!Of(cell, "display")
  OBVIOUS
<1>4. /\ s \in Seq(Nat) /\ Rising(s)
      /\ \A x : (\E k \in 1..Len(s) : s[k] = x) <=> x \in 1..n /\ os[x].type = "display"
  BY <1>1, <1>2, <1>3, ChosenRise
<1>5. PICK T : T = {k \in 1..n : Show!BestMime(os[k].mimes) # {}}
  OBVIOUS
<1>6. PICK r : r = Selected(s, T) /\ r = Show!Shown(cell)
  BY <1>1, <1>2, <1>3, <1>5, ShowLists DEF Show!Shown
<1>7. /\ r \in Seq(Nat) /\ Rising(r)
      /\ \A x : (\E k \in 1..Len(r) : r[k] = x) <=> x \in T /\ \E k \in 1..Len(s) : s[k] = x
  <2>1. /\ Selected(s, T) \in Seq(Nat) /\ Rising(Selected(s, T))
        /\ \A x : (\E k \in 1..Len(Selected(s, T)) : Selected(s, T)[k] = x) <=> x \in T /\ \E k \in 1..Len(s) : s[k] = x
    BY <1>4, SelectedRises, Zenon
  <2> QED
    BY <1>6, <2>1, Zenon
<1>8. \A x : (\E k \in 1..Len(r) : r[k] = x)
             <=> x \in 1..n /\ os[x].type = "display" /\ Show!BestMime(os[x].mimes) # {}
  BY <1>4, <1>5, <1>7, Zenon
<1> QED
  BY <1>1, <1>2, <1>6, <1>7, <1>8, Zenon

\* The pages of a cell show what it owes: its streams together, each display that has a
\* form, and its last error.
LEMMA OutputPagesShow ==
    ASSUME nb \in Seq(CellSet), NEW i \in 1..Len(nb), nb[i].type = "code"
    PROVE  ShowsOnce(Show!OutputPages(nb[i], i), i, Show!Owed(i))
<1>1. PICK cell \in CellSet : cell = nb[i]
  OBVIOUS
<1>2. PICK os \in Show!Outputs : os = cell.outputs
  BY DEF CellSet
<1>3. PICK n \in Nat : n = Len(os) /\ DOMAIN os = 1..n
  BY DEF Show!Outputs
<1>4. PICK streams \in Seq(Nat) :
         /\ streams = Show!Of(cell, "stream")
         /\ \A x : (\E k \in 1..Len(streams) : streams[k] = x) <=> x \in 1..n /\ os[x].type = "stream"
  BY <1>2, <1>3, ChosenRise
<1>5. PICK errors \in Seq(Nat) :
         /\ errors = Show!Of(cell, "error") /\ Rising(errors)
         /\ \A x : (\E k \in 1..Len(errors) : errors[k] = x) <=> x \in 1..n /\ os[x].type = "error"
  BY <1>2, <1>3, ChosenRise
<1>6. PICK rich \in Seq(Nat) :
         /\ rich = Show!Shown(cell) /\ Rising(rich)
         /\ \A x : (\E k \in 1..Len(rich) : rich[k] = x)
                   <=> x \in 1..n /\ os[x].type = "display" /\ Show!BestMime(os[x].mimes) # {}
  <2>1. PICK r : r = Show!Shown(cell)
    OBVIOUS
  <2>2. /\ r \in Seq(Nat) /\ Rising(r)
        /\ \A x : (\E k \in 1..Len(r) : r[k] = x)
                  <=> /\ x \in 1..Len(cell.outputs) /\ cell.outputs[x].type = "display"
                      /\ Show!BestMime(cell.outputs[x].mimes) # {}
    <3>1. /\ Show!Shown(cell) \in Seq(Nat) /\ Rising(Show!Shown(cell))
          /\ \A x : (\E k \in 1..Len(Show!Shown(cell)) : Show!Shown(cell)[k] = x)
                    <=> /\ x \in 1..Len(cell.outputs) /\ cell.outputs[x].type = "display"
                        /\ Show!BestMime(cell.outputs[x].mimes) # {}
      BY ShownRise
    <3> QED
      BY <2>1, <3>1, Zenon
  <2>3. \A x : (\E k \in 1..Len(r) : r[k] = x)
               <=> x \in 1..n /\ os[x].type = "display" /\ Show!BestMime(os[x].mimes) # {}
    BY <1>2, <1>3, <2>2, Zenon
  <2> QED
    BY <2>1, <2>2, <2>3, Zenon
<1>7. i \in Nat
  BY DEF CellSet
<1> DEFINE a == IF streams = <<>> THEN <<>> ELSE <<Show!Page("stream", i, streams)>>
           b == [k \in DOMAIN rich |->
                   Show!Page(CHOOSE m \in Show!BestMime(cell.outputs[rich[k]].mimes) : TRUE, i, <<rich[k]>>)]
           c == IF errors = <<>> THEN <<>> ELSE <<Show!Page("error", i, <<Show!Last(errors)>>)>>
           K1 == {k \in 1..n : os[k].type = "stream"}
           K2 == {k \in 1..n : os[k].type = "display" /\ Show!BestMime(os[k].mimes) # {}}
           K3 == {k \in 1..n : os[k].type = "error" /\ \A m \in k + 1..n : os[m].type # "error"}
<1>8. Show!OutputPages(nb[i], i) = a \o b \o c
  BY <1>1, <1>4, <1>5, <1>6 DEF Show!OutputPages
<1>9. ShowsOnce(a, i, K1)
  <2>1. CASE streams = <<>>
    <3>1. K1 = {}
      <4>1. \A x : ~(\E k \in 1..Len(streams) : streams[k] = x)
        BY <2>1
      <4> QED
        BY <1>4, <4>1
    <3> QED
      BY <2>1, <3>1, NothingShows
  <2>2. CASE streams # <<>>
    <3> DEFINE p == Show!Page("stream", i, streams)
    <3>1. p \in BlockSet /\ p.cell = i /\ p.outs = streams
      BY <1>7 DEF Show!Page, BlockSet, BlockTypes
    <3>2. a = <<p>>
      BY <2>2
    <3> HIDE DEF p
    <3>3. {p.outs[m] : m \in 1..Len(p.outs)} = K1
      BY <1>4, <3>1
    <3> QED
      BY <3>1, <3>2, <3>3, OneBlockShows
  <2> QED
    BY <2>1, <2>2
<1>10. ShowsOnce(b, i, K2)
  <2>1. PICK l \in Nat : l = Len(rich) /\ DOMAIN rich = 1..l
    OBVIOUS
  <2>2. ASSUME NEW k \in 1..l
        PROVE  b[k] \in BlockSet /\ b[k].cell = i /\ b[k].outs = <<rich[k]>>
    <3>1. rich[k] \in 1..n /\ Show!BestMime(os[rich[k]].mimes) # {}
      BY <1>6, <2>1
    <3>2. PICK m : m = CHOOSE form \in Show!BestMime(cell.outputs[rich[k]].mimes) : TRUE
      OBVIOUS
    <3>3. m \in BlockTypes
      <4>1. m \in Show!BestMime(os[rich[k]].mimes)
        BY <1>2, <3>1, <3>2
      <4> QED
        BY <4>1, FormsAreFound
    <3>4. b[k] = Show!Page(m, i, <<rich[k]>>)
      BY <2>1, <3>2
    <3>5. <<rich[k]>> \in Seq(Nat)
      BY <3>1
    <3> HIDE DEF b
    <3> QED
      BY <1>7, <3>3, <3>4, <3>5 DEF Show!Page, BlockSet
  <2>3. b \in [1..l -> BlockSet]
    <3>1. DOMAIN b = 1..l /\ b = [k \in 1..l |-> b[k]]
      BY <2>1
    <3> HIDE DEF b
    <3> QED
      BY <2>2, <3>1
  <2> HIDE DEF b
  <2>4. b \in Seq(BlockSet) /\ Len(b) = l
    <3>1. b \in Seq(BlockSet)
      BY <2>3, SeqDef
    <3> QED
      BY <2>3, <3>1
  <2>5. {rich[j] : j \in 1..Len(rich)} = K2
    <3>1. \A x : x \in {rich[j] : j \in 1..Len(rich)} <=> \E j \in 1..Len(rich) : rich[j] = x
      OBVIOUS
    <3>2. \A x : x \in K2 <=> x \in 1..n /\ os[x].type = "display" /\ Show!BestMime(os[x].mimes) # {}
      OBVIOUS
    <3> HIDE DEF K2
    <3>3. \A x : x \in {rich[j] : j \in 1..Len(rich)} <=> x \in K2
      BY <1>6, <3>1, <3>2, Zenon
    <3> QED
      BY <3>3, Zenon
  <2>6. ShowsOnce(b, i, {rich[j] : j \in 1..Len(rich)})
    <3>1. \A j \in 1..Len(rich) : b[j].cell = i /\ b[j].outs = <<rich[j]>>
      BY <2>1, <2>2, Zenon
    <3>2. Len(b) = Len(rich) /\ Rising(rich)
      BY <1>6, <2>1, <2>4
    <3> QED
      BY <2>4, <3>1, <3>2, BlockEachShows
  <2> QED
    BY <2>5, <2>6
<1>11. ShowsOnce(c, i, K3)
  <2>1. CASE errors = <<>>
    <3>1. K3 = {}
      <4>1. \A x : ~(\E k \in 1..Len(errors) : errors[k] = x)
        BY <2>1
      <4> QED
        BY <1>5, <4>1
    <3> QED
      BY <2>1, <3>1, NothingShows
  <2>2. CASE errors # <<>>
    <3>1. PICK l \in Nat : l = Len(errors) /\ l > 0
      <4>1. Len(errors) \in Nat /\ Len(errors) # 0
        BY <2>2
      <4> QED
        BY <4>1
    <3>2. PICK e : e = Show!Last(errors)
      OBVIOUS
    <3>3. e = errors[l] /\ l \in 1..l
      BY <3>1, <3>2 DEF Show!Last
    <3>4. e \in 1..n /\ os[e].type = "error"
      BY <1>5, <3>1, <3>3
    <3>5. \A x \in 1..n : os[x].type = "error" => x <= e
      <4> SUFFICES ASSUME NEW x \in 1..n, os[x].type = "error" PROVE x <= e
        OBVIOUS
      <4>1. PICK k \in 1..l : errors[k] = x
        BY <1>5, <3>1
      <4>2. k = l \/ k < l
        OBVIOUS
      <4>3. k < l => errors[k] < errors[l]
        BY <1>5, <3>1, <3>3 DEF Rising
      <4> QED
        BY <3>3, <3>4, <4>1, <4>2, <4>3
    <3>6. K3 = {e}
      <4>1. \A m \in e + 1..n : m \in 1..n /\ ~(m <= e)
        BY <3>4
      <4>2. e \in K3
        BY <3>4, <3>5, <4>1
      <4>3. ASSUME NEW k \in K3 PROVE k = e
        <5>1. k <= e
          BY <3>5
        <5>2. k < e => e \in k + 1..n
          BY <3>4
        <5> QED
          BY <3>4, <5>1, <5>2
      <4> QED
        BY <4>2, <4>3
    <3> DEFINE o == <<e>>
               p == Show!Page("error", i, o)
    <3>7. o \in Seq(Nat) /\ Len(o) = 1 /\ o[1] = e
      BY <3>4
    <3>8. c = <<p>>
      BY <2>2, <3>2
    <3> HIDE DEF o
    <3>9. p \in BlockSet /\ p.cell = i /\ p.outs = o
      BY <1>7, <3>7 DEF Show!Page, BlockSet, BlockTypes
    <3> HIDE DEF p
    <3>10. {p.outs[m] : m \in 1..Len(p.outs)} = {e}
      <4>1. 1 \in 1..Len(o) /\ \A m \in 1..Len(o) : m = 1
        BY <3>7
      <4> QED
        BY <3>7, <3>9, <4>1
    <3> QED
      BY <3>6, <3>8, <3>9, <3>10, OneBlockShows
  <2> QED
    BY <2>1, <2>2
<1>12. Show!Owed(i) = (K1 \cup K2) \cup K3
  <2>1. Show!Owed(i) = {k \in 1..n : /\ os[k].type = "display" => os[k].mimes \cap Show!Range(Show!Priority) # {}
                                     /\ os[k].type = "error" => \A m \in k + 1..n : os[m].type # "error"}
    BY <1>1, <1>2, <1>3 DEF Show!Owed
  <2>2. \A k \in 1..n : os[k].type \in {"stream", "display", "error"}
    <3>1. \A k \in 1..n : os[k] \in [type : {"stream", "display", "error"}, mimes : SUBSET STRING]
      <4>1. PICK R : R = [type : {"stream", "display", "error"}, mimes : SUBSET STRING]
        OBVIOUS
      <4>2. os \in Seq(R)
        BY <4>1 DEF Show!Outputs
      <4>3. \A k \in 1..n : os[k] \in R
        BY <1>3, <4>2
      <4> QED
        BY <4>1, <4>3
    <3> QED
      BY <3>1
  <2>3. \A k \in 1..n : Show!BestMime(os[k].mimes) # {} <=> os[k].mimes \cap Show!Range(Show!Priority) # {}
    BY FormsAreFound
  <2> QED
    BY <2>1, <2>2, <2>3
<1>13. K1 \cap K2 = {} /\ (K1 \cup K2) \cap K3 = {}
  OBVIOUS
<1> HIDE DEF a, b, c, K1, K2, K3
<1>14. ShowsOnce(a \o b, i, K1 \cup K2)
  BY <1>9, <1>10, <1>13, ConcatShows
<1>15. ShowsOnce((a \o b) \o c, i, (K1 \cup K2) \cup K3)
  BY <1>11, <1>13, <1>14, ConcatShows
<1> QED
  BY <1>8, <1>12, <1>15

\* Only code owes anything.
LEMMA TextOwesNothing ==
    ASSUME NEW i, nb[i].type # "code"
    PROVE  Show!Owed(i) = {}
BY DEF Show!Owed

-----------------------------------------------------------------------------
(* The cells one after another *)

\* A list that shows what the first n cells owe, in order.
ShowsUpTo(f, n) ==
    /\ f \in Seq(BlockSet) /\ \A j \in 1..Len(f) : f[j].cell <= n
    /\ \A j, m \in 1..Len(f) : j < m => f[j].cell <= f[m].cell
    /\ \A i \in 1..Len(nb) : i <= n => \A k \in Show!Owed(i) : \E j : PlacesOf(f, i, k) = {j}

LEMMA NoCellsShown == ShowsUpTo(<<>>, 0)
BY DEF ShowsUpTo

LEMMA NextCellShown ==
    ASSUME NEW n \in Nat, NEW f, NEW e, ShowsUpTo(f, n), ShowsOnce(e, n + 1, Show!Owed(n + 1))
    PROVE  ShowsUpTo(f \o e, n + 1)
<1>1. f \in Seq(BlockSet) /\ e \in Seq(BlockSet)
  BY DEF ShowsUpTo, ShowsOnce
<1>2. PICK p \in Nat, q \in Nat : p = Len(f) /\ q = Len(e)
  BY <1>1
<1>3. PICK c \in Seq(BlockSet) : c = f \o e
  BY <1>1, ConcatProperties
<1>4. Len(c) = p + q /\ \A j \in 1..p + q : c[j] = IF j <= p THEN f[j] ELSE e[j - p]
  <2>1. /\ Len(f \o e) = Len(f) + Len(e)
        /\ \A j \in 1..Len(f) + Len(e) : (f \o e)[j] = IF j <= Len(f) THEN f[j] ELSE e[j - Len(f)]
    BY <1>1, ConcatProperties, Zenon
  <2> QED
    BY <1>2, <1>3, <2>1, Zenon
<1>5. \A j \in 1..p : f[j].cell <= n /\ f[j].cell \in Nat
  <2>1. \A j \in 1..p : f[j] \in BlockSet
    BY <1>1, <1>2
  <2>2. \A j \in 1..p : f[j].cell <= n
    BY <1>2 DEF ShowsUpTo
  <2> QED
    BY <2>1, <2>2 DEF BlockSet
<1>6. \A j \in 1..q : e[j].cell = n + 1
  BY <1>2 DEF ShowsOnce
<1>7. \A j \in 1..p : j \in 1..p + q /\ c[j] = f[j]
  <2>1. \A j \in 1..p : j \in 1..p + q /\ j <= p
    OBVIOUS
  <2> QED
    BY <1>4, <2>1
<1>8. \A j \in 1..p + q : ~(j \in 1..p) => c[j].cell = n + 1
  <2> SUFFICES ASSUME NEW j \in 1..p + q, ~(j \in 1..p) PROVE c[j].cell = n + 1
    OBVIOUS
  <2>1. ~(j <= p) /\ j - p \in 1..q
    OBVIOUS
  <2> QED
    BY <1>4, <1>6, <2>1
<1>9. \A j \in 1..p + q : c[j].cell <= n + 1
  <2> TAKE j \in 1..p + q
  <2>1. CASE j \in 1..p
    <3>1. PICK x \in Nat : x = c[j].cell /\ x <= n
      BY <1>5, <1>7, <2>1
    <3> QED
      BY <3>1
  <2>2. CASE ~(j \in 1..p)
    BY <1>8, <2>2
  <2> QED
    BY <2>1, <2>2
<1>10. ASSUME NEW j \in 1..p + q, NEW m \in 1..p + q, j < m
       PROVE  c[j].cell <= c[m].cell
  <2>1. CASE m \in 1..p
    <3>1. j \in 1..p
      BY <1>10, <2>1
    <3>2. f[j].cell <= f[m].cell
      BY <1>2, <1>10, <2>1, <3>1 DEF ShowsUpTo
    <3> QED
      BY <1>7, <2>1, <3>1, <3>2
  <2>2. CASE ~(m \in 1..p)
    BY <1>8, <1>9, <2>2
  <2> QED
    BY <2>1, <2>2
<1>11. ASSUME NEW i \in 1..Len(nb), i <= n + 1, NEW k \in Show!Owed(i)
       PROVE  \E j : PlacesOf(c, i, k) = {j}
  <2>1. CASE i <= n
    <3>1. PICK j : PlacesOf(f, i, k) = {j}
      BY <1>11, <2>1 DEF ShowsUpTo
    <3>2. PlacesOf(e, i, k) = {}
      <4>1. i # n + 1
        BY <2>1
      <4> QED
        BY <1>2, <1>6, <4>1 DEF PlacesOf
    <3>3. PlacesOf(f \o e, i, k) = {j}
      BY <1>1, <3>1, <3>2, ConcatPlaces
    <3> QED
      BY <1>3, <3>3
  <2>2. CASE ~(i <= n)
    <3>1. i = n + 1
      BY <1>11, <2>2
    <3>2. PICK j : PlacesOf(e, i, k) = {j}
      BY <1>11, <3>1 DEF ShowsOnce
    <3>3. PlacesOf(f, i, k) = {}
      BY <1>2, <1>5, <2>2 DEF PlacesOf
    <3>4. PlacesOf(f \o e, i, k) = {j + Len(f)}
      BY <1>1, <3>2, <3>3, ConcatPlaces
    <3> QED
      BY <1>3, <3>4
  <2> QED
    BY <2>1, <2>2
<1>12. ShowsUpTo(c, n + 1)
  BY <1>4, <1>9, <1>10, <1>11 DEF ShowsUpTo
<1> QED
  BY <1>3, <1>12

-----------------------------------------------------------------------------
(* notebook_to_pages() *)

LEMMA CellPagesShow ==
    ASSUME nb \in Seq(CellSet), NEW i \in 1..Len(nb)
    PROVE  ShowsOnce(Show!CellPages(nb[i], i), i, Show!Owed(i))
<1> DEFINE p == Show!Page("markdown", i, <<>>)
<1>1. CASE nb[i].type = "code"
  <2>1. Show!CellPages(nb[i], i) = Show!OutputPages(nb[i], i)
    BY <1>1 DEF Show!CellPages
  <2> QED
    BY <1>1, <2>1, OutputPagesShow
<1>2. CASE nb[i].type # "code"
  <2>1. Show!CellPages(nb[i], i) \in {<<p>>, <<>>}
    BY <1>2 DEF Show!CellPages
  <2>2. p \in BlockSet /\ p.cell = i /\ p.outs = <<>>
    BY DEF Show!Page, BlockSet, BlockTypes
  <2> HIDE DEF p
  <2>3. {p.outs[m] : m \in 1..Len(p.outs)} = {}
    BY <2>2
  <2>4. ShowsOnce(<<p>>, i, {}) /\ ShowsOnce(<<>>, i, {})
    BY <2>2, <2>3, OneBlockShows, NothingShows
  <2> QED
    BY <1>2, <2>1, <2>4, TextOwesNothing
<1> QED
  BY <1>1, <1>2

\* One page after another shows every cell.
LEMMA PerCellShows ==
    ASSUME nb \in Seq(CellSet)
    PROVE  ShowsUpTo(Show!PerCell, Len(nb))
<1>1. PICK n \in Nat : n = Len(nb) /\ DOMAIN nb = 1..n
  OBVIOUS
<1>2. PICK ss : ss = [i \in DOMAIN nb |-> Show!CellPages(nb[i], i)]
  OBVIOUS
<1>3. \A i \in 1..n : ss[i] = Show!CellPages(nb[i], i) /\ ShowsOnce(ss[i], i, Show!Owed(i))
  BY <1>1, <1>2, CellPagesShow
<1>4. ss \in Seq(Seq(BlockSet)) /\ Len(ss) = n
  <2>1. \A i \in 1..n : ss[i] \in Seq(BlockSet)
    BY <1>3 DEF ShowsOnce
  <2>2. DOMAIN ss = 1..n /\ ss = [i \in DOMAIN ss |-> ss[i]]
    BY <1>1, <1>2
  <2>3. ss \in [1..n -> Seq(BlockSet)]
    BY <2>1, <2>2
  <2>4. ss \in Seq(Seq(BlockSet))
    BY <2>3, SeqDef
  <2> QED
    BY <2>2, <2>4
<1>5. PICK f \in [0..n -> Seq(BlockSet)] :
         /\ f[0] = <<>> /\ \A k \in 1..n : f[k] = f[k - 1] \o ss[k]
         /\ Joined(ss) = f[n]
  <2>1. \E f \in [0..Len(ss) -> Seq(BlockSet)] :
           /\ f[0] = <<>> /\ \A k \in 1..Len(ss) : f[k] = f[k - 1] \o ss[k]
           /\ Joined(ss) = f[Len(ss)]
    BY <1>4, JoinedGoes
  <2> QED
    BY <1>4, <2>1, Zenon
<1>6. Show!PerCell = f[n]
  BY <1>2, <1>5, ShowLists DEF Show!PerCell
<1> DEFINE S == {k \in Nat : k <= n => ShowsUpTo(f[k], k)}
<1>7. 0 \in S
  BY <1>5, NoCellsShown
<1>8. ASSUME NEW k \in Nat, k \in S
      PROVE  k + 1 \in S
  <2> SUFFICES ASSUME k + 1 <= n PROVE ShowsUpTo(f[k + 1], k + 1)
    OBVIOUS
  <2>1. PICK m \in 1..n : m = k + 1 /\ m - 1 = k
    BY <1>8
  <2>2. f[m] = f[k] \o ss[m]
    BY <1>5, <2>1, Zenon
  <2>3. ShowsUpTo(f[k], k)
    BY <1>8, <2>1
  <2>4. ShowsOnce(ss[m], m, Show!Owed(m))
    BY <1>3
  <2> QED
    BY <2>1, <2>2, <2>3, <2>4, NextCellShown
<1> HIDE DEF S
<1>9. n \in S
  BY <1>7, <1>8, FromZeroOn
<1> QED
  BY <1>1, <1>6, <1>9 DEF S

-----------------------------------------------------------------------------
(* notebook_to_sections() *)

SectionSet == [type : {"section"}, cell : Nat, level : Nat, parent : Nat, blocks : Seq(BlockSet)]
AccSet == [made : Seq(SectionSet), page : SectionSet, stack : Seq(Nat)]

\* All blocks of a list of pages.
BlocksOf(ps) == [j \in DOMAIN ps |-> Show!Blocks(ps[j])]
FlatOf(ps) == Joined(BlocksOf(ps))

LEMMA BlocksOfSections ==
    ASSUME NEW ps \in Seq(SectionSet)
    PROVE  /\ BlocksOf(ps) \in Seq(Seq(BlockSet)) /\ Len(BlocksOf(ps)) = Len(ps)
           /\ \A j \in 1..Len(ps) : BlocksOf(ps)[j] = ps[j].blocks
<1>1. PICK n \in Nat : n = Len(ps) /\ DOMAIN ps = 1..n
  OBVIOUS
<1>2. \A j \in 1..n : Show!Blocks(ps[j]) = ps[j].blocks /\ ps[j].blocks \in Seq(BlockSet)
  <2>1. \A j \in 1..n : ps[j] \in SectionSet
    BY <1>1
  <2> QED
    BY <2>1 DEF SectionSet, Show!Blocks
<1>3. PICK b : b = BlocksOf(ps)
  OBVIOUS
<1>4. b \in [1..n -> Seq(BlockSet)] /\ \A j \in 1..n : b[j] = ps[j].blocks
  BY <1>1, <1>2, <1>3 DEF BlocksOf
<1>5. b \in Seq(Seq(BlockSet))
  BY <1>4, SeqDef
<1> QED
  BY <1>1, <1>3, <1>4, <1>5

\* One more section adds its blocks.
LEMMA FlatAppends ==
    ASSUME NEW ps \in Seq(SectionSet), NEW p \in SectionSet
    PROVE  FlatOf(ps) \in Seq(BlockSet) /\ FlatOf(Append(ps, p)) = FlatOf(ps) \o p.blocks
<1>1. PICK n \in Nat : n = Len(ps)
  OBVIOUS
<1>2. PICK a : a = Append(ps, p)
  OBVIOUS
<1>3. a \in Seq(SectionSet) /\ Len(a) = n + 1
  BY <1>1, <1>2, AppendProperties
<1>4. a[n + 1] = p /\ \A j \in 1..n : a[j] = ps[j]
  BY <1>1, <1>2, AppendProperties
<1>5. PICK x : /\ x = BlocksOf(ps) /\ x \in Seq(Seq(BlockSet)) /\ Len(x) = n
               /\ \A j \in 1..n : x[j] = ps[j].blocks
  BY <1>1, BlocksOfSections
<1>6. PICK y : /\ y = BlocksOf(a) /\ y \in Seq(Seq(BlockSet)) /\ Len(y) = n + 1
               /\ \A j \in 1..n + 1 : y[j] = a[j].blocks
  <2>1. /\ BlocksOf(a) \in Seq(Seq(BlockSet)) /\ Len(BlocksOf(a)) = Len(a)
        /\ \A j \in 1..Len(a) : BlocksOf(a)[j] = a[j].blocks
    BY <1>3, BlocksOfSections
  <2> QED
    BY <1>3, <2>1
<1>7. PICK l \in Seq(BlockSet) : l = p.blocks
  BY DEF SectionSet
<1>8. y = Append(x, l)
  <2>1. Append(x, l) \in Seq(Seq(BlockSet)) /\ Len(Append(x, l)) = n + 1
    BY <1>5, AppendProperties
  <2>2. Append(x, l)[n + 1] = l /\ \A j \in 1..n : Append(x, l)[j] = x[j]
    BY <1>5, AppendProperties
  <2>3. \A j \in 1..n + 1 : j # n + 1 => j \in 1..n
    OBVIOUS
  <2>4. ASSUME NEW j \in 1..n + 1 PROVE y[j] = Append(x, l)[j]
    <3>1. CASE j = n + 1
      BY <1>4, <1>6, <1>7, <2>2, <3>1
    <3>2. CASE j # n + 1
      BY <1>4, <1>5, <1>6, <2>2, <2>3, <3>2
    <3> QED
      BY <3>1, <3>2
  <2> QED
    BY <1>6, <2>1, <2>4, SeqEqual
<1>9. Joined(x) \in Seq(BlockSet) /\ Joined(Append(x, l)) = Joined(x) \o l
  BY <1>5, JoinedAppends
<1> QED
  BY <1>2, <1>5, <1>6, <1>7, <1>8, <1>9 DEF FlatOf

LEMMA FlatOfNothing == FlatOf(<<>>) = <<>>
<1>1. BlocksOf(<<>>) = <<>>
  BY DEF BlocksOf
<1> QED
  BY <1>1, NothingJoined DEF FlatOf

\* What flush() leaves out has no blocks.
LEMMA FlushShows ==
    ASSUME NEW acc \in AccSet
    PROVE  /\ Show!Flushed(acc) \in Seq(SectionSet)
           /\ FlatOf(Show!Flushed(acc)) = FlatOf(acc.made) \o acc.page.blocks
<1>1. acc.made \in Seq(SectionSet) /\ acc.page \in SectionSet /\ acc.page.blocks \in Seq(BlockSet)
  BY DEF AccSet, SectionSet
<1>2. FlatOf(acc.made) \in Seq(BlockSet)
  BY <1>1, FlatAppends
<1>3. CASE acc.page.blocks = <<>>
  <2>1. FlatOf(acc.made) \o acc.page.blocks = FlatOf(acc.made)
    BY <1>2, <1>3, ConcatEmptySeq
  <2> QED
    BY <1>1, <1>3, <2>1 DEF Show!Flushed
<1>4. CASE acc.page.blocks # <<>>
  <2>1. Show!Flushed(acc) = Append(acc.made, acc.page)
    BY <1>4 DEF Show!Flushed
  <2>2. Append(acc.made, acc.page) \in Seq(SectionSet)
    BY <1>1, AppendProperties
  <2>3. FlatOf(Append(acc.made, acc.page)) = FlatOf(acc.made) \o acc.page.blocks
    BY <1>1, FlatAppends
  <2> QED
    BY <2>1, <2>2, <2>3
<1> QED
  BY <1>3, <1>4

-----------------------------------------------------------------------------
(* Headings *)

LEMMA LevelsAreNumbers == \A lines : Show!LeadingLevel(lines) \in 0..3
<1> SUFFICES ASSUME NEW lines PROVE Show!LeadingLevel(lines) \in 0..3
  OBVIOUS
<1>1. PICK x : x = lines[Show!Begins(lines)]
  OBVIOUS
<1>2. Show!LeadingLevel(lines) = IF Show!HasText(lines) /\ Show!IsHeading(x) THEN Show!Level[x] ELSE 0
  BY <1>1 DEF Show!LeadingLevel
<1>3. Show!IsHeading(x) => Show!Level[x] \in 0..3
  BY DEF Show!IsHeading, Show!Level
<1> QED
  BY <1>2, <1>3

\* A set of numbers up to n has a greatest one.
LEMMA HaveAGreatest ==
    ASSUME NEW n \in Nat, NEW S \in SUBSET (1..n), S # {}
    PROVE  \E x \in S : \A y \in S : y <= x
<1> DEFINE T == {n - x : x \in S}
<1>1. T \in SUBSET Nat /\ T # {}
  OBVIOUS
<1>2. \A x \in S : n - x \in T
  OBVIOUS
<1>3. \A t \in T : \E x \in S : t = n - x
  OBVIOUS
<1> HIDE DEF T
<1>4. PICK t \in T : \A u \in T : t <= u
  BY <1>1, NaturalsHaveALeast
<1>5. PICK x \in S : t = n - x
  BY <1>3
<1>6. \A y \in S : y <= x
  <2> TAKE y \in S
  <2>1. t <= n - y
    BY <1>2, <1>4
  <2> QED
    BY <1>5, <2>1
<1> QED
  BY <1>6

\* The headings that start a section among the first n cells, and their levels.
HeadsUpTo(n) == {h \in 1..n : nb[h].type = "markdown" /\ Show!StartsSection(nb[h])}
LevelOf(h) == Show!LeadingLevel(nb[h].lines)

\* The pill of a section.
PillIsRight(p) ==
    p.cell > 0 /\ p.level > 0 =>
        LET above == {h \in HeadsUpTo(p.cell - 1) : LevelOf(h) < p.level}
        IN p.parent = IF above = {} THEN 0 ELSE CHOOSE h \in above : \A g \in above : g <= h

\* The stack: headings that no later one of the same or a higher rank has ended.
Stacked(s, n) ==
    /\ s \in Seq(Nat) /\ Rising(s)
    /\ \A h : (\E k \in 1..Len(s) : s[k] = h)
              <=> h \in HeadsUpTo(n) /\ \A g \in HeadsUpTo(n) : g > h => LevelOf(h) < LevelOf(g)

\* The last of the headings that a new one is inside of is the nearest above it.
LEMMA NearestIsLast ==
    ASSUME NEW n \in Nat, n + 1 \in 1..Len(nb), nb \in Seq(CellSet), NEW s, Stacked(s, n), NEW level \in Nat,
           NEW above, above = Show!Enclosing(s, level)
    PROVE  /\ above \in Seq(Nat) /\ Rising(above)
           /\ \A h : (\E k \in 1..Len(above) : above[k] = h)
                     <=> LevelOf(h) < level /\ \E k \in 1..Len(s) : s[k] = h
           /\ LET A == {h \in HeadsUpTo(n) : LevelOf(h) < level}
              IN (IF above = <<>> THEN 0 ELSE Show!Last(above))
                 = IF A = {} THEN 0 ELSE CHOOSE h \in A : \A g \in A : g <= h
<1>1. /\ s \in Seq(Nat) /\ Rising(s)
      /\ \A h : (\E k \in 1..Len(s) : s[k] = h)
              <=> h \in HeadsUpTo(n) /\ \A g \in HeadsUpTo(n) : g > h => LevelOf(h) < LevelOf(g)
  BY DEF Stacked
<1>2. PICK T : T = {h \in DOMAIN nb : LevelOf(h) < level}
  OBVIOUS
<1>3. above = Selected(s, T)
  BY <1>2, ShowLists DEF Show!Enclosing, LevelOf
<1>4. /\ above \in Seq(Nat) /\ Rising(above)
      /\ \A x : (\E k \in 1..Len(above) : above[k] = x) <=> x \in T /\ \E k \in 1..Len(s) : s[k] = x
  <2>1. /\ Selected(s, T) \in Seq(Nat) /\ Rising(Selected(s, T))
        /\ \A x : (\E k \in 1..Len(Selected(s, T)) : Selected(s, T)[k] = x)
                  <=> x \in T /\ \E k \in 1..Len(s) : s[k] = x
    BY <1>1, SelectedRises
  <2> QED
    BY <1>3, <2>1, Zenon
<1>5. HeadsUpTo(n) \subseteq 1..n /\ HeadsUpTo(n) \subseteq DOMAIN nb
  <2>1. PICK m \in Nat : m = Len(nb) /\ DOMAIN nb = 1..m
    OBVIOUS
  <2>2. 1..n \subseteq 1..m
    BY <2>1
  <2> QED
    BY <2>1, <2>2 DEF HeadsUpTo
<1>6. \A h : (\E k \in 1..Len(above) : above[k] = h) <=> LevelOf(h) < level /\ \E k \in 1..Len(s) : s[k] = h
  <2>1. \A h : (\E k \in 1..Len(s) : s[k] = h) => h \in DOMAIN nb
    BY <1>1, <1>5
  <2> QED
    BY <1>2, <1>4, <2>1
<1>7. PICK A : A = {h \in HeadsUpTo(n) : LevelOf(h) < level}
  OBVIOUS
<1>8. \A h : LevelOf(h) \in Nat
  BY LevelsAreNumbers DEF LevelOf
<1>9. ASSUME NEW x \in A, \A y \in A : y <= x
      PROVE  \E k \in 1..Len(above) : above[k] = x
  <2>1. x \in HeadsUpTo(n) /\ LevelOf(x) < level /\ x \in Nat
    BY <1>5, <1>7
  <2>2. \A g \in HeadsUpTo(n) : g > x => LevelOf(x) < LevelOf(g)
    <3> SUFFICES ASSUME NEW g \in HeadsUpTo(n), g > x PROVE LevelOf(x) < LevelOf(g)
      OBVIOUS
    <3>1. g \in Nat /\ ~(g <= x)
      BY <1>5, <2>1
    <3>2. ~(LevelOf(g) < level)
      BY <1>7, <1>9, <3>1
    <3>3. LevelOf(x) \in Nat /\ LevelOf(g) \in Nat
      BY <1>8
    <3> QED
      BY <2>1, <3>2, <3>3
  <2> QED
    BY <1>1, <1>6, <2>1, <2>2
<1>10. CASE A = {}
  <2>1. above = <<>>
    <3>1. \A k \in 1..Len(above) : above[k] \in A
      BY <1>1, <1>6, <1>7
    <3>2. Len(above) = 0
      BY <1>4, <1>10, <3>1
    <3> QED
      BY <1>4, <3>2
  <2> QED
    BY <1>4, <1>6, <1>7, <1>10, <2>1
<1>11. CASE A # {}
  <2>1. PICK x \in A : \A y \in A : y <= x
    <3>1. A \in SUBSET (1..n)
      BY <1>5, <1>7
    <3> QED
      BY <1>11, <3>1, HaveAGreatest
  <2>2. PICK k \in 1..Len(above) : above[k] = x
    BY <1>9, <2>1
  <2>3. PICK l \in Nat : l = Len(above)
    BY <1>4
  <2>4. above # <<>> /\ Show!Last(above) = above[l] /\ l \in 1..l
    BY <2>2, <2>3 DEF Show!Last
  <2>5. above[l] \in A
    BY <1>1, <1>6, <1>7, <2>3, <2>4
  <2>6. above[l] = x
    <3>1. above[l] <= x /\ above[l] \in Nat /\ x \in Nat
      BY <1>5, <1>7, <2>1, <2>5
    <3>2. k = l \/ above[k] < above[l]
      <4>1. k = l \/ k < l
        BY <2>3
      <4> QED
        BY <1>4, <2>3, <2>4, <4>1 DEF Rising
    <3> QED
      BY <2>2, <3>1, <3>2
  <2>7. x = CHOOSE h \in A : \A g \in A : g <= h
    <3>1. \A h \in A : (\A g \in A : g <= h) => h = x
      <4> SUFFICES ASSUME NEW h \in A, \A g \in A : g <= h PROVE h = x
        OBVIOUS
      <4>1. x <= h /\ h <= x /\ h \in Nat /\ x \in Nat
        BY <1>5, <1>7, <2>1
      <4> QED
        BY <4>1
    <3> QED
      BY <2>1, <3>1
  <2> QED
    BY <1>4, <1>6, <1>7, <1>11, <2>4, <2>6, <2>7
<1> QED
  BY <1>10, <1>11

-----------------------------------------------------------------------------
(* add_cell(), in the loop of notebook_to_sections() *)

LEMMA WithBlocks ==
    ASSUME NEW acc \in AccSet, NEW e \in Seq(BlockSet)
    PROVE  /\ Show!With(acc, e) \in AccSet
           /\ Show!With(acc, e).made = acc.made /\ Show!With(acc, e).stack = acc.stack
           /\ Show!With(acc, e).page.cell = acc.page.cell /\ Show!With(acc, e).page.level = acc.page.level
           /\ Show!With(acc, e).page.parent = acc.page.parent
           /\ Show!With(acc, e).page.blocks = acc.page.blocks \o e
<1>1. PICK p \in SectionSet : p = acc.page
  BY DEF AccSet
<1>2. PICK b \in Seq(BlockSet) : b = p.blocks \o e
  BY ConcatProperties DEF SectionSet
<1>3. PICK q : q = [p EXCEPT !.blocks = b]
  OBVIOUS
<1>4. /\ q \in SectionSet /\ q.cell = p.cell /\ q.level = p.level /\ q.parent = p.parent
      /\ q.blocks = b
  BY <1>3 DEF SectionSet
<1>5. PICK w : w = Show!With(acc, e)
  OBVIOUS
<1>6. w = [acc EXCEPT !.page = q]
  BY <1>1, <1>2, <1>3, <1>5 DEF Show!With
<1>7. w \in AccSet /\ w.made = acc.made /\ w.stack = acc.stack /\ w.page = q
  BY <1>4, <1>6 DEF AccSet
<1> QED
  BY <1>1, <1>2, <1>4, <1>5, <1>7

\* What a text or the source of a cell makes.
LEMMA TextShows ==
    ASSUME NEW i \in Nat, NEW type \in {"md", "codesrc"}
    PROVE  ShowsOnce(<<Show!Page(type, i, <<>>)>>, i, {})
<1> DEFINE p == Show!Page(type, i, <<>>)
<1>1. p \in BlockSet /\ p.cell = i /\ p.outs = <<>>
  BY DEF Show!Page, BlockSet, BlockTypes
<1> HIDE DEF p
<1>2. {p.outs[m] : m \in 1..Len(p.outs)} = {}
  BY <1>1
<1>3. ShowsOnce(<<p>>, i, {})
  BY <1>1, <1>2, OneBlockShows
<1> QED
  BY <1>3 DEF p

LEMMA CodeShows ==
    ASSUME nb \in Seq(CellSet), NEW i \in 1..Len(nb), nb[i].type = "code"
    PROVE  \E e : /\ ShowsOnce(e, i, Show!Owed(i))
                  /\ \A acc : Show!Code(acc, nb[i], i) = Show!With(acc, e)
<1>1. PICK a : a = IF layout.code # "hidden" /\ Show!HasText(nb[i].lines) THEN <<Show!Page("codesrc", i, <<>>)>>
                   ELSE <<>>
  OBVIOUS
<1>2. ShowsOnce(a, i, {})
  <2>1. PICK m : m = <<Show!Page("codesrc", i, <<>>)>>
    OBVIOUS
  <2>2. ShowsOnce(m, i, {})
    <3>1. i \in Nat
      OBVIOUS
    <3> QED
      BY <2>1, <3>1, TextShows
  <2>3. a = m \/ a = <<>>
    BY <1>1, <2>1
  <2> QED
    BY <2>2, <2>3, NothingShows
<1>3. PICK b : b = Show!OutputPages(nb[i], i)
  OBVIOUS
<1>4. ShowsOnce(b, i, Show!Owed(i))
  BY <1>3, OutputPagesShow
<1>5. ShowsOnce(a \o b, i, Show!Owed(i))
  <2>1. PICK K : K = Show!Owed(i)
    OBVIOUS
  <2>2. {} \cap K = {} /\ {} \cup K = K
    OBVIOUS
  <2>3. ShowsOnce(a \o b, i, {} \cup K)
    BY <1>2, <1>4, <2>1, <2>2, ConcatShows
  <2> QED
    BY <2>1, <2>2, <2>3
<1>6. \A acc : Show!Code(acc, nb[i], i) = Show!With(acc, a \o b)
  BY <1>1, <1>3 DEF Show!Code
<1> QED
  BY <1>5, <1>6

\* The page that a heading starts.
HeadPage(p, i) ==
    /\ p \in SectionSet /\ p.cell = i /\ p.level = LevelOf(i) /\ ShowsOnce(p.blocks, i, {})

LEMMA HeadingMakes ==
    ASSUME nb \in Seq(CellSet), NEW i \in 1..Len(nb), NEW acc \in AccSet, NEW above,
           above = Show!Enclosing(acc.stack, LevelOf(i))
    PROVE  \E p : /\ HeadPage(p, i) /\ p.parent = IF above = <<>> THEN 0 ELSE Show!Last(above)
                  /\ Show!Heading(acc, nb[i], i) = [made |-> Show!Flushed(acc), stack |-> Append(above, i), page |-> p]
<1>1. above \in Seq(Nat)
  <2>1. acc.stack \in Seq(Nat)
    BY DEF AccSet
  <2>2. PICK T : above = Selected(acc.stack, T)
    BY ShowLists DEF Show!Enclosing
  <2>3. Selected(acc.stack, T) \in Seq(Nat)
    BY <2>1, SelectedSelects
  <2> QED
    BY <2>2, <2>3
<1>2. PICK up \in Nat : up = IF above = <<>> THEN 0 ELSE Show!Last(above)
  <2>1. above # <<>> => above[Len(above)] \in Nat
    BY <1>1
  <2> QED
    BY <2>1 DEF Show!Last
<1>3. i \in Nat /\ LevelOf(i) \in Nat
  BY LevelsAreNumbers DEF LevelOf
<1>4. PICK q : q = Show!NewPage(i, LevelOf(i), up)
  OBVIOUS
<1>5. q \in SectionSet /\ q.cell = i /\ q.level = LevelOf(i) /\ q.parent = up /\ q.blocks = <<>>
  <2>1. PICK e : e = <<>> /\ e \in Seq(BlockSet)
    <3>1. <<>> \in Seq(BlockSet)
      OBVIOUS
    <3> QED
      BY <3>1, Zenon
  <2>2. q = [type |-> "section", cell |-> i, level |-> LevelOf(i), parent |-> up, blocks |-> e]
    BY <1>4, <2>1 DEF Show!NewPage
  <2> QED
    BY <1>2, <1>3, <2>1, <2>2 DEF SectionSet
<1>6. PICK m : m = <<Show!Page("md", i, <<>>)>> /\ ShowsOnce(m, i, {})
  BY <1>3, TextShows
<1>7. PICK r : r = [q EXCEPT !.blocks = m]
  OBVIOUS
<1>8. r \in SectionSet /\ r.cell = i /\ r.level = LevelOf(i) /\ r.parent = up /\ r.blocks = m
  <2>1. m \in Seq(BlockSet)
    BY <1>6 DEF ShowsOnce
  <2> QED
    BY <1>5, <1>7, <2>1 DEF SectionSet
<1>9. PICK p : p = IF layout.markdown /\ Show!HasText(Show!Body(nb[i].lines)) THEN r ELSE q
  OBVIOUS
<1>10. HeadPage(p, i) /\ p.parent = up
  <2>1. p = r \/ p = q
    BY <1>9
  <2>2. ShowsOnce(q.blocks, i, {})
    BY <1>5, NothingShows
  <2> QED
    BY <1>5, <1>6, <1>8, <2>1, <2>2 DEF HeadPage
<1>11. Show!Heading(acc, nb[i], i) = [made |-> Show!Flushed(acc), stack |-> Append(above, i), page |-> p]
  BY <1>2, <1>4, <1>6, <1>7, <1>9 DEF Show!Heading, LevelOf
<1> QED
  BY <1>2, <1>10, <1>11

LEMMA AddCellTyped ==
    ASSUME nb \in Seq(CellSet), NEW i \in 1..Len(nb), NEW acc \in AccSet
    PROVE  Show!AddCell(acc, i) \in AccSet
<1>1. CASE nb[i].type = "code"
  <2>1. PICK e : ShowsOnce(e, i, Show!Owed(i)) /\ Show!Code(acc, nb[i], i) = Show!With(acc, e)
    BY <1>1, CodeShows
  <2>2. e \in Seq(BlockSet)
    BY <2>1 DEF ShowsOnce
  <2> QED
    BY <1>1, <2>1, <2>2, WithBlocks DEF Show!AddCell
<1>2. CASE nb[i].type # "code" /\ nb[i].type = "markdown" /\ Show!StartsSection(nb[i])
  <2>1. PICK above : above = Show!Enclosing(acc.stack, LevelOf(i))
    OBVIOUS
  <2>2. PICK p : /\ HeadPage(p, i)
                 /\ Show!Heading(acc, nb[i], i) = [made |-> Show!Flushed(acc), stack |-> Append(above, i), page |-> p]
    BY <2>1, HeadingMakes
  <2>3. above \in Seq(Nat)
    <3>1. acc.stack \in Seq(Nat)
      BY DEF AccSet
    <3>2. PICK T : above = Selected(acc.stack, T)
      BY <2>1, ShowLists DEF Show!Enclosing
    <3>3. Selected(acc.stack, T) \in Seq(Nat)
      BY <3>1, SelectedSelects
    <3> QED
      BY <3>2, <3>3
  <2>4. Append(above, i) \in Seq(Nat)
    BY <2>3, AppendProperties
  <2>5. Show!Flushed(acc) \in Seq(SectionSet) /\ p \in SectionSet
    BY <2>2, FlushShows DEF HeadPage
  <2>6. Show!AddCell(acc, i) = Show!Heading(acc, nb[i], i)
    BY <1>2 DEF Show!AddCell
  <2> QED
    BY <2>2, <2>4, <2>5, <2>6 DEF AccSet
<1>3. CASE nb[i].type # "code" /\ ~(nb[i].type = "markdown" /\ Show!StartsSection(nb[i]))
  <2>1. PICK m : m = <<Show!Page("md", i, <<>>)>> /\ m \in Seq(BlockSet)
    <3>1. ShowsOnce(<<Show!Page("md", i, <<>>)>>, i, {})
      <4>1. i \in Nat
        OBVIOUS
      <4> QED
        BY <4>1, TextShows
    <3>2. <<Show!Page("md", i, <<>>)>> \in Seq(BlockSet)
      BY <3>1, Zenon DEF ShowsOnce
    <3> QED
      BY <3>2, Zenon
  <2>2. Show!AddCell(acc, i) \in {Show!With(acc, m), acc}
    BY <1>3, <2>1 DEF Show!AddCell
  <2> QED
    BY <2>1, <2>2, WithBlocks
<1> QED
  BY <1>1, <1>2, <1>3

\* What the loop has made of the first n cells.
AccOk(acc, n) ==
    /\ acc \in AccSet /\ ShowsUpTo(FlatOf(acc.made) \o acc.page.blocks, n)
    /\ \A j \in 1..Len(acc.made) : PillIsRight(acc.made[j])
    /\ PillIsRight(acc.page) /\ Stacked(acc.stack, n)

LEMMA PillsOfSame ==
    ASSUME NEW p, NEW q, q.cell = p.cell, q.level = p.level, q.parent = p.parent, PillIsRight(p)
    PROVE  PillIsRight(q)
<1> DEFINE Right(c, l, u) == c > 0 /\ l > 0 =>
               LET above == {h \in HeadsUpTo(c - 1) : LevelOf(h) < l}
               IN u = IF above = {} THEN 0 ELSE CHOOSE h \in above : \A g \in above : g <= h
<1>1. PillIsRight(p) <=> Right(p.cell, p.level, p.parent)
  BY DEF PillIsRight
<1>2. PillIsRight(q) <=> Right(q.cell, q.level, q.parent)
  BY DEF PillIsRight
<1> HIDE DEF Right
<1> QED
  BY <1>1, <1>2

LEMMA HeadsGrow ==
    ASSUME NEW n \in Nat
    PROVE  /\ nb[n + 1].type = "markdown" /\ Show!StartsSection(nb[n + 1])
              => HeadsUpTo(n + 1) = HeadsUpTo(n) \cup {n + 1}
           /\ ~(nb[n + 1].type = "markdown" /\ Show!StartsSection(nb[n + 1]))
              => HeadsUpTo(n + 1) = HeadsUpTo(n)
<1>1. 1..n + 1 = (1..n) \cup {n + 1}
  OBVIOUS
<1> QED
  BY <1>1 DEF HeadsUpTo

\* A cell that starts no section adds what it shows to the page.
LEMMA BlocksAdded ==
    ASSUME NEW n \in Nat, NEW acc, AccOk(acc, n), NEW e, ShowsOnce(e, n + 1, Show!Owed(n + 1)),
           ~(nb[n + 1].type = "markdown" /\ Show!StartsSection(nb[n + 1]))
    PROVE  AccOk(Show!With(acc, e), n + 1)
<1>1. acc \in AccSet /\ e \in Seq(BlockSet) /\ acc.made \in Seq(SectionSet) /\ acc.page.blocks \in Seq(BlockSet)
  BY DEF AccOk, ShowsOnce, AccSet, SectionSet
<1>2. PICK w : w = Show!With(acc, e)
  OBVIOUS
<1>3. /\ w \in AccSet /\ w.made = acc.made /\ w.stack = acc.stack
      /\ w.page.cell = acc.page.cell /\ w.page.level = acc.page.level
      /\ w.page.parent = acc.page.parent /\ w.page.blocks = acc.page.blocks \o e
  BY <1>1, <1>2, WithBlocks
<1>4. ShowsUpTo(FlatOf(w.made) \o w.page.blocks, n + 1)
  <2>1. PICK f \in Seq(BlockSet) : f = FlatOf(acc.made)
    <3>1. acc.page \in SectionSet
      BY <1>1 DEF AccSet
    <3> QED
      BY <1>1, <3>1, FlatAppends
  <2>2. (f \o acc.page.blocks) \o e = f \o (acc.page.blocks \o e)
    <3>1. PICK b \in Seq(BlockSet) : b = acc.page.blocks
      BY <1>1
    <3>2. Regroups(f, b, e)
      BY <1>1, Regrouping
    <3>3. (f \o b) \o e = f \o (b \o e)
      BY <3>2 DEF Regroups
    <3> QED
      BY <3>1, <3>3, Zenon
  <2>3. ShowsUpTo(f \o acc.page.blocks, n)
    BY <2>1 DEF AccOk
  <2>4. ShowsUpTo((f \o acc.page.blocks) \o e, n + 1)
    BY <2>3, NextCellShown
  <2> QED
    BY <1>3, <2>1, <2>2, <2>4
<1>5. PillIsRight(w.page)
  <2>1. PillIsRight(acc.page)
    BY DEF AccOk
  <2> QED
    BY <1>3, <2>1, PillsOfSame
<1>6. Stacked(w.stack, n + 1)
  <2>1. HeadsUpTo(n + 1) = HeadsUpTo(n)
    BY HeadsGrow
  <2>2. Stacked(acc.stack, n)
    BY DEF AccOk
  <2> QED
    BY <1>3, <2>1, <2>2 DEF Stacked
<1>7. \A j \in 1..Len(w.made) : PillIsRight(w.made[j])
  BY <1>3 DEF AccOk
<1> QED
  BY <1>2, <1>3, <1>4, <1>5, <1>6, <1>7 DEF AccOk

LEMMA NothingAdded ==
    ASSUME NEW n \in Nat, NEW acc, AccOk(acc, n), Show!Owed(n + 1) = {},
           ~(nb[n + 1].type = "markdown" /\ Show!StartsSection(nb[n + 1]))
    PROVE  AccOk(acc, n + 1)
<1>1. PICK f : f = FlatOf(acc.made) \o acc.page.blocks
  OBVIOUS
<1>2. ShowsUpTo(f, n)
  BY <1>1 DEF AccOk
<1>3. ShowsUpTo(f \o <<>>, n + 1)
  BY <1>2, NothingShows, NextCellShown
<1>4. f \o <<>> = f
  BY <1>2, ConcatEmptySeq DEF ShowsUpTo
<1>5. HeadsUpTo(n + 1) = HeadsUpTo(n)
  BY HeadsGrow
<1>6. Stacked(acc.stack, n + 1)
  BY <1>5 DEF AccOk, Stacked
<1> QED
  BY <1>1, <1>3, <1>4, <1>6 DEF AccOk

\* A heading ends those of its rank and below, and is the last.
LEMMA HeadingStacked ==
    ASSUME nb \in Seq(CellSet), NEW n \in Nat, n + 1 \in 1..Len(nb), NEW s, Stacked(s, n),
           nb[n + 1].type = "markdown", Show!StartsSection(nb[n + 1]),
           NEW above, above = Show!Enclosing(s, LevelOf(n + 1))
    PROVE  Stacked(Append(above, n + 1), n + 1)
<1>1. \A h : LevelOf(h) \in Nat
  BY LevelsAreNumbers DEF LevelOf
<1>2. PICK level \in Nat : level = LevelOf(n + 1)
  BY <1>1
<1>3. /\ above \in Seq(Nat) /\ Rising(above)
      /\ \A h : (\E k \in 1..Len(above) : above[k] = h)
                <=> LevelOf(h) < level /\ \E k \in 1..Len(s) : s[k] = h
  <2>1. above = Show!Enclosing(s, level)
    BY <1>2
  <2>2. \A h : (\E k \in 1..Len(above) : above[k] = h)
                <=> LevelOf(h) < level /\ \E k \in 1..Len(s) : s[k] = h
    BY <2>1, NearestIsLast
  <2>3. above \in Seq(Nat) /\ Rising(above)
    BY <2>1, NearestIsLast
  <2> QED
    BY <2>2, <2>3
<1>4. \A h : (\E k \in 1..Len(s) : s[k] = h)
              <=> h \in HeadsUpTo(n) /\ \A g \in HeadsUpTo(n) : g > h => LevelOf(h) < LevelOf(g)
  BY DEF Stacked
<1>5. HeadsUpTo(n + 1) = HeadsUpTo(n) \cup {n + 1} /\ HeadsUpTo(n) \subseteq 1..n
  BY HeadsGrow DEF HeadsUpTo
<1>6. PICK l \in Nat : l = Len(above)
  BY <1>3
<1>7. PICK t : t = Append(above, n + 1)
  OBVIOUS
<1>8. t \in Seq(Nat) /\ Len(t) = l + 1
  BY <1>3, <1>6, <1>7, AppendProperties
<1>9. t[l + 1] = n + 1 /\ \A k \in 1..l : t[k] = above[k]
  BY <1>3, <1>6, <1>7, AppendProperties
<1>10. \A k \in 1..l : above[k] \in 1..n
  BY <1>3, <1>4, <1>5, <1>6
<1>11. Rising(t)
  <2> SUFFICES ASSUME NEW j \in 1..l + 1, NEW k \in 1..l + 1, j < k PROVE t[j] < t[k]
    BY <1>8 DEF Rising
  <2>1. j \in 1..l
    OBVIOUS
  <2>2. CASE k = l + 1
    <3>1. t[j] \in 1..n
      BY <1>9, <1>10, <2>1
    <3> QED
      BY <1>9, <2>2, <3>1
  <2>3. CASE k # l + 1
    <3>1. k \in 1..l
      BY <2>3
    <3> QED
      BY <1>3, <1>6, <1>9, <2>1, <3>1 DEF Rising
  <2> QED
    BY <2>2, <2>3
<1>12. \A h : (\E k \in 1..l + 1 : t[k] = h) <=> h = n + 1 \/ \E k \in 1..l : above[k] = h
  <2> TAKE h
  <2>1. l + 1 \in 1..l + 1 /\ \A k \in 1..l : k \in 1..l + 1
    OBVIOUS
  <2>2. \A k \in 1..l + 1 : k = l + 1 \/ k \in 1..l
    OBVIOUS
  <2> QED
    BY <1>9, <2>1, <2>2
<1>13. \A h : (\E k \in 1..l + 1 : t[k] = h)
              <=> /\ h \in HeadsUpTo(n + 1)
                  /\ \A g \in HeadsUpTo(n + 1) : g > h => LevelOf(h) < LevelOf(g)
  <2> TAKE h
  <2>1. CASE h = n + 1
    <3>1. \A g \in HeadsUpTo(n + 1) : ~(g > h)
      BY <1>5, <2>1
    <3> QED
      BY <1>5, <1>12, <2>1, <3>1
  <2>2. CASE h # n + 1
    <3>1. (\E k \in 1..l + 1 : t[k] = h) <=> LevelOf(h) < level /\ \E k \in 1..Len(s) : s[k] = h
      BY <1>3, <1>6, <1>12, <2>2
    <3>2. h \in HeadsUpTo(n) => n + 1 > h
      BY <1>5
    <3> QED
      BY <1>2, <1>4, <1>5, <2>2, <3>1, <3>2
  <2> QED
    BY <2>1, <2>2
<1>14. Stacked(t, n + 1)
  BY <1>8, <1>11, <1>13 DEF Stacked
<1> QED
  BY <1>7, <1>14

LEMMA FlushPills ==
    ASSUME NEW acc, NEW n, AccOk(acc, n)
    PROVE  \A j \in 1..Len(Show!Flushed(acc)) : PillIsRight(Show!Flushed(acc)[j])
<1>1. acc.made \in Seq(SectionSet) /\ acc.page \in SectionSet
  BY DEF AccOk, AccSet
<1>2. CASE acc.page.blocks = <<>>
  <2>1. Show!Flushed(acc) = acc.made
    BY <1>2 DEF Show!Flushed
  <2> QED
    BY <2>1 DEF AccOk
<1>3. CASE acc.page.blocks # <<>>
  <2>1. PICK made : made = Show!Flushed(acc) /\ made = Append(acc.made, acc.page)
    BY <1>3 DEF Show!Flushed
  <2>2. PICK m \in Nat : m = Len(acc.made)
    BY <1>1
  <2>3. Len(made) = m + 1 /\ made[m + 1] = acc.page
    BY <1>1, <2>1, <2>2, AppendProperties
  <2>4. \A j \in 1..m : made[j] = acc.made[j]
    BY <1>1, <2>1, <2>2, AppendProperties
  <2>5. \A j \in 1..m + 1 : j = m + 1 \/ j \in 1..m
    OBVIOUS
  <2>6. PillIsRight(acc.page) /\ \A j \in 1..m : PillIsRight(acc.made[j])
    BY <2>2 DEF AccOk
  <2> QED
    BY <2>1, <2>3, <2>4, <2>5, <2>6
<1> QED
  BY <1>2, <1>3

LEMMA HeadingAdded ==
    ASSUME nb \in Seq(CellSet), NEW n \in Nat, n + 1 \in 1..Len(nb), NEW acc, AccOk(acc, n),
           nb[n + 1].type = "markdown", Show!StartsSection(nb[n + 1])
    PROVE  AccOk(Show!Heading(acc, nb[n + 1], n + 1), n + 1)
<1>1. PICK above : above = Show!Enclosing(acc.stack, LevelOf(n + 1))
  OBVIOUS
<1>2. acc \in AccSet /\ Stacked(acc.stack, n)
  BY DEF AccOk
<1>3. PICK p : /\ HeadPage(p, n + 1) /\ p.parent = IF above = <<>> THEN 0 ELSE Show!Last(above)
               /\ Show!Heading(acc, nb[n + 1], n + 1)
                  = [made |-> Show!Flushed(acc), stack |-> Append(above, n + 1), page |-> p]
  BY <1>1, <1>2, HeadingMakes
<1>4. PICK made \in Seq(SectionSet) : made = Show!Flushed(acc)
  BY <1>2, FlushShows
<1>5. PICK w : w = Show!Heading(acc, nb[n + 1], n + 1)
  OBVIOUS
<1>6. w.made = made /\ w.stack = Append(above, n + 1) /\ w.page = p
  BY <1>3, <1>4, <1>5
<1>7. w \in AccSet
  <2>1. Show!AddCell(acc, n + 1) = w
    BY <1>5 DEF Show!AddCell
  <2>2. Show!AddCell(acc, n + 1) \in AccSet
    BY <1>2, AddCellTyped
  <2> QED
    BY <2>1, <2>2
<1>8. ShowsUpTo(FlatOf(w.made) \o w.page.blocks, n + 1)
  <2>1. ShowsUpTo(FlatOf(made), n)
    <3>1. FlatOf(made) = FlatOf(acc.made) \o acc.page.blocks
      BY <1>2, <1>4, FlushShows
    <3> QED
      BY <3>1 DEF AccOk
  <2>2. Show!Owed(n + 1) = {}
    BY TextOwesNothing
  <2>3. ShowsOnce(p.blocks, n + 1, Show!Owed(n + 1))
    BY <1>3, <2>2 DEF HeadPage
  <2> QED
    BY <1>6, <2>1, <2>3, NextCellShown
<1>9. \A j \in 1..Len(made) : PillIsRight(made[j])
  BY <1>4, FlushPills
<1>10. PillIsRight(p)
  <2>1. p.cell = n + 1 /\ p.level = LevelOf(n + 1)
    BY <1>3 DEF HeadPage
  <2>2. p.cell - 1 = n
    BY <2>1
  <2>3. LevelOf(n + 1) \in Nat
    BY LevelsAreNumbers DEF LevelOf
  <2>4. PICK level \in Nat : level = LevelOf(n + 1)
    BY <2>3
  <2>5. PICK A : A = {h \in HeadsUpTo(n) : LevelOf(h) < level}
    OBVIOUS
  <2>6. (IF above = <<>> THEN 0 ELSE Show!Last(above))
        = IF A = {} THEN 0 ELSE CHOOSE h \in A : \A g \in A : g <= h
    BY <1>1, <1>2, <2>4, <2>5, NearestIsLast
  <2>7. p.parent = IF A = {} THEN 0 ELSE CHOOSE h \in A : \A g \in A : g <= h
    BY <1>3, <2>6
  <2>8. A = {h \in HeadsUpTo(p.cell - 1) : LevelOf(h) < p.level}
    BY <2>1, <2>2, <2>4, <2>5
  <2> QED
    BY <2>7, <2>8 DEF PillIsRight
<1>11. Stacked(Append(above, n + 1), n + 1)
  BY <1>1, <1>2, HeadingStacked
<1> QED
  BY <1>5, <1>6, <1>7, <1>8, <1>9, <1>10, <1>11 DEF AccOk

LEMMA CellAdded ==
    ASSUME nb \in Seq(CellSet), NEW n \in Nat, n + 1 \in 1..Len(nb), NEW acc, AccOk(acc, n)
    PROVE  AccOk(Show!AddCell(acc, n + 1), n + 1)
<1>1. CASE nb[n + 1].type = "code"
  <2>1. PICK e : /\ ShowsOnce(e, n + 1, Show!Owed(n + 1))
                 /\ \A x : Show!Code(x, nb[n + 1], n + 1) = Show!With(x, e)
    BY <1>1, CodeShows
  <2>2. Show!AddCell(acc, n + 1) = Show!With(acc, e)
    BY <1>1, <2>1 DEF Show!AddCell
  <2> QED
    BY <1>1, <2>1, <2>2, BlocksAdded
<1>2. CASE nb[n + 1].type # "code" /\ nb[n + 1].type = "markdown" /\ Show!StartsSection(nb[n + 1])
  <2>1. Show!AddCell(acc, n + 1) = Show!Heading(acc, nb[n + 1], n + 1)
    BY <1>2 DEF Show!AddCell
  <2> QED
    BY <1>2, <2>1, HeadingAdded
<1>3. CASE nb[n + 1].type # "code" /\ ~(nb[n + 1].type = "markdown" /\ Show!StartsSection(nb[n + 1]))
  <2>1. PICK m : m = <<Show!Page("md", n + 1, <<>>)>>
    OBVIOUS
  <2>2. Show!AddCell(acc, n + 1) \in {Show!With(acc, m), acc}
    BY <1>3, <2>1 DEF Show!AddCell
  <2>3. Show!Owed(n + 1) = {}
    BY <1>3, TextOwesNothing
  <2>4. ShowsOnce(m, n + 1, Show!Owed(n + 1))
    <3>1. PICK i \in Nat : i = n + 1
      OBVIOUS
    <3>2. ShowsOnce(m, i, {})
      BY <2>1, <3>1, TextShows
    <3> QED
      BY <2>3, <3>1, <3>2
  <2>5. AccOk(Show!With(acc, m), n + 1)
    BY <1>3, <2>4, BlocksAdded
  <2>6. AccOk(acc, n + 1)
    BY <1>3, <2>3, NothingAdded
  <2> QED
    BY <2>2, <2>5, <2>6
<1> QED
  BY <1>1, <1>2, <1>3

\* The loop goes through all cells.
LEMMA PerSectionShows ==
    ASSUME nb \in Seq(CellSet)
    PROVE  /\ Show!PerSection \in Seq(SectionSet) /\ ShowsUpTo(FlatOf(Show!PerSection), Len(nb))
           /\ \A j \in 1..Len(Show!PerSection) : PillIsRight(Show!PerSection[j])
<1>1. PICK m \in Nat : m = Len(nb)
  OBVIOUS
<1>2. PICK b : b = [made |-> <<>>, page |-> Show!NewPage(0, 0, 0), stack |-> <<>>]
  OBVIOUS
<1>3. AccOk(b, 0)
  <2>1. PICK p : p = Show!NewPage(0, 0, 0)
    OBVIOUS
  <2>2. PICK z \in Seq(BlockSet) : z = <<>>
    <3>1. <<>> \in Seq(BlockSet)
      OBVIOUS
    <3> QED
      BY <3>1, Zenon
  <2>3. p \in SectionSet /\ p.cell = 0 /\ p.blocks = <<>>
    <3>1. p = [type |-> "section", cell |-> 0, level |-> 0, parent |-> 0, blocks |-> z]
      BY <2>1, <2>2 DEF Show!NewPage
    <3> QED
      BY <2>2, <3>1 DEF SectionSet
  <2>4. b.made = <<>> /\ b.page = p /\ b.stack = <<>>
    BY <1>2, <2>1
  <2>5. b \in AccSet
    <3>1. <<>> \in Seq(SectionSet) /\ <<>> \in Seq(Nat)
      OBVIOUS
    <3> QED
      BY <1>2, <2>1, <2>3, <3>1 DEF AccSet
  <2>6. FlatOf(b.made) \o b.page.blocks = <<>>
    BY <2>2, <2>3, <2>4, FlatOfNothing, ConcatEmptySeq
  <2>7. PillIsRight(b.page)
    BY <2>3, <2>4 DEF PillIsRight
  <2>8. Stacked(b.stack, 0)
    <3>1. HeadsUpTo(0) = {}
      BY DEF HeadsUpTo
    <3>2. <<>> \in Seq(Nat) /\ Len(<<>>) = 0
      OBVIOUS
    <3> QED
      BY <2>4, <3>1, <3>2 DEF Stacked, Rising
  <2>9. \A j \in 1..Len(b.made) : PillIsRight(b.made[j])
    BY <2>4
  <2> QED
    BY <2>5, <2>6, <2>7, <2>8, <2>9, NoCellsShown DEF AccOk
<1>4. b \in AccSet
  BY <1>3 DEF AccOk
<1> DEFINE step == [x \in AccSet \X (1..m) |-> Show!AddCell(x[1], x[2])]
           UpTo(f) == f = [i \in 0..Len(nb) |-> IF i = 0 THEN b ELSE Show!AddCell(f[i - 1], i)]
<1>5. step \in [AccSet \X (1..m) -> AccSet]
  <2> SUFFICES ASSUME NEW x \in AccSet \X (1..m) PROVE Show!AddCell(x[1], x[2]) \in AccSet
    OBVIOUS
  <2> QED
    BY <1>1, AddCellTyped
<1>6. \A x \in AccSet, k \in 1..m : step[<<x, k>>] = Show!AddCell(x, k)
  OBVIOUS
<1> HIDE DEF step
<1>7. PICK f : f \in [0..m -> AccSet] /\ f[0] = b /\ \A k \in 1..m : f[k] = step[<<f[k - 1], k>>]
  <2>1. \E f : Recurs(f, AccSet, b, m, step)
    BY <1>4, <1>5, Recursion
  <2> QED
    BY <2>1, Zenon DEF Recurs
<1>8. \A k \in 1..m : f[k] = Show!AddCell(f[k - 1], k)
  <2> TAKE k \in 1..m
  <2>1. f[k - 1] \in AccSet
    <3>1. k - 1 \in 0..m
      OBVIOUS
    <3> QED
      BY <1>7, <3>1
  <2> QED
    BY <1>6, <1>7, <2>1
<1>9. UpTo(f)
  <2>1. f = [i \in 0..m |-> f[i]]
    BY <1>7
  <2>2. \A i \in 0..m : f[i] = IF i = 0 THEN b ELSE Show!AddCell(f[i - 1], i)
    <3>1. \A i \in 0..m : i = 0 \/ i \in 1..m
      OBVIOUS
    <3> QED
      BY <1>7, <1>8, <3>1
  <2> QED
    BY <1>1, <2>1, <2>2
<1>10. \A g : UpTo(g) => /\ g[0] = b
                         /\ \A k \in 1..m : g[k] = Show!AddCell(g[k - 1], k)
  <2> SUFFICES ASSUME NEW g, UpTo(g)
               PROVE  g[0] = b /\ \A k \in 1..m : g[k] = Show!AddCell(g[k - 1], k)
    OBVIOUS
  <2>1. PICK h : h = g
    OBVIOUS
  <2>2. g = [i \in 0..m |-> IF i = 0 THEN b ELSE Show!AddCell(h[i - 1], i)]
    BY <1>1, <2>1
  <2>3. g[0] = b /\ \A k \in 1..m : g[k] = Show!AddCell(h[k - 1], k)
    <3>1. 0 \in 0..m /\ \A k \in 1..m : k \in 0..m /\ k # 0
      OBVIOUS
    <3> QED
      BY <2>2, <3>1
  <2> QED
    BY <2>1, <2>3
<1>11. Show!PerSection = Show!Sections((CHOOSE g : UpTo(g))[m])
  BY <1>1, <1>2 DEF Show!PerSection
<1> HIDE DEF UpTo
<1>12. PICK g : Show!PerSection = Show!Sections(g[m]) /\ UpTo(g)
  BY <1>9, <1>11
<1> DEFINE S == {k \in Nat : k <= m => AccOk(g[k], k)}
<1>13. 0 \in S
  BY <1>3, <1>10, <1>12
<1>14. ASSUME NEW k \in Nat, k \in S
       PROVE  k + 1 \in S
  <2> SUFFICES ASSUME k + 1 <= m PROVE AccOk(g[k + 1], k + 1)
    OBVIOUS
  <2>1. PICK i \in 1..m : i = k + 1 /\ i - 1 = k
    BY <1>14
  <2>2. g[i] = Show!AddCell(g[k], i)
    BY <1>10, <1>12, <2>1, Zenon
  <2>3. AccOk(g[k], k)
    BY <1>14, <2>1
  <2>4. AccOk(Show!AddCell(g[k], k + 1), k + 1)
    BY <1>1, <2>1, <2>3, CellAdded
  <2> QED
    BY <2>1, <2>2, <2>4
<1> HIDE DEF S
<1>15. m \in S
  BY <1>13, <1>14, FromZeroOn
<1>16. PICK acc : acc = g[m] /\ AccOk(acc, m)
  BY <1>15 DEF S
<1>17. PICK made : made = Show!PerSection /\ made = Show!Flushed(acc)
  BY <1>12, <1>16 DEF Show!Sections
<1>18. /\ acc \in AccSet /\ made \in Seq(SectionSet)
       /\ FlatOf(made) = FlatOf(acc.made) \o acc.page.blocks
  BY <1>16, <1>17, FlushShows DEF AccOk
<1>19. \A j \in 1..Len(made) : PillIsRight(made[j])
  BY <1>16, <1>17, FlushPills
<1> QED
  BY <1>1, <1>16, <1>17, <1>18, <1>19 DEF AccOk

-----------------------------------------------------------------------------
(* The pages *)

\* Pages of the layout by cells are blocks themselves.
LEMMA FlatOfBlocks ==
    ASSUME NEW ps \in Seq(BlockSet)
    PROVE  FlatOf(ps) = ps
<1>1. PICK n \in Nat : n = Len(ps) /\ DOMAIN ps = 1..n
  OBVIOUS
<1>2. PICK ss : ss = BlocksOf(ps)
  OBVIOUS
<1>3. \A k \in 1..n : ss[k] = <<ps[k]>> /\ ps[k] \in BlockSet
  <2>1. \A k \in 1..n : ps[k] \in BlockSet
    BY <1>1
  <2> QED
    BY <1>1, <1>2, <2>1, NoSections DEF BlocksOf, Show!Blocks
<1>4. ss \in Seq(Seq(BlockSet)) /\ Len(ss) = n
  <2>1. ASSUME NEW k \in 1..n PROVE ss[k] \in Seq(BlockSet)
    <3>1. PICK p \in BlockSet : p = ps[k]
      BY <1>3
    <3>2. <<p>> \in Seq(BlockSet)
      OBVIOUS
    <3> QED
      BY <1>3, <3>1, <3>2, Zenon
  <2>2. DOMAIN ss = 1..n /\ ss = [k \in DOMAIN ss |-> ss[k]]
    BY <1>1, <1>2 DEF BlocksOf
  <2>3. ss \in [1..n -> Seq(BlockSet)]
    BY <2>1, <2>2
  <2>4. ss \in Seq(Seq(BlockSet))
    BY <2>3, SeqDef
  <2> QED
    BY <2>2, <2>4
<1>5. PICK f \in [0..n -> Seq(BlockSet)] :
         /\ f[0] = <<>> /\ \A k \in 1..n : f[k] = f[k - 1] \o ss[k]
         /\ Joined(ss) = f[n]
  <2>1. \E f \in [0..Len(ss) -> Seq(BlockSet)] :
           /\ f[0] = <<>> /\ \A k \in 1..Len(ss) : f[k] = f[k - 1] \o ss[k]
           /\ Joined(ss) = f[Len(ss)]
    BY <1>4, JoinedGoes
  <2> QED
    BY <1>4, <2>1, Zenon
<1> DEFINE Same(x, k) == x \in Seq(BlockSet) /\ Len(x) = k /\ \A j \in 1..k : x[j] = ps[j]
           S == {k \in Nat : k <= n => Same(f[k], k)}
<1>6. 0 \in S
  <2>1. Same(<<>>, 0)
    OBVIOUS
  <2> QED
    BY <1>5, <2>1
<1>7. ASSUME NEW k \in Nat, k \in S
      PROVE  k + 1 \in S
  <2> SUFFICES ASSUME k + 1 <= n PROVE Same(f[k + 1], k + 1)
    OBVIOUS
  <2>1. PICK m \in 1..n : m = k + 1 /\ m - 1 = k
    BY <1>7
  <2>2. PICK x : x = f[k] /\ Same(x, k)
    BY <1>7, <2>1
  <2>3. f[m] = x \o ss[m]
    BY <1>5, <2>1, <2>2, Zenon
  <2>4. x \o <<ps[m]>> = Append(x, ps[m])
    BY <1>3, <2>2
  <2>5. Append(x, ps[m]) \in Seq(BlockSet) /\ Len(Append(x, ps[m])) = k + 1
    <3>1. x \in Seq(BlockSet) /\ Len(x) = k /\ ps[m] \in BlockSet
      BY <1>3, <2>2
    <3> QED
      BY <3>1, AppendProperties
  <2>6. Append(x, ps[m])[k + 1] = ps[m] /\ \A j \in 1..k : Append(x, ps[m])[j] = ps[j]
    BY <1>3, <2>2, AppendProperties
  <2>7. \A j \in 1..k + 1 : j = k + 1 \/ j \in 1..k
    OBVIOUS
  <2>8. Same(Append(x, ps[m]), k + 1)
    BY <2>1, <2>5, <2>6, <2>7
  <2>9. f[k + 1] = Append(x, ps[m])
    BY <1>3, <2>1, <2>3, <2>4
  <2> HIDE DEF Same
  <2> QED
    BY <2>8, <2>9
<1> HIDE DEF S
<1>8. n \in S
  BY <1>6, <1>7, FromZeroOn
<1>9. Same(f[n], n)
  BY <1>8 DEF S
<1>10. f[n] = ps
  BY <1>1, <1>9, SeqEqual
<1> QED
  BY <1>2, <1>5, <1>10 DEF FlatOf

\* Pages of either layout that show the whole notebook.
WholePages(ps) ==
    /\ ps \in Seq(BlockSet) \/ ps \in Seq(SectionSet)
    /\ ps # <<>> => ShowsUpTo(FlatOf(ps), Len(nb))
    /\ \A j \in 1..Len(ps) : ps[j].type = "section" => PillIsRight(ps[j])

\* The pages are whole, and one of them is on the screen once there are any.
ShowIInv ==
    /\ nb \in Notebooks /\ layout \in Layouts /\ idx \in 0..Len(pages)
    /\ \E ps : ps = pages /\ WholePages(ps)

LEMMA CellsAreTyped == PartsAssumption /\ nb \in Notebooks => nb \in Seq(CellSet)
BY DEF PartsAssumption, Show!NotebookPagesAssumption, CellSet

\* The page that says there is nothing is shown only where nothing is owed.
LEMMA NothingIsWhole ==
    ASSUME nb \in Seq(CellSet), ShowsUpTo(<<>>, Len(nb))
    PROVE  WholePages(<<Show!Page("text", 0, <<>>)>>)
<1> DEFINE p == Show!Page("text", 0, <<>>)
<1>1. p \in BlockSet /\ p.cell = 0
  BY DEF Show!Page, BlockSet, BlockTypes
<1> HIDE DEF p
<1>2. PICK f : f = <<p>>
  OBVIOUS
<1>3. f \in Seq(BlockSet) /\ Len(f) = 1 /\ f[1] = p
  BY <1>1, <1>2
<1>4. \A i \in 1..Len(nb) : Show!Owed(i) = {}
  <2> TAKE i \in 1..Len(nb)
  <2>1. ASSUME NEW k \in Show!Owed(i) PROVE FALSE
    <3>1. PICK e : e = <<>>
      OBVIOUS
    <3>2. i <= Len(nb)
      OBVIOUS
    <3>3. \E j : PlacesOf(e, i, k) = {j}
      BY <2>1, <3>1, <3>2 DEF ShowsUpTo
    <3>4. PlacesOf(e, i, k) = {}
      BY <3>1 DEF PlacesOf
    <3> QED
      BY <3>3, <3>4
  <2> QED
    BY <2>1
<1>5. ShowsUpTo(f, Len(nb))
  <2>1. \A j \in 1..1 : j = 1
    OBVIOUS
  <2> QED
    BY <1>1, <1>3, <1>4, <2>1 DEF ShowsUpTo
<1>6. \A j \in 1..Len(f) : f[j].type # "section"
  <2>1. \A j \in 1..1 : j = 1
    OBVIOUS
  <2>2. p.type # "section"
    BY <1>1, NoSections
  <2> QED
    BY <1>3, <2>1, <2>2
<1>7. WholePages(f)
  BY <1>5, <1>6, <1>3, FlatOfBlocks DEF WholePages
<1> QED
  BY <1>2, <1>7 DEF p

LEMMA MadeIsWhole ==
    ASSUME nb \in Seq(CellSet), NEW made, made = IF layout.mode = "cell" THEN Show!PerCell ELSE Show!PerSection
    PROVE  WholePages(IF made = <<>> THEN <<Show!Page("text", 0, <<>>)>> ELSE made)
<1>1. WholePages(made) /\ ShowsUpTo(FlatOf(made), Len(nb))
  <2>1. CASE layout.mode = "cell"
    <3>1. made \in Seq(BlockSet) /\ ShowsUpTo(made, Len(nb))
      BY <2>1, PerCellShows DEF ShowsUpTo
    <3>2. \A j \in 1..Len(made) : made[j].type # "section"
      BY <3>1, NoSections
    <3> QED
      BY <3>1, <3>2, FlatOfBlocks DEF WholePages
  <2>2. CASE layout.mode # "cell"
    BY <2>2, PerSectionShows DEF WholePages
  <2> QED
    BY <2>1, <2>2
<1>2. CASE made = <<>>
  BY <1>1, <1>2, FlatOfNothing, NothingIsWhole
<1>3. CASE made # <<>>
  BY <1>1, <1>3
<1> QED
  BY <1>2, <1>3

\* As long as the notebook and the layout stay, so do the pages.
LEMMA WholeStays ==
    ASSUME nb' = nb, layout' = layout
    PROVE  \A ps : WholePages(ps) => WholePages(ps)'
<1>1. \A i : Show!Owed(i)' = Show!Owed(i)
  BY DEF Show!Owed
<1>2. \A h : LevelOf(h)' = LevelOf(h)
  BY DEF LevelOf
<1>3. \A c : Show!StartsSection(c)' = Show!StartsSection(c)
  BY DEF Show!StartsSection, Show!SectionLevel
<1>4. \A n : HeadsUpTo(n)' = HeadsUpTo(n)
  BY <1>3 DEF HeadsUpTo
<1>5. \A p : PillIsRight(p) => PillIsRight(p)'
  <2> TAKE p
  <2>1. PICK c : c = p.cell - 1
    OBVIOUS
  <2>2. PICK A : A = {h \in HeadsUpTo(c) : LevelOf(h) < p.level}
    OBVIOUS
  <2>3. A = {h \in HeadsUpTo(c)' : LevelOf(h)' < p.level}
    BY <1>2, <1>4, <2>2
  <2> QED
    BY <2>1, <2>2, <2>3 DEF PillIsRight
<1>6. \A f, n : ShowsUpTo(f, n) => ShowsUpTo(f, n)'
  BY <1>1 DEF ShowsUpTo
<1> QED
  BY <1>5, <1>6 DEF WholePages

LEMMA WholeIsLong == \A ps : WholePages(ps) => Len(ps) \in Nat /\ (ps # <<>> => Len(ps) > 0)
BY DEF WholePages

LEMMA ShowStarts == Show!Init => ShowIInv
<1> SUFFICES ASSUME Show!Init PROVE ShowIInv
  OBVIOUS
<1>1. <<>> \in Seq(BlockSet) /\ Len(<<>>) = 0
  OBVIOUS
<1>2. PICK ps : ps = pages
  OBVIOUS
<1>3. ps = <<>>
  BY <1>2 DEF Show!Init
<1>4. WholePages(ps)
  BY <1>1, <1>3 DEF WholePages
<1>5. idx \in 0..Len(pages) /\ nb \in Notebooks /\ layout \in Layouts
  BY <1>1, <1>2, <1>3 DEF Show!Init
<1> QED
  BY <1>2, <1>4, <1>5 DEF ShowIInv

LEMMA ClipStays ==
    ASSUME NEW i \in Int, NEW n \in Nat, n > 0
    PROVE  Show!Clip(i, 1, n) \in 0..n
BY DEF Show!Clip

LEMMA ShowGoes == PartsAssumption /\ ShowIInv /\ [Show!Next]_Show!vars => ShowIInv'
<1> SUFFICES ASSUME PartsAssumption, ShowIInv, [Show!Next]_Show!vars PROVE ShowIInv'
  OBVIOUS
<1>1. PICK ps : ps = pages /\ WholePages(ps)
  BY DEF ShowIInv
<1>2. PICK n \in Nat : ps = pages /\ WholePages(ps) /\ n = Len(ps) /\ (ps # <<>> => n > 0)
  BY <1>1, WholeIsLong
<1>3. nb \in Notebooks /\ layout \in Layouts /\ idx \in 0..n /\ nb \in Seq(CellSet)
  BY <1>2, CellsAreTyped DEF ShowIInv
<1>4. ASSUME nb' = nb, layout' = layout, pages' = pages, idx' \in 0..n
      PROVE  ShowIInv'
  <2>1. WholePages(ps)'
    BY <1>2, <1>4, WholeStays
  <2> QED
    BY <1>2, <1>3, <1>4, <2>1 DEF ShowIInv
<1>5. CASE Show!Make
  <2>1. PICK made : made = IF layout.mode = "cell" THEN Show!PerCell ELSE Show!PerSection
    OBVIOUS
  <2>2. PICK new : new = IF made = <<>> THEN <<Show!Page("text", 0, <<>>)>> ELSE made
    OBVIOUS
  <2>3. WholePages(new)
    BY <1>3, <2>1, <2>2, MadeIsWhole
  <2>4. nb' = nb /\ layout' = layout /\ pages' = new /\ idx' = 1
    BY <1>5, <2>1, <2>2 DEF Show!Make
  <2>5. Len(new) \in Nat /\ Len(new) > 0
    <3>1. new # <<>>
      BY <2>2
    <3> QED
      BY <2>3, <3>1, WholeIsLong
  <2>6. WholePages(new)'
    BY <2>3, <2>4, WholeStays
  <2>7. idx' \in 0..Len(pages')
    BY <2>4, <2>5
  <2> QED
    BY <1>3, <2>4, <2>6, <2>7 DEF ShowIInv
<1>6. ASSUME NEW i \in Int, Show!GoTo(i)
      PROVE  ShowIInv'
  <2>1. Show!Clip(i, 1, n) \in 0..n
    BY <1>2, <1>6, ClipStays DEF Show!GoTo
  <2> QED
    BY <1>2, <1>4, <1>6, <2>1 DEF Show!GoTo
<1>7. ASSUME NEW dx, Show!Swipe(dx)
      PROVE  ShowIInv'
  <2>1. n > 0
    BY <1>2, <1>7 DEF Show!Swipe
  <2>2. PICK p \in Int, q \in Int : p = idx + 1 /\ q = idx - 1
    BY <1>3
  <2>3. Show!Clip(p, 1, n) \in 0..n /\ Show!Clip(q, 1, n) \in 0..n
    BY <2>1, <2>2, ClipStays
  <2>4. idx' = Show!Clip(p, 1, n) \/ idx' = Show!Clip(q, 1, n) \/ idx' = idx
    BY <1>2, <1>7, <2>2 DEF Show!Swipe
  <2> QED
    BY <1>3, <1>4, <1>7, <2>3, <2>4 DEF Show!Swipe
<1>8. CASE UNCHANGED Show!vars
  BY <1>3, <1>4, <1>8 DEF Show!vars
<1>9. \A i \in Show!MenuPages : i \in Int
  <2>1. DOMAIN ps \subseteq Int
    BY <1>2 DEF WholePages
  <2> QED
    BY <1>2, <2>1 DEF Show!MenuPages
<1>10. idx - 1 \in Int /\ idx + 1 \in Int
  BY <1>3
<1> QED
  BY <1>5, <1>6, <1>7, <1>8, <1>9, <1>10 DEF Show!Next

\* ShowIInv holds always.
THEOREM PagesInvariance == AllSpec => [](part = "show" => ShowIInv)
<1>1. AllInit => (part = "show" => ShowIInv)
  BY ShowStarts DEF AllInit
<1>2. (part = "show" => ShowIInv) /\ [AllNext]_AllVars => (part = "show" => ShowIInv)'
  <2> SUFFICES ASSUME part = "show" => ShowIInv, [AllNext]_AllVars, part' = "show"
               PROVE  ShowIInv'
    OBVIOUS
  <2>1. part = "show" /\ [Show!Next]_Show!vars
    BY DEF AllNext, AllVars, InRun, NotebookVars, ShowVars, Show!vars
  <2> QED
    BY <2>1, PartsAssumption, ShowGoes
<1> QED
  BY <1>1, <1>2, PTL DEF AllSpec

\* run_notebook(), in either layout and for any notebook: every output that can be shown
\* is on one page, in order, and a section names the nearest heading it is under.
THEOREM PagesAreComplete == AllSpec => []PagesAreWhole
<1>1. ShowIInv => Show!TypeOK /\ Show!EveryOutputOnce /\ Show!ParentEncloses
  <2> SUFFICES ASSUME ShowIInv PROVE Show!TypeOK /\ Show!EveryOutputOnce /\ Show!ParentEncloses
    OBVIOUS
  <2>1. PICK ps : ps = pages /\ WholePages(ps)
    BY DEF ShowIInv
  <2>2. DOMAIN nb = 1..Len(nb) /\ DOMAIN ps = 1..Len(ps)
    <3>1. nb \in Seq(CellSet)
      BY PartsAssumption, CellsAreTyped DEF ShowIInv
    <3> QED
      BY <2>1, <3>1 DEF WholePages
  <2>3. Show!EveryOutputOnce
    <3> SUFFICES ASSUME pages # <<>>
                 PROVE  LET flat == Show!Flat
                        IN /\ \A i \in DOMAIN nb : \A k \in Show!Owed(i) :
                                 \E j \in DOMAIN flat : Show!Places(flat, i, k) = {j}
                           /\ \A j, m \in DOMAIN flat : j < m => flat[j].cell <= flat[m].cell
      BY DEF Show!EveryOutputOnce
    <3>1. PICK f : f = Show!Flat
      OBVIOUS
    <3>2. f = FlatOf(ps)
      BY <2>1, <3>1, ShowLists DEF Show!Flat, FlatOf, BlocksOf
    <3>3. ShowsUpTo(f, Len(nb))
      BY <2>1, <3>2 DEF WholePages
    <3>4. DOMAIN f = 1..Len(f) /\ f \in Seq(BlockSet)
      BY <3>3 DEF ShowsUpTo
    <3>5. \A i, k : Show!Places(f, i, k) = PlacesOf(f, i, k)
      <4>1. \A j \in 1..Len(f) : \A k : k \in Show!Range(f[j].outs) <=> \E m \in 1..Len(f[j].outs) : f[j].outs[m] = k
        <5> TAKE j \in 1..Len(f)
        <5>1. f[j] \in BlockSet
          BY <3>4
        <5>2. PICK o : o = f[j].outs
          OBVIOUS
        <5>3. o \in Seq(Nat)
          BY <5>1, <5>2 DEF BlockSet
        <5>4. DOMAIN o = 1..Len(o)
          BY <5>3
        <5> QED
          BY <5>2, <5>4 DEF Show!Range
      <4> QED
        BY <3>4, <4>1 DEF Show!Places, PlacesOf
    <3>6. \A i, k, j : PlacesOf(f, i, k) = {j} => j \in DOMAIN f
      BY <3>4 DEF PlacesOf
    <3>7. \A i \in DOMAIN nb : \A k \in Show!Owed(i) : \E j \in DOMAIN f : Show!Places(f, i, k) = {j}
      <4> TAKE i \in DOMAIN nb
      <4> TAKE k \in Show!Owed(i)
      <4>1. i \in 1..Len(nb) /\ i <= Len(nb)
        BY <2>2
      <4>2. PICK j : PlacesOf(f, i, k) = {j}
        BY <3>3, <4>1 DEF ShowsUpTo
      <4> QED
        BY <3>5, <3>6, <4>2
    <3>8. \A j, m \in DOMAIN f : j < m => f[j].cell <= f[m].cell
      BY <3>3, <3>4 DEF ShowsUpTo
    <3> QED
      BY <3>1, <3>7, <3>8
  <2>4. Show!ParentEncloses
    <3> SUFFICES ASSUME NEW p \in Show!Range(pages), p.type = "section", p.cell > 0, p.level > 0
                 PROVE  LET above == {h \in 1..p.cell - 1 : nb[h].type = "markdown" /\ Show!StartsSection(nb[h])
                                                             /\ Show!LeadingLevel(nb[h].lines) < p.level}
                        IN p.parent = IF above = {} THEN 0 ELSE CHOOSE h \in above : \A g \in above : g <= h
      BY DEF Show!ParentEncloses
    <3>1. PICK j \in 1..Len(ps) : p = ps[j]
      BY <2>1, <2>2 DEF Show!Range
    <3>2. PillIsRight(p)
      BY <2>1, <3>1 DEF WholePages
    <3>3. {h \in HeadsUpTo(p.cell - 1) : LevelOf(h) < p.level}
          = {h \in 1..p.cell - 1 : nb[h].type = "markdown" /\ Show!StartsSection(nb[h])
                                     /\ Show!LeadingLevel(nb[h].lines) < p.level}
      BY DEF HeadsUpTo, LevelOf
    <3> QED
      BY <3>2, <3>3 DEF PillIsRight
  <2> QED
    BY <2>3, <2>4 DEF ShowIInv, Show!TypeOK
<1>2. (part = "show" => ShowIInv) => PagesAreWhole
  BY <1>1 DEF PagesAreWhole
<1> QED
  BY <1>2, PagesInvariance, PTL

-----------------------------------------------------------------------------
(* The parts together *)

\* Neither a copy of a notebook nor a drawing stands for another file, whichever tool
\* writes it.
THEOREM FilesAreApart == AllSpec => []FilesStayApart
BY NamesFindTheirOwn, DrawingsStay, PTL DEF FilesStayApart

\* What the person sees of a page, of results or of a diagram is so.
THEOREM PanelsAreTrue == AllSpec => []PanelsTellTruly
BY PagesAreRecent, FacetsCount, ViewsStayInside, PTL DEF PanelsTellTruly

\* What the person sees of a notebook and its notes is all of it, once and in order.
THEOREM NotebooksAreComplete == AllSpec => []NotebooksAreWhole
BY PagesAreComplete, NotesAreWhole, PTL DEF NotebooksAreWhole
===============================================================================
