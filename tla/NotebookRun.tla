----------------------------- MODULE NotebookRun -----------------------------
(***************************************************************************)
(* Tools/notebook_lens.py: one call of run_notebook(), a tool of the chat   *)
(* that runs a notebook on a fresh kernel of a Jupyter server, cell by      *)
(* cell over a WebSocket, shows every output as pages and saves a copy.     *)
(*                                                                          *)
(* The call is a coroutine; an action is what it does between two awaits.   *)
(* The Jupyter server, its kernel and the network are the environment,      *)
(* known from the requests and messages the tool uses.  A notebook is its   *)
(* code cells, an output the cell whose execution printed it and its number *)
(* in that execution; an output that was in the file already is of cell 0.  *)
(* Finding the notebook by name, markdown and the layout of pages are left  *)
(* out.                                                                     *)
(***************************************************************************)
EXTENDS Integers, Sequences

CONSTANTS
    Cells,       \* code cells of the notebook
    MaxMessages, \* bound: messages a cell publishes while it runs
    MaxLate      \* bound: messages cells publish when they have ended

ASSUME NotebookRunAssumption == Cells \in Nat /\ MaxMessages \in Nat /\ MaxLate \in Nat

VARIABLES
    call,      \* run_notebook(): where it is, the current cell, nb, ok, had_error
    kernel,    \* its kernel on the server: state, the cell it runs, messages so far
    wire,      \* messages from the kernel to the call
    results,   \* what the call leaves: last_ok of the history, the copy, the panel
    published, \* history: cell -> what it has published since it last cleared
    ended,     \* history: cells whose execution has ended, and those that raised
    lost       \* history: whether the start or the deletion went unanswered

vars == <<call, kernel, wire, results, published, ended, lost>>

Numbers == 1..Cells
Old == [of |-> 0, n |-> 0]
NoOutputs == [i \in Numbers |-> <<>>]

\* The file may hold outputs of an earlier run.
Init ==
    /\ \E nb \in [Numbers -> {<<>>, <<Old>>}] :
          call = [at |-> "looking", cell |-> 0, nb |-> nb, ok |-> TRUE, failed |-> FALSE]
    /\ kernel = [at |-> "none", cell |-> 0, sent |-> 0, late |-> 0]
    /\ wire = <<>>
    /\ results = [recorded |-> "none", panel |-> FALSE, saved |-> FALSE, copy |-> NoOutputs]
    /\ published = NoOutputs
    /\ ended = [idle |-> {}, failed |-> {}]
    /\ lost = FALSE

At(place) == call.at = place
Connected == call.at \in {"running", "draining"}

-----------------------------------------------------------------------------
(* The kernel and its server.  What a kernel does when nobody is connected to *)
(* it is not seen by anybody.                                                 *)

ServerStarts ==
    /\ kernel.at = "asked"
    /\ kernel' = [kernel EXCEPT !.at = "alive"]
    /\ UNCHANGED <<call, wire, results, published, ended, lost>>

Message(i, kind) == [of |-> i, kind |-> kind, n |-> kernel.sent]

\* What a message makes of a cell's outputs; clear_output(wait=True) does nothing.
Effect(outputs, m) ==
    CASE m.kind \in {"output", "error"} -> Append(outputs, [of |-> m.of, n |-> m.n])
      [] m.kind = "clear" -> <<>>
      [] OTHER -> outputs

KernelRuns ==
    /\ Connected /\ kernel.at = "alive" /\ kernel.cell # 0
    /\ UNCHANGED <<call, results, lost>>

Publishes(kind) ==
    /\ wire' = Append(wire, Message(kernel.cell, kind))
    /\ published' = [published EXCEPT ![kernel.cell] = Effect(@, Message(kernel.cell, kind))]

\* A stream, a display or a result, or clear_output().
Publish(kind) ==
    /\ KernelRuns /\ kernel.sent < MaxMessages
    /\ Publishes(kind)
    /\ kernel' = [kernel EXCEPT !.sent = @ + 1]
    /\ UNCHANGED ended

\* The cell raises: an error, and nothing more before idle.
Raise ==
    /\ KernelRuns /\ kernel.cell \notin ended.failed
    /\ Publishes("error")
    /\ ended' = [ended EXCEPT !.failed = @ \cup {kernel.cell}]
    /\ kernel' = [kernel EXCEPT !.sent = MaxMessages]

\* Idle ends the execution on iopub; the reply, on shell, may come before it.
GoIdle ==
    /\ KernelRuns
    /\ LET idle == <<Message(kernel.cell, "idle")>>
       IN wire' \in {wire \o idle, wire \o <<Message(kernel.cell, "reply")>> \o idle}
    /\ ended' = [ended EXCEPT !.idle = @ \cup {kernel.cell}]
    /\ kernel' = [kernel EXCEPT !.cell = 0]
    /\ UNCHANGED published

\* A thread that a cell started prints when the cell has ended; the message still
\* names that cell's request.
PublishLate(i) ==
    /\ Connected /\ kernel.at = "alive" /\ kernel.late < MaxLate
    /\ i \in ended.idle
    /\ wire' = Append(wire, Message(i, "output"))
    /\ kernel' = [kernel EXCEPT !.late = @ + 1]
    /\ UNCHANGED <<call, results, published, ended, lost>>

-----------------------------------------------------------------------------
(* run_notebook(), up to the kernel *)

Environment == <<wire, published, ended>>

\* Not found, ambiguous or not confirmed yet: the call says so and is over.
Look ==
    /\ At("looking")
    /\ \E place \in {"loading", "over"} : call' = [call EXCEPT !.at = place]
    /\ UNCHANGED <<kernel, results, lost, Environment>>

\* The notebook is gone or cannot be read; or a kernel is asked for.
Load ==
    /\ At("loading")
    /\ \/ call' = [call EXCEPT !.at = "over"] /\ UNCHANGED kernel
       \/ call' = [call EXCEPT !.at = "starting"] /\ kernel' = [kernel EXCEPT !.at = "asked"]
    /\ UNCHANGED <<results, lost, Environment>>

-----------------------------------------------------------------------------
(* execute_notebook_remote() *)

Started ==
    /\ At("starting") /\ kernel.at = "alive"
    /\ call' = [call EXCEPT !.at = "connecting"]
    /\ UNCHANGED <<kernel, results, lost, Environment>>

\* Refused, or no answer in time, when the server may start the kernel all the same.
\* The call goes on to record_run() with no other await.
StartFails ==
    /\ At("starting")
    /\ call' = [call EXCEPT !.at = "saving", !.ok = FALSE]
    /\ results' = [results EXCEPT !.recorded = "failed"]
    /\ \/ lost' = TRUE /\ UNCHANGED kernel
       \/ kernel.at = "asked" /\ kernel' = [kernel EXCEPT !.at = "none"] /\ UNCHANGED lost
    /\ UNCHANGED Environment

Connect ==
    /\ At("connecting")
    /\ call' = [call EXCEPT !.at = "running"]
    /\ UNCHANGED <<kernel, results, lost, Environment>>

\* A plausible bug: connecting is outside the try that deletes the kernel.
OutsideTry == "saving"
InsideTry == "deleting"

\* The connection is refused, or lost with what is on its way.
LoseConnection ==
    /\ At("connecting") \/ Connected
    /\ call' = [call EXCEPT !.at = IF At("connecting") THEN InsideTry ELSE "deleting",
                            !.ok = FALSE]
    /\ wire' = <<>>
    /\ UNCHANGED <<kernel, results, published, ended, lost>>

\* A plausible bug: one cell too many.
OneCellMore == call.cell <= Cells
CellIsLeft == call.cell < Cells

\* _execute_one_cell(): the cell's outputs are emptied and its request is sent.
Send ==
    /\ At("running") /\ CellIsLeft
    /\ call' = [call EXCEPT !.at = "draining", !.cell = @ + 1, !.failed = FALSE,
                            !.nb[call.cell + 1] = <<>>]
    /\ kernel' = [kernel EXCEPT !.cell = call.cell + 1, !.sent = 0]
    /\ UNCHANGED <<results, lost, Environment>>

AllSent ==
    /\ At("running") /\ ~CellIsLeft
    /\ call' = [call EXCEPT !.at = "deleting"]
    /\ wire' = <<>>
    /\ UNCHANGED <<kernel, results, published, ended, lost>>

\* A plausible bug: messages are not asked which request they answer.
Anyones(m) == m.kind # "reply"
\* Only iopub, and only for the request that was sent.
Ours(m) == m.kind # "reply" /\ m.of = call.cell

\* A plausible bug: had_error is that of the last message.
LastFailed(m) == m.kind = "error"
HadError(m) == call.failed \/ m.kind = "error"

\* _drain()
Ignore ==
    /\ At("draining") /\ wire # <<>> /\ ~Ours(Head(wire))
    /\ wire' = Tail(wire)
    /\ UNCHANGED <<call, kernel, results, published, ended, lost>>

Receive ==
    /\ At("draining") /\ wire # <<>>
    /\ LET m == Head(wire)
       IN /\ Ours(m) /\ m.kind # "idle"
          /\ call' = [call EXCEPT !.nb[call.cell] = Effect(@, m), !.failed = HadError(m)]
    /\ wire' = Tail(wire)
    /\ UNCHANGED <<kernel, results, published, ended, lost>>

\* Idle ends the cell; an error in it ends the run.
CellEnds ==
    /\ At("draining") /\ wire # <<>>
    /\ LET m == Head(wire)
       IN /\ Ours(m) /\ m.kind = "idle"
          /\ call' = IF HadError(m) THEN [call EXCEPT !.at = "deleting", !.ok = FALSE]
                     ELSE [call EXCEPT !.at = "running"]
          /\ wire' = IF HadError(m) THEN <<>> ELSE Tail(wire)
    /\ UNCHANGED <<kernel, results, published, ended, lost>>

\* A plausible bug: only sending the request is timed.
OnlySending == FALSE
IsTimed == At("draining")

TimesOut ==
    /\ IsTimed
    /\ call' = [call EXCEPT !.at = "deleting", !.ok = FALSE]
    /\ wire' = <<>>
    /\ UNCHANGED <<kernel, results, published, ended, lost>>

\* delete_kernel(), whose failure nobody notices, and record_run().
Delete ==
    /\ At("deleting")
    /\ \/ kernel' = [kernel EXCEPT !.at = "deleted", !.cell = 0] /\ UNCHANGED lost
       \/ lost' = TRUE /\ UNCHANGED kernel
    /\ IF results.recorded = "cancelled"
       THEN call' = [call EXCEPT !.at = "over"] /\ UNCHANGED results
       ELSE /\ call' = [call EXCEPT !.at = "saving"]
            /\ results' = [results EXCEPT !.recorded = IF call.ok THEN "ok" ELSE "failed"]
    /\ UNCHANGED Environment

-----------------------------------------------------------------------------
(* The rest of run_notebook() *)

\* The copy, if it is wanted and can be saved, and the panel, which is always shown.
Save ==
    /\ At("saving")
    /\ call' = [call EXCEPT !.at = "over"]
    /\ \E saved \in BOOLEAN :
          results' = [results EXCEPT !.panel = TRUE, !.saved = saved,
                                     !.copy = IF saved THEN call.nb ELSE @]
    /\ UNCHANGED <<kernel, lost, Environment>>

\* Stop is pressed in the chat and the task is cancelled.  On the way out a kernel
\* that is known is deleted, unless the call was deleting it already.
Cancel ==
    /\ ~At("over")
    /\ results' = [results EXCEPT !.recorded = IF @ = "none" THEN "cancelled" ELSE @]
    /\ call' = [call EXCEPT !.at = IF At("connecting") THEN InsideTry
                                   ELSE IF Connected THEN "deleting" ELSE "over"]
    /\ lost' = (lost \/ call.at \in {"starting", "deleting"})
    /\ wire' = <<>>
    /\ UNCHANGED <<kernel, published, ended>>

Execution ==
    \/ ServerStarts \/ Raise \/ GoIdle
    \/ \E kind \in {"output", "clear", "clearLater"} : Publish(kind)
    \/ \E i \in Numbers : PublishLate(i)

Tool ==
    \/ Look \/ Load \/ Started \/ StartFails \/ Connect \/ Send \/ AllSent
    \/ Ignore \/ Receive \/ CellEnds \/ Delete \/ Save

Next == Execution \/ Tool \/ TimesOut \/ LoseConnection \/ Cancel

\* Requests are answered or time out, and so does a cell.  Nothing is assumed of
\* the kernel.
Spec == Init /\ [][Next]_vars /\ WF_vars(Tool) /\ WF_vars(TimesOut)

-----------------------------------------------------------------------------
(* Properties *)

Outputs == Seq([of : 0..Cells, n : 0..MaxMessages])

\* Types and places; each cell's outputs are its own or of an earlier run.
TypeOK ==
    /\ call.at \in {"looking", "loading", "starting", "connecting", "running", "draining",
                    "deleting", "saving", "over"}
    /\ call.cell \in 0..Cells /\ call.ok \in BOOLEAN /\ call.failed \in BOOLEAN
    /\ call.nb \in [Numbers -> Outputs] /\ results.copy \in [Numbers -> Outputs]
    /\ kernel.at \in {"none", "asked", "alive", "deleted"} /\ kernel.cell \in 0..Cells
    /\ kernel.sent \in 0..MaxMessages /\ kernel.late \in 0..MaxLate
    /\ results.recorded \in {"none", "ok", "failed", "cancelled"}
    /\ results.panel \in BOOLEAN /\ results.saved \in BOOLEAN
    /\ ended.idle \subseteq Numbers /\ ended.failed \subseteq Numbers

\* Whatever threads print and however replies and outputs mix, a cell that has been
\* passed has just what it published, the current one nothing of another's.
CellsShowTheirOutputs ==
    /\ \A i \in 1..call.cell - 1 : call.nb[i] = published[i]
    /\ \A i \in Numbers \cap {call.cell} :
          \A k \in DOMAIN call.nb[i] : call.nb[i][k].of = i
    /\ results.recorded = "ok" => call.nb = published

\* A run that is recorded as good ran every cell to its end, and none raised.
OkMeansAllRan ==
    results.recorded = "ok" => ended.idle = Numbers /\ ended.failed = {}

\* What a reader of the panel and of the history relies on, however outputs, replies
\* and late prints mix on the socket.
RunTellsTruly == TypeOK /\ CellsShowTheirOutputs /\ OkMeansAllRan

\* execute_notebook_remote(): it "always tears the kernel down afterward", whichever
\* way the call ends, when the server answered its start and its deletion.
KernelTornDown ==
    At("over") /\ kernel.at \in {"asked", "alive"} => lost

\* Every call ends, though the kernel may hang or say nothing.
CallsEnd == ~At("over") ~> At("over")
=============================================================================
