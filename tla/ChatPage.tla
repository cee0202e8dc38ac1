------------------------------- MODULE ChatPage -------------------------------
(***************************************************************************)
(* avatar/html/avatar.html: a conversation with the model, ask() and its   *)
(* tool calls, and the panel that saves, opens, clears and deletes chats,  *)
(* composed with the service in Chats.                                     *)
(*                                                                         *)
(* A message is its turn and its role.  Turns run on while the panel is    *)
(* used: every await is a point where anything else may happen.  "Save my  *)
(* chats" is ticked, and the turns are typed.                              *)
(***************************************************************************)
EXTENDS Chats

CONSTANTS
    MaxRounds,  \* the rounds of a turn (5)
    MaxTurns    \* bound: turns

ASSUME ChatPageAssumption == MaxRounds \in Nat \ {0} /\ MaxTurns \in Nat

VARIABLES
    history,    \* history: what the model remembers
    id,         \* the chat the page shows
    made,       \* the ids newId() has given
    saveT,      \* "never" set, "armed", or "off"
    generation, \* generation
    turns       \* the calls of ask(): their chat, generation, round and place

pageVars == <<history, id, made, saveT, generation, turns>>
vars == <<serviceVars, pageVars>>

Turns == 1..Len(turns)
Message(t, role) == [turn |-> t, role |-> role]

Init ==
    /\ ServiceInit
    /\ history = <<>>
    /\ id \in ChatIds /\ made = {id}
    /\ saveT = "never"
    /\ generation = 0
    /\ turns = <<>>

-----------------------------------------------------------------------------
(* ask(): the model's rounds *)

\* Typed: stopSpeaking(), then the question is in the history.
Ask ==
    /\ Len(turns) < MaxTurns
    /\ generation' = generation + 1
    /\ turns' = Append(turns, [chat |-> id, gen |-> generation', round |-> 1, at |-> "model"])
    /\ history' = Append(history, Message(Len(turns) + 1, "user"))
    /\ UNCHANGED <<serviceVars, id, made, saveT>>

\* finally: chats.saveSoon()
Finish(t) ==
    /\ turns' = [turns EXCEPT ![t] = [chat |-> @.chat, at |-> "over"]]
    /\ saveT' = "armed"

\* A plausible bug: an interrupted turn goes on.
NeverInterrupted(t) == FALSE
Interrupted(t) == turns[t].gen # generation

StreamBreaks(t) ==
    /\ t \in Turns /\ turns[t].at = "model"
    /\ Interrupted(t)
    /\ Finish(t)
    /\ UNCHANGED <<serviceVars, history, id, made, generation>>

RequestFails(t) ==
    /\ t \in Turns /\ turns[t].at = "model"
    /\ Finish(t)
    /\ UNCHANGED <<serviceVars, history, id, made, generation>>

Reply(t) ==
    /\ t \in Turns /\ turns[t].at = "model"
    /\ ~Interrupted(t)
    /\ history' = Append(history, Message(t, "assistant"))
    /\ Finish(t)
    /\ UNCHANGED <<serviceVars, id, made, generation>>

ToolCall(t) ==
    /\ t \in Turns /\ turns[t].at = "model"
    /\ ~Interrupted(t)
    /\ history' = Append(history, Message(t, "call"))
    /\ turns' = [turns EXCEPT ![t].at = "tool"]
    /\ UNCHANGED <<serviceVars, id, made, saveT, generation>>

\* await tools.run(): its result is kept whoever has interrupted meanwhile.
\* After it: another call of this round, the next round, or the last is over.
ToolDone(t) ==
    /\ t \in Turns /\ turns[t].at = "tool"
    /\ history' = Append(history, Message(t, "tool"))
    /\ IF turns[t].round = MaxRounds
       THEN Finish(t)
       ELSE /\ turns' = [turns EXCEPT ![t].at = "model", ![t].round = @ + 1]
            /\ UNCHANGED saveT
    /\ UNCHANGED <<serviceVars, id, made, generation>>

-----------------------------------------------------------------------------
(* The chats panel *)

\* A call() with what its caller does next; the ids and messages are those of
\* the moment it is made.
Call(method, chat, for, shown, next) ==
    /\ Len(ops) < MaxOps
    /\ ops' = Append(ops,
          [method |-> method, chat |-> chat, messages |-> history, at |-> "asked",
           old |-> None, names |-> {}, for |-> for, shown |-> shown, next |-> next])
    /\ UNCHANGED <<files, lock, crashes, kept>>

HasQuestion == \E i \in 1..Len(history) : history[i].role = "user"
Done(n) == n \in Ops /\ ops[n].at \in {"answered", "failed"}
Settled(n) ==
    /\ ops' = [ops EXCEPT ![n] = [at |-> "settled"]]
    /\ UNCHANGED <<files, lock, crashes, kept>>

\* clear() and a new chat, or one that was opened.
NewChat ==
    /\ generation' = generation + 1
    /\ history' = <<>>
    /\ \E c \in ChatIds \ made : id' = c /\ made' = made \cup {c}

ShowChat(chat, messages) ==
    /\ generation' = generation + 1
    /\ history' = messages
    /\ id' = chat
    /\ UNCHANGED made

Save ==
    /\ saveT' = "off"
    /\ IF HasQuestion THEN Call("PUT", id, None, <<>>, "nothing") ELSE UNCHANGED serviceVars
    /\ UNCHANGED <<history, id, made, generation, turns>>

\* saveSoon's timer, and pagehide once the timer has ever been set.
SaveTimer == saveT = "armed" /\ Save
PageHide == saveT # "never" /\ Save

\* fresh(): awaits save(), then clears whatever is there by then.
Fresh ==
    /\ saveT' = IF saveT = "armed" THEN "off" ELSE saveT
    /\ IF HasQuestion
       THEN /\ Call("PUT", id, None, <<>>, "fresh")
            /\ UNCHANGED <<history, id, made, generation>>
       ELSE NewChat /\ UNCHANGED serviceVars
    /\ UNCHANGED turns

FreshEnds(n) ==
    /\ Done(n) /\ ops[n].next = "fresh"
    /\ Settled(n)
    /\ NewChat
    /\ UNCHANGED <<saveT, turns>>

\* open(): the chat is fetched, the one on screen saved, then shown.
Open(c) ==
    /\ Call("GET", c, None, <<>>, "open")
    /\ UNCHANGED pageVars

Fetched(n) ==
    /\ At(n, "answered") /\ ops[n].next = "open"
    /\ IF id # ops[n].chat /\ HasQuestion
       THEN /\ saveT' = "off"
            /\ ops' = [ops EXCEPT ![n] =
                  [ops[n] EXCEPT !.method = "PUT", !.chat = id, !.messages = history, !.at = "asked",
                                 !.for = ops[n].chat, !.shown = ops[n].old.messages,
                                 !.old = None, !.next = "show"]]
            /\ UNCHANGED <<files, lock, crashes, kept, history, id, made, generation>>
       ELSE /\ ShowChat(ops[n].chat, ops[n].old.messages)
            /\ saveT' = IF id # ops[n].chat /\ saveT = "armed" THEN "off" ELSE saveT
            /\ Settled(n)
    /\ UNCHANGED turns

OpenEnds(n) ==
    /\ Done(n) /\ ops[n].next = "show"
    /\ Settled(n)
    /\ ShowChat(ops[n].for, ops[n].shown)
    /\ UNCHANGED <<saveT, turns>>

\* remove() and removeAll(); None for all.
Remove(c) ==
    /\ Call("DELETE", c, None, <<>>, "remove")
    /\ UNCHANGED pageVars

Removed(n) ==
    /\ At(n, "answered") /\ ops[n].next = "remove"
    /\ Settled(n)
    /\ IF ops[n].chat \in {id, None} THEN NewChat ELSE UNCHANGED <<history, id, made, generation>>
    /\ saveT' = IF ops[n].chat = None /\ saveT = "armed" THEN "off" ELSE saveT
    /\ UNCHANGED turns

\* An answer nobody does anything with.
Ignored(n) ==
    /\ Done(n)
    /\ \/ ops[n].next = "nothing"
       \/ ops[n].next \in {"open", "remove"} /\ ops[n].at = "failed"
    /\ Settled(n)
    /\ UNCHANGED pageVars

Panel ==
    \/ SaveTimer \/ PageHide \/ Fresh
    \/ \E c \in made : Open(c)
    \/ \E c \in made \cup {None} : Remove(c)
    \/ \E n \in Ops : FreshEnds(n) \/ Fetched(n) \/ OpenEnds(n) \/ Removed(n) \/ Ignored(n)

Model ==
    \/ Ask
    \/ \E t \in Turns : StreamBreaks(t) \/ RequestFails(t) \/ Reply(t) \/ ToolCall(t) \/ ToolDone(t)

Next == Model \/ Panel \/ (Service /\ UNCHANGED pageVars)

Spec == Init /\ [][Next]_vars

-----------------------------------------------------------------------------
(* Properties *)

TypeOK ==
    /\ lock \in 0..Len(ops) /\ crashes \in 0..MaxCrashes
    /\ kept \subseteq ChatIds /\ made \subseteq ChatIds /\ id \in made
    /\ saveT \in {"never", "armed", "off"}
    /\ \A i \in 1..Len(history) : history[i].turn \in Turns
    /\ \A t \in Turns : turns[t].at # "over" =>
          turns[t].gen <= generation /\ turns[t].round \in 1..MaxRounds
    /\ lock # 0 <=> \E n \in Ops : ops[n].at \in {"writing", "removing"}
    /\ lock # 0 => ops[lock].at \in {"writing", "removing"}

\* Whatever is cleared, opened or deleted while a turn runs: the questions and
\* answers the model remembers, and those on disk, were said in that chat.
SaidIn(messages, chat) ==
    \A i \in 1..Len(messages) :
        messages[i].role # "tool" => turns[messages[i].turn].chat = chat
AnswersStayInTheirChat ==
    /\ SaidIn(history, id)
    /\ \A c \in ChatIds : files[c] # None => SaidIn(files[c].messages, c)

\* avatar.html:3129: "Clears the conversation: the screen, and what the model
\* remembers."  Nothing of a turn of another chat is remembered.
ClearForgets == \A i \in 1..Len(history) : turns[history[i].turn].chat = id
=============================================================================
