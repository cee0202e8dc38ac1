---------------------------- MODULE PromptSampling ----------------------------
(***************************************************************************)
(* sparkboard/app/proxy.py: which text of a request is shown to the         *)
(* classifier, and for which share of the requests.  A chat is a sequence   *)
(* of turns, each its role and the form of its content; an old-style        *)
(* request has only a prompt.  PromptFeed follows the call that comes next. *)
(***************************************************************************)
EXTENDS Integers, Sequences, FiniteSets, FiniteSetsExt

CONSTANTS
    Period,    \* the counter's: sampling is exact to one request in so many
    Rates,     \* sample_rate, in parts of Period
    ModelSet,  \* classify_model is set
    MaxTurns,  \* turns of a chat
    MaxPrompts \* bound: requests with a prompt

PromptSamplingAssumption ==
    /\ Period \in Nat \ {0} /\ Rates \subseteq 0..Period
    /\ ModelSet \in BOOLEAN /\ MaxTurns \in Nat /\ MaxPrompts \in Nat

VARIABLES
    rate,    \* sample_rate
    rr,      \* _rr
    sampled, \* history: how many requests had a prompt, how many of them were taken
    request, \* the last request, and which of its turns was shown; 0 when none was
    skipped  \* stats["classify_skipped"]

vars == <<rate, rr, sampled, request, skipped>>

\* A string or a list with texts, empty or of spaces, or a list of pictures only.
Forms == {"text", "empty", "spaces", "pictures"}
Turn == [role : {"user", "other"}, form : Forms]
Bodies ==
    [turns : UNION {[1..n -> Turn] : n \in 1..MaxTurns}, prompt : {"none"}, named : BOOLEAN]
    \cup [turns : {<<>>}, prompt : Forms \cup {"none"}, named : BOOLEAN]

Nothing == [turn |-> 0, form |-> "none"]

\* A plausible bug: the last turn, whoever's it is.
AnyTurn(turns) == {i \in DOMAIN turns : turns[i].form \in {"text", "empty", "spaces"}}
\* Turns of the user with text; a list of pictures lets the loop go on.
Asking(turns) ==
    {i \in DOMAIN turns : /\ turns[i].role = "user"
                          /\ turns[i].form \in {"text", "empty", "spaces"}}

\* _extract_prompt(); the prompt of an old-style request counts as turn 1.
ExtractPrompt(body) ==
    IF body.turns # <<>>
    THEN IF Asking(body.turns) = {} THEN Nothing
         ELSE LET i == Max(Asking(body.turns)) IN [turn |-> i, form |-> body.turns[i].form]
    ELSE IF body.prompt \in {"none", "pictures"} THEN Nothing ELSE [turn |-> 1, form |-> body.prompt]

Init ==
    /\ rate \in Rates /\ rr = 0 /\ sampled = [of |-> 0, taken |-> 0]
    /\ request = [body |-> [turns |-> <<>>, prompt |-> "none", named |-> FALSE], shown |-> 0]
    /\ skipped = 0

\* A plausible bug: one more than the rate.
OneTooMany(n) == n <= rate
InShare(n) == n < rate

\* _pick_model()
HasModel(body) == ModelSet \/ body.named

\* _maybe_classify() and the beginning of _classify(): no prompt, no task.
Ignored(body) ==
    /\ ExtractPrompt(body).form \in {"none", "empty"}
    /\ request' = [body |-> body, shown |-> 0]
    /\ UNCHANGED <<rate, rr, sampled, skipped>>

Counted(taken) ==
    /\ sampled.of < MaxPrompts
    /\ sampled' = [of |-> sampled.of + 1, taken |-> sampled.taken + taken]
    /\ rr' = IF rate < Period THEN (rr + 1) % Period ELSE rr
    /\ UNCHANGED rate

HasPrompt(body) == ExtractPrompt(body).form \notin {"none", "empty"}
Taken == rate = Period \/ InShare((rr + 1) % Period)

Skipped(body) ==
    /\ HasPrompt(body) /\ ~Taken
    /\ Counted(0)
    /\ request' = [body |-> body, shown |-> 0]
    /\ skipped' = skipped + 1

\* Without a model it is an error; spaces are found to be nothing only here, after the
\* share was taken.
Classified(body) ==
    /\ HasPrompt(body) /\ Taken
    /\ Counted(1)
    /\ request' = [body |-> body,
                   shown |-> IF HasModel(body) /\ ExtractPrompt(body).form # "spaces"
                             THEN ExtractPrompt(body).turn ELSE 0]
    /\ UNCHANGED skipped

Next == \E body \in Bodies : Ignored(body) \/ Skipped(body) \/ Classified(body)

-----------------------------------------------------------------------------
(* Properties *)

\* "not the system preamble or the assistant's prior replies": the classifier is shown a
\* turn of the user, and no later turn of theirs had text.
OnlyTheUserIsRead ==
    request.body.turns # <<>> /\ request.shown # 0 =>
        LET turns == request.body.turns
        IN /\ turns[request.shown].role = "user"
           /\ \A i \in request.shown + 1..Len(turns) :
                 turns[i].role = "user" => turns[i].form = "pictures"

\* "Fraction of requests to classify": after each round of the counter exactly that share
\* of the prompts was taken, and within a round never more than the share of a round.
ShareIsKept ==
    /\ sampled.of % Period = 0 => sampled.taken * Period = rate * sampled.of
    /\ sampled.taken <= rate * (sampled.of \div Period + 1)
    /\ skipped = sampled.of - sampled.taken
===============================================================================
