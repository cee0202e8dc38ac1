------------------------------ MODULE MusicTokens ------------------------------
(***************************************************************************)
(* avatar/music/music.py: the short tokens that searches hand out and that  *)
(* /more, /stream, /prefetch and /levels take.  remember() runs on the      *)
(* event loop and, for the songs that follow, in a thread of the pool; each *)
(* forgets expired tokens first, one by one.  Songs and podcasts have       *)
(* levels, which a task works out once a song is in the cache (SongCache).  *)
(***************************************************************************)
EXTENDS Integers, FiniteSets

CONSTANTS
    Sources,   \* what can be played, with its kind: "music", "radio" or "podcast"
    Kind,
    Lifetime,  \* TOKEN_TTL
    Threads,   \* "loop" and those of the pool
    MaxTokens, MaxNow \* bounds: tokens ever made, the clock

MusicTokensAssumption ==
    Lifetime \in Nat \ {0} /\ MaxTokens \in Nat /\ MaxNow \in Nat /\ "loop" \in Threads

VARIABLES
    now,
    tokens,   \* TOKENS: token -> its source and when it expires
    writers,  \* remember(): where each thread is and what it has yet to forget
    answers,  \* history: tokens that a page got, and until when they hold
    info,     \* INFO and WARMING: songs that are looked up, or being looked up
    cached,   \* songs in the cache
    levels,   \* levels that are ready
    tasks     \* LEVEL_TASKS

vars == <<now, tokens, writers, answers, info, cached, levels, tasks>>
Waiting == [at |-> "idle"]
Made == DOMAIN answers

Init ==
    /\ now = 0 /\ tokens = <<>> /\ answers = <<>>
    /\ writers = [t \in Threads |-> Waiting]
    /\ info = [s \in Sources |-> "none"] /\ cached = {} /\ levels = {} /\ tasks = {}

Music == <<info, cached, levels, tasks>>

-----------------------------------------------------------------------------
(* remember() *)

\* A plausible bug: those that have not expired are forgotten.
NotExpired(t) == tokens[t].expires >= now
Expired(t) == tokens[t].expires < now

\* A search ends, on the loop, or the mix of /more goes on in a thread: the expired
\* tokens are listed.
List(w, s) ==
    /\ writers[w] = Waiting /\ Cardinality(Made) < MaxTokens
    /\ w = "loop" \/ Kind[s] = "music"
    /\ writers' = [writers EXCEPT ![w] =
           [at |-> "forgetting", source |-> s, since |-> now,
            dead |-> {t \in DOMAIN tokens : Expired(t)}]]
    /\ UNCHANGED <<now, tokens, answers, Music>>

\* del raises when another thread has deleted it: the search fails, /more answers less.
Forget(w) ==
    /\ writers[w].at = "forgetting"
    /\ \E t \in writers[w].dead :
          IF t \in DOMAIN tokens
          THEN /\ tokens' = [u \in DOMAIN tokens \ {t} |-> tokens[u]]
               /\ writers' = [writers EXCEPT ![w].dead = @ \ {t}]
          ELSE writers' = [writers EXCEPT ![w] = Waiting] /\ UNCHANGED tokens
    /\ UNCHANGED <<now, answers, Music>>

With(f, t, x) == [u \in DOMAIN f \cup {t} |-> IF u = t THEN x ELSE f[u]]

\* The new token, with the time of the listing, and the item that names it.
Add(w) ==
    /\ writers[w].at = "forgetting" /\ writers[w].dead = {}
    /\ Cardinality(Made) < MaxTokens
    /\ LET t == Cardinality(Made) + 1
           entry == [source |-> writers[w].source, expires |-> writers[w].since + Lifetime]
       IN tokens' = With(tokens, t, entry) /\ answers' = With(answers, t, entry)
    /\ writers' = [writers EXCEPT ![w] = Waiting]
    /\ UNCHANGED <<now, Music>>

\* Another thread adds or forgets one while this one lists: the loop over the
\* dictionary raises.
ListFails(w) ==
    /\ writers[w].at = "forgetting" /\ \E o \in Threads \ {w} : writers[o].at = "forgetting"
    /\ writers' = [writers EXCEPT ![w] = Waiting]
    /\ UNCHANGED <<now, tokens, answers, Music>>

-----------------------------------------------------------------------------
(* What the page does with a token *)

Known(t, kinds) == t \in DOMAIN tokens /\ Kind[tokens[t].source] \in kinds
Writing == <<now, tokens, writers, answers>>

\* /prefetch?warm=1: a lookup in the pool, one per song; it may fail.
Warm(t) ==
    /\ Known(t, {"music"})
    /\ LET s == tokens[t].source
       IN s \notin cached /\ info[s] = "none" /\ info' = [info EXCEPT ![s] = "asked"]
    /\ UNCHANGED <<Writing, cached, levels, tasks>>
LookedUp(s) ==
    /\ info[s] = "asked"
    /\ \E end \in {"known", "none"} : info' = [info EXCEPT ![s] = end]
    /\ UNCHANGED <<Writing, cached, levels, tasks>>

\* yt_file(): the song is in the cache, and what was looked up is not needed any more
\* (INFO's own lifetime is left out).
Fetched(s) ==
    /\ cached' = cached \cup {s}
    /\ info' = [info EXCEPT ![s] = IF @ = "known" /\ s \notin cached THEN "none" ELSE @]
    /\ UNCHANGED <<Writing, levels, tasks>>

\* /stream: a token that has expired is refused, though it is still there.
Playable(t) == t \in DOMAIN tokens /\ ~Expired(t)
Stream(t) == Playable(t) /\ Known(t, {"music"}) /\ Fetched(tokens[t].source)

\* /prefetch, and the song that /search fetches while the avatar answers.
Prefetch(t) ==
    /\ Known(t, {"music"}) /\ tokens[t].source \notin cached
    /\ Fetched(tokens[t].source)

\* prune() drops the song with its levels.
Prune(s) ==
    /\ s \in cached
    /\ cached' = cached \ {s} /\ levels' = levels \ {s}
    /\ UNCHANGED <<Writing, info, tasks>>

\* /levels: the frames, or 202 while a task works them out.
Levels(t) ==
    /\ Known(t, {"music", "podcast"})
    /\ LET s == tokens[t].source
       IN /\ s \notin levels /\ (Kind[s] = "music" => s \in cached)
          /\ s \notin tasks
          /\ tasks' = tasks \cup {s}
    /\ UNCHANGED <<Writing, info, cached, levels>>
Computed(s) ==
    /\ s \in tasks /\ tasks' = tasks \ {s}
    /\ levels' \in {levels, levels \cup {s}}
    /\ UNCHANGED <<Writing, info, cached>>

Tick == now < MaxNow /\ now' = now + 1 /\ UNCHANGED <<tokens, writers, answers, Music>>

Next ==
    \/ Tick
    \/ \E w \in Threads : Forget(w) \/ Add(w) \/ ListFails(w) \/ \E s \in Sources : List(w, s)
    \/ \E t \in DOMAIN tokens : Warm(t) \/ Stream(t) \/ Prefetch(t) \/ Levels(t)
    \/ \E s \in Sources : LookedUp(s) \/ Prune(s) \/ Computed(s)

Spec == Init /\ [][Next]_vars

-----------------------------------------------------------------------------
(* Properties *)

TypeOK ==
    /\ now \in 0..MaxNow /\ DOMAIN tokens \subseteq Made /\ Made \subseteq 1..MaxTokens
    /\ cached \cup levels \cup tasks \subseteq Sources

\* remember(): "how long a search result stays playable": an item that a page has stays
\* playable for its whole time, whoever forgets tokens meanwhile and in which order, and
\* no longer.
ItemsPlayTheirTime ==
    \A t \in Made :
        /\ Playable(t) <=> now <= answers[t].expires
        /\ Playable(t) => tokens[t].source = answers[t].source
=================================================================================
