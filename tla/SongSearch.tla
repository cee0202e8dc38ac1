------------------------------- MODULE SongSearch -------------------------------
(***************************************************************************)
(* avatar/music/music.py: what searches choose.  A video is its length in   *)
(* minutes (0: unknown) and whether it is live or a short; a station is its *)
(* name and whether the page can play it; an episode is the number of words *)
(* its title shares with what was asked for.  Places in the hits stand for  *)
(* what was hit.                                                            *)
(***************************************************************************)
EXTENDS Integers, Sequences, FiniteSets, FiniteSetsExt, SequencesExt, Selection

CONSTANTS
    Videos, Stations, Episodes, \* what may be found
    Shortest, Longest,          \* SONG
    MixLength,                  \* MIX_LEN
    MaxStations, MaxEpisodes, MaxHits

SongSearchAssumption ==
    /\ Shortest \in Nat /\ Longest \in Nat /\ MixLength \in Nat
    /\ MaxStations \in Nat /\ MaxEpisodes \in Nat /\ MaxHits \in Nat /\ Episodes \subseteq Nat
    /\ \A v \in Videos : v.length \in Nat

VARIABLES search, answer \* what is asked and found; what is chosen of it
vars == <<search, answer>>

Upto(S) == UNION {[1..n -> S] : n \in 0..MaxHits}
NoAnswer == [kind |-> "none"]
Init ==
    /\ answer = NoAnswer
    /\ \/ search \in [kind : {"music"}, long : BOOLEAN, hits : Upto(Videos), more : Upto(Videos)]
       \/ search \in [kind : {"mix"}, mix : Upto(Videos), fallback : Upto(Videos)]
       \/ search \in [kind : {"radio"}, byName : Upto(Stations), byTag : Upto(Stations)]
       \/ search \in [kind : {"podcast"}, episodes : Upto(Episodes), asked : BOOLEAN]

IsSong(v) == Shortest <= v.length /\ v.length <= Longest
\* yt_list(): no live streams and no shorts.
Usable(hits) == Selected(hits, {v \in Videos : v.length > 0 /\ v.length < 180 /\ ~v.odd})
First(s, n) == SubSeq(s, 1, IF Len(s) < n THEN Len(s) ELSE n)

\* yt_search(): the place of the first in the hits it ends up with, and the places of
\* the songs that follow; if no hit is a song, a second search joins in behind the n
\* hits.  Of the shortest, those of the second search come before the hits.
Earlier(i, j, n) ==
    \/ i > n /\ j <= n
    \/ (i > n <=> j > n) /\ i <= j
ShortestOf(all, places, n) ==
    IF places = {} THEN {}
    ELSE {CHOOSE i \in places : \A j \in places :
              all[i].length < all[j].length \/ (all[i].length = all[j].length /\ Earlier(i, j, n))}
\* A plausible bug: the top hit is first whatever its length.
TopHit(hits, all) == IF all = <<>> THEN {} ELSE {1}
FirstSong(hits, all) ==
    LET songs == {i \in DOMAIN all : IsSong(all[i])}
        brief == {i \in DOMAIN all : all[i].length <= 20}
    IN IF songs # {} THEN {Min(songs)}
       ELSE IF brief # {} THEN ShortestOf(all, brief, Len(hits))
       ELSE IF all = <<>> THEN {} ELSE {1}

Music ==
    LET hits == Usable(search.hits)
        all == IF \E i \in DOMAIN hits : IsSong(hits[i]) THEN hits ELSE hits \o Usable(search.more)
        first == FirstSong(hits, all)
    IN IF search.long
       THEN [kind |-> "music", all |-> hits, first |-> DOMAIN hits \cap {1}, rest |-> DOMAIN hits \ {1}]
       ELSE [kind |-> "music", all |-> all, first |-> first,
             rest |-> {i \in DOMAIN all \ first : IsSong(all[i])}]

\* yt_mix(): related songs, or the other hits when there are fewer than three.
Mix ==
    LET songs == Selected(search.mix, {v \in Videos : ~v.odd /\ IsSong(v)})
    IN [kind |-> "mix", items |-> First(IF Len(songs) < 3 THEN search.fallback ELSE songs, MixLength)]

\* radio_search(): by name, by tag if that finds none; each name once, where it is first.
Once(found) ==
    LET first == {i \in DOMAIN found : \A j \in 1..i - 1 : found[j].name # found[i].name}
        places == Selected([i \in DOMAIN found |-> i], first)
    IN [k \in DOMAIN places |-> found[places[k]]]
Radio ==
    LET playable(s) == Selected(s, {r \in Stations : r.playable})
        named == playable(search.byName)
        found == IF named # <<>> THEN named ELSE playable(search.byTag)
    IN [kind |-> "radio", items |-> First(Once(found), MaxStations)]

\* podcast_search(): from the episode whose title shares most words, the newest of equals.
Podcast ==
    LET eps == search.episodes
        best == {i \in DOMAIN eps : \A j \in DOMAIN eps : eps[i] >= eps[j]}
        from == IF search.asked /\ best # {} /\ eps[Min(best)] > 0 THEN Min(best) ELSE 1
    IN [kind |-> "podcast", from |-> from, items |-> First(SubSeq(eps, from, Len(eps)), MaxEpisodes)]

Answer ==
    /\ answer = NoAnswer /\ search.kind # "mix"
    /\ answer' = CASE search.kind = "music" -> Music [] search.kind = "radio" -> Radio
                   [] OTHER -> Podcast
    /\ UNCHANGED search
\* /more: the songs to follow one; none if the mix cannot be had.
More ==
    /\ answer = NoAnswer /\ search.kind = "mix"
    /\ answer' \in {Mix, [kind |-> "mix", items |-> <<>>]}
    /\ UNCHANGED search
Next == Answer \/ More

-----------------------------------------------------------------------------
(* Properties *)

\* music.py:19: "Song-length hits win over hour-long mixes unless that's what was asked
\* for": the first is a song if either search found one, nothing follows it that is no
\* song, and it does not follow itself; no station is listed twice; an episode that was
\* asked for is the first and the ones after it are older.
SearchKeepsItsWord ==
    /\ answer.kind = "music" /\ ~search.long =>
          /\ (\E v \in Range(Usable(search.hits)) \cup Range(Usable(search.more)) : IsSong(v)) =>
                \E i \in answer.first : IsSong(answer.all[i])
          /\ \A i \in answer.rest : IsSong(answer.all[i]) /\ i \notin answer.first
          /\ answer.all # <<>> => Cardinality(answer.first) = 1
    /\ answer.kind = "radio" => \A i, j \in DOMAIN answer.items :
          i # j => answer.items[i].name # answer.items[j].name
    /\ answer.kind = "podcast" /\ search.asked /\ answer.items # <<>> =>
          \A j \in DOMAIN search.episodes : search.episodes[j] <= Head(answer.items)
                                            \/ search.episodes[j] = 0
=================================================================================
