-------------------------------- MODULE MC_Avatar --------------------------------
(* TLC instance of the page's chats and of the music service beside downloading: a *)
(* song with a tail and one without; four lines; a song and a show.                *)
EXTENDS AvatarPage, TLC

CONSTANTS a, b

MCChatIds == {a, b}

\* newId() is random: which chat has which name changes nothing.
AnyNames == Permutations(MCChatIds)

\* Only the first turn goes on to a second round.
OneLongTurn == \A t \in Turns \ {1} : turns[t].at # "over" => turns[t].round = 1

-----------------------------------------------------------------------------
MCPieces == [s \in {"tailed", "even"} |-> 1]

Cand(at, score) == [at |-> at, score |-> score]
MCTimes == <<2, 4, 6, 8>>
MCSpots == {{}, {Cand(2, 2)}, {Cand(4, 2)}, {Cand(7, 3)}, {Cand(5, 2), Cand(9, 3)}, {Cand(12, 2)}}

Video(length, odd) == [length |-> length, odd |-> odd]
MCVideos == {Video(0, FALSE), Video(4, TRUE), Video(4, FALSE), Video(12, FALSE), Video(60, FALSE), Video(200, FALSE)}
MCStations == [name : {"jazz", "news"}, playable : BOOLEAN]

MCKind == [song |-> "music", show |-> "podcast"]
==================================================================================
