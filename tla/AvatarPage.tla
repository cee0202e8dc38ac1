------------------------------- MODULE AvatarPage -------------------------------
(***************************************************************************)
(* The page's chats and what the music service does beside downloading: a   *)
(* behaviour uses one part, the variables of the others stay as they are.   *)
(* The chats (ChatPage) are extended, the rest are instances.               *)
(***************************************************************************)
EXTENDS ChatPage

CONSTANTS
    Parts, \* the parts that are looked at
    Songs, Pieces, Tails, MaxFinds, MaxVersion,                \* Lyrics
    Times, Spots, Jitter, SlipCost, Small, Enough, Reach,      \* MatchLines
    Videos, Stations, Episodes, Shortest, Longest, MixLength,
    MaxStations, MaxEpisodes, MaxHits,                         \* SongSearch
    Sources, Kind, Lifetime, Threads, MaxTokens, MaxNow        \* MusicTokens

VARIABLES
    part,
    file, finding, listens, ears, deaf, wholes,         \* Lyrics
    cands, slips,                                       \* MatchLines
    search, answer,                                     \* SongSearch
    now, tokens, writers, answers, info, cached, levels, tasks \* MusicTokens

Listen == INSTANCE Lyrics
Match == INSTANCE MatchLines
Search == INSTANCE SongSearch
Token == INSTANCE MusicTokens

\* Instances get the assumptions of their modules here.
ASSUME PartsAssumption ==
    /\ Listen!LyricsAssumption
    /\ Match!MatchLinesAssumption
    /\ Search!SongSearchAssumption
    /\ Token!MusicTokensAssumption

-----------------------------------------------------------------------------
ListenVars == <<file, finding, listens, ears, deaf, wholes>>
TokenVars == <<now, tokens, writers, answers, info, cached, levels, tasks>>
MusicVars == <<ListenVars, cands, slips, search, answer, TokenVars>>
AllVars == <<part, vars, MusicVars>>

Off == 0
AllInit ==
    /\ part \in Parts
    /\ Init
    /\ IF part = "listen" THEN Listen!Init
       ELSE file = Off /\ finding = Off /\ listens = Off /\ ears = Off /\ deaf = Off /\ wholes = Off
    /\ IF part = "match" THEN Match!Init ELSE cands = Off /\ slips = Off
    /\ IF part = "search" THEN Search!Init ELSE search = Off /\ answer = Off
    /\ IF part = "token" THEN Token!Init
       ELSE now = Off /\ tokens = Off /\ writers = Off /\ answers = Off /\ info = Off /\ cached = Off
            /\ levels = Off /\ tasks = Off

AllNext ==
    /\ UNCHANGED part
    /\ \/ part = "chats" /\ Next /\ UNCHANGED MusicVars
       \/ part = "listen" /\ Listen!Next /\ UNCHANGED <<vars, cands, slips, search, answer, TokenVars>>
       \/ part = "match" /\ Match!Next /\ UNCHANGED <<vars, ListenVars, search, answer, TokenVars>>
       \/ part = "search" /\ Search!Next /\ UNCHANGED <<vars, ListenVars, cands, slips, TokenVars>>
       \/ part = "token" /\ Token!Next /\ UNCHANGED <<vars, ListenVars, cands, slips, search, answer>>

AllSpec == AllInit /\ [][AllNext]_AllVars

-----------------------------------------------------------------------------
(* Properties *)

\* Lyrics: slips stand beside their own lines.
SlipsTellTruly == part = "listen" => Listen!TypeOK /\ Listen!SlipsAreOfTheirLines
\* Lyrics: a song is only heard once.
HeardOnce == part = "listen" => Listen!HeardOnce
\* MusicTokens: what was found plays its time.
ItemsPlayTheirTime == part = "token" => Token!TypeOK /\ Token!ItemsPlayTheirTime
\* SongSearch: what is found is what was asked for.
SearchKeepsItsWord == part = "search" => Search!SearchKeepsItsWord
\* All three: what the music service hears and finds belongs to what it was asked about.
MusicKeepsItsWord == SlipsTellTruly /\ ItemsPlayTheirTime /\ SearchKeepsItsWord
\* MatchLines: the slips are the best there are.
MatchIsBest == part = "match" => Match!MatchIsBest
==================================================================================
