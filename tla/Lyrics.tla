--------------------------------- MODULE Lyrics ---------------------------------
(***************************************************************************)
(* avatar/music/music.py: lyrics() and listen(), which both write a song's  *)
(* lyrics file.  Requests find the lyrics on LRCLIB; a task per song hears  *)
(* it piece by piece with the speech service, which one task may use at a   *)
(* time, and saves how far each line slips.  An action is what runs between *)
(* two awaits.  Lines are the number of the answer they came from: LRCLIB   *)
(* may answer differently the next time.                                    *)
(***************************************************************************)
EXTENDS Integers, FiniteSets

CONSTANTS
    Songs,
    Pieces,   \* song -> how many pieces it is heard in
    Tails,     \* songs with less than half a second more than that
    MaxFinds, \* bound: requests that look for the lyrics of a song at a time
    MaxVersion \* bound: different answers of LRCLIB

LyricsAssumption ==
    "nobody" \notin Songs /\ Pieces \in [Songs -> Nat \ {0}] /\ Tails \subseteq Songs /\ MaxFinds \in Nat /\ MaxVersion \in Nat

VARIABLES
    file,     \* song -> its lyrics file
    finding,  \* song -> requests that look for its lyrics
    listens,  \* HEARING: song -> the task's place, its lines and the pieces heard
    ears,     \* EARS: the song that is being heard
    deaf,     \* DEAF: songs whose listen failed in the last ten minutes
    wholes    \* history: songs that have been heard to the end

vars == <<file, finding, listens, ears, deaf, wholes>>

Nobody == "nobody"
NoFile == [kind |-> "none", lines |-> 0, slips |-> 0, done |-> FALSE]
Found(version) == [kind |-> "lines", lines |-> version, slips |-> 0, done |-> FALSE]
Quiet == [at |-> "none", lines |-> 0, upto |-> 0]

Init ==
    /\ file = [s \in Songs |-> NoFile]
    /\ finding = [s \in Songs |-> 0]
    /\ listens = [s \in Songs |-> Quiet]
    /\ ears = Nobody /\ deaf = {} /\ wholes = {}

At(s, place) == listens[s].at = place

-----------------------------------------------------------------------------
(* lyrics() *)

\* start_listening(), with the file as it is now
Starts(s, now) ==
    /\ now.kind = "lines" /\ ~now.done
    /\ At(s, "none") /\ s \notin deaf
StartListening(s, now) ==
    listens' = IF Starts(s, now) THEN [listens EXCEPT ![s].at = "started"] ELSE listens

\* Lyrics that are kept are answered at once, a miss for a week; a file that was left
\* half written cannot be read.
Ask(s) ==
    /\ IF file[s].kind \in {"none", "old"}
       THEN finding[s] < MaxFinds /\ finding' = [finding EXCEPT ![s] = @ + 1] /\ UNCHANGED listens
       ELSE StartListening(s, file[s]) /\ UNCHANGED finding
    /\ UNCHANGED <<file, ears, deaf, wholes>>

\* Timed lines, words without times, or neither.
Answers == {[NoFile EXCEPT !.kind = "miss"], [NoFile EXCEPT !.kind = "plain"]}
           \cup {Found(n) : n \in 1..MaxVersion}

\* The answer is written over what the file has by now.
Find(s) ==
    /\ finding[s] > 0 /\ finding' = [finding EXCEPT ![s] = @ - 1]
    /\ \E answer \in Answers : file' = [file EXCEPT ![s] = answer] /\ StartListening(s, answer)
    /\ UNCHANGED <<ears, deaf, wholes>>

FindFails(s) ==
    /\ finding[s] > 0 /\ finding' = [finding EXCEPT ![s] = @ - 1]
    /\ UNCHANGED <<file, listens, ears, deaf, wholes>>

\* as_heard(): the lines a page gets, with the slips they are moved by.
AsHeard(s) ==
    [lines |-> file[s].lines, slips |-> file[s].slips,
     matched |-> IF ~At(s, "none") THEN "listening"
                 ELSE IF file[s].done /\ file[s].slips # 0 THEN "heard" ELSE "no"]

-----------------------------------------------------------------------------
(* listen() *)

Over(s) == listens' = [listens EXCEPT ![s] = Quiet]

\* It reads the file; of one that has no lines any more it makes an error later.
Begin(s) ==
    /\ At(s, "started")
    /\ listens' = [listens EXCEPT ![s] = [at |-> "cutting", lines |-> file[s].lines, upto |-> 0]]
    /\ UNCHANGED <<file, finding, ears, deaf, wholes>>

\* The song is fetched and its next piece cut out; a tail ends the loop.
Cut(s) ==
    /\ At(s, "cutting")
    /\ IF listens[s].upto = Pieces[s]
       THEN Over(s) /\ wholes' = wholes \cup {s}
       ELSE listens' = [listens EXCEPT ![s].at = "waiting"] /\ UNCHANGED wholes
    /\ UNCHANGED <<file, finding, ears, deaf>>

Hear(s) ==
    /\ At(s, "waiting") /\ ears = Nobody
    /\ ears' = s
    /\ listens' = [listens EXCEPT ![s].at = "hearing"]
    /\ UNCHANGED <<file, finding, deaf, wholes>>

\* A plausible bug: the slips are put into the file as it is now.
IntoTheFile(s, heard) == [heard EXCEPT !.kind = file[s].kind, !.lines = file[s].lines]
\* The whole file, with the lines that were read when the listening began.
Saved(s, heard) == heard

IsLast(s, upto) == upto >= Pieces[s] /\ s \notin Tails

\* match_lines() may find no slips; a song that is on time is not heard further.
Heard(s) ==
    /\ At(s, "hearing")
    /\ listens[s].lines # 0
    /\ ears' = Nobody
    /\ \E matched \in BOOLEAN, onTime \in BOOLEAN :
          LET upto == listens[s].upto + 1
              done == IsLast(s, upto) \/ (matched /\ onTime)
          IN /\ file' = [file EXCEPT ![s] = Saved(s,
                   [kind |-> "lines", lines |-> listens[s].lines,
                    slips |-> IF matched THEN listens[s].lines ELSE 0,
                    done |-> done])]
             /\ listens' = [listens EXCEPT ![s] =
                   IF done THEN Quiet ELSE [at |-> "cutting", lines |-> @.lines, upto |-> upto]]
             /\ wholes' = IF done THEN wholes \cup {s} ELSE wholes
    /\ UNCHANGED <<finding, deaf>>

\* The song or the speech service fails, or the file was no lyrics: not again for ten
\* minutes.
ListenFails(s) ==
    /\ listens[s].at \notin {"none", "started"}
    /\ Over(s)
    /\ deaf' = deaf \cup {s}
    /\ ears' = IF ears = s THEN Nobody ELSE ears
    /\ UNCHANGED <<file, finding, wholes>>

Forgiven(s) == s \in deaf /\ deaf' = deaf \ {s} /\ UNCHANGED <<file, finding, listens, ears, wholes>>
Expire(s) ==
    /\ file[s].kind = "miss"
    /\ file' = [file EXCEPT ![s].kind = "old"]
    /\ UNCHANGED <<finding, listens, ears, deaf, wholes>>

\* The service is restarted, maybe while it writes a file.
Restart ==
    /\ \/ UNCHANGED file
       \/ \E s \in Songs : (At(s, "hearing") \/ finding[s] > 0) /\ file' = [file EXCEPT ![s] = [NoFile EXCEPT !.kind = "torn"]]
    /\ finding' = [s \in Songs |-> 0]
    /\ listens' = [s \in Songs |-> Quiet]
    /\ ears' = Nobody /\ deaf' = {}
    /\ UNCHANGED wholes

Next ==
    \/ Restart
    \/ \E s \in Songs : Ask(s) \/ Find(s) \/ FindFails(s) \/ Begin(s) \/ Cut(s) \/ Hear(s) \/ Heard(s) \/ ListenFails(s)
                        \/ Forgiven(s) \/ Expire(s)

Spec == Init /\ [][Next]_vars

-----------------------------------------------------------------------------
(* Properties *)

TypeOK ==
    /\ \A s \in Songs : /\ file[s].kind \in {"none", "old", "miss", "plain", "lines", "torn"}
                        /\ listens[s].at \in {"none", "started", "cutting", "waiting", "hearing"}
                        /\ listens[s].upto \in 0..Pieces[s]
    /\ ears \in Songs \cup {Nobody} /\ deaf \subseteq Songs /\ wholes \subseteq Songs

\* listen(), as_heard(): whatever other requests wrote while it listened, the slips in a
\* file are of the very lines they stand beside; and one piece is heard at a time.
SlipsAreOfTheirLines ==
    /\ \A s \in Songs : AsHeard(s).slips \in {0, AsHeard(s).lines}
    /\ \A s \in Songs : At(s, "hearing") <=> ears = s

\* avatar/README.md:486: "Results are kept with the lyrics, so a song is only heard once."
HeardOnce == \A s \in wholes : At(s, "none")
=================================================================================
